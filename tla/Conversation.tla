---------------------------- MODULE Conversation ----------------------------
(***************************************************************************)
(* What the user sees (gui/app.rs, the commands of run_with_commands, the  *)
(* messages, contacts and group_messages tables of store.rs, and the       *)
(* webview's script in dist/index.html).                                   *)
(*                                                                         *)
(* The node is one loop that takes commands from a bounded channel and     *)
(* network events in turn.  The webview never shares its state: each       *)
(* invoke() is a task of its own that waits for room in the channel and    *)
(* then for its reply.  The node announces received messages on a second   *)
(* channel with try_send.  Tasks of the webview may overtake each other on *)
(* the way in and on the way out.                                          *)
(*                                                                         *)
(* A message is its number.  The clock only moves forward, so rows are in  *)
(* the order of their timestamps.                                          *)
(***************************************************************************)
EXTENDS Integers, SequencesExt

CONSTANTS Peers, Alias,
          CmdCap,      \* 32: the command channel
          GuiCap,      \* 32: the GuiEvent channel
          Window,      \* 500: rows QueryMessages asks for
          Ttl,         \* seven days
          MaxMsgs,     \* bound: messages
          MaxInvokes,  \* bound: invokes the user causes
          MaxClock,    \* bound: clock ticks
          MaxStarts    \* bound: restarts

ASSUME ConversationAssumption ==
    /\ CmdCap \in Nat \ {0} /\ GuiCap \in Nat \ {0} /\ Window \in Nat \ {0}
    /\ Ttl \in Nat
    /\ MaxMsgs \in Nat /\ MaxInvokes \in Nat /\ MaxClock \in Nat /\ MaxStarts \in Nat

VARIABLES rows,       \* messages: peer, own, n, at
          groupRows,  \* group_messages: timestamps
          contacts,   \* contacts: peer |-> alias
          pending,    \* plaintexts that wait for a prekey: peer, n, durable
                      \* (a row of the outbox) or not (pending_sends)
          asks,       \* invokes that wait for room in the command channel
          cmds,       \* the command channel
          events,     \* the GuiEvent channel
          replies,    \* answers the webview has still to render
          selected,   \* selectedContact
          shown,      \* what renderMessages rendered last
          msgs, invokes, clock, starts,
          sweptAt,    \* history: time of the last sweep
          handled,    \* history: sends the node has dealt with
          named,      \* history: contacts the user gave an alias
          overtaken,  \* history: an invoke or a reply has overtaken another
          silent      \* history: peers a query would show more of than the
                      \* last one did, without an event to say so

db == <<rows, groupRows, contacts>>
ui == <<asks, cmds, events, replies, selected, shown>>
counters == <<msgs, invokes, clock, starts>>
history == <<sweptAt, handled, named, overtaken, silent>>
vars == <<db, pending, ui, counters, history>>

Nobody == "nobody"
Group == "a group"
NoAlias == "none"
NothingShown == [peer |-> Nobody, rows |-> << >>]

Put(f, p, v) == [q \in DOMAIN f \cup {p} |-> IF q = p THEN v ELSE f[q]]

-----------------------------------------------------------------------------
(* store.rs                                                                *)

StoreMessage(p, own, n) == Append(rows, [peer |-> p, own |-> own, n |-> n, at |-> clock])

(* INSERT OR REPLACE                                                       *)
AddContact(p, alias) == Put(contacts, p, alias)

Stored(p) == SelectSeq(rows, LAMBDA r : r.peer = p)

(* get_conversation: ORDER BY timestamp ASC LIMIT                          *)
GetConversation(p) ==
    SubSeq(Stored(p), 1, IF Len(Stored(p)) < Window THEN Len(Stored(p)) ELSE Window)

(* cleanup_expired deletes where timestamp + ttl < now.                    *)
Keep(r) == r.at + Ttl >= clock

-----------------------------------------------------------------------------
(* The webview.                                                            *)

(* What crosses the command channel; owed, which is not in the code, are   *)
(* the sends whose invoke was over when the query was asked.               *)
Query(p) == [op |-> "query", peer |-> p, n |-> 0, owed |-> handled]
Send(p, n) == [op |-> "send", peer |-> p, n |-> n, owed |-> {}]
Name(p) == [op |-> "name", peer |-> p, n |-> 0, owed |-> {}]

(* selectContact, from the list of contacts (taken to be up to date): the  *)
(* selection changes at once, the messages follow.                         *)
SelectContact(p) ==
    /\ invokes < MaxInvokes
    /\ p \in DOMAIN contacts
    /\ invokes' = invokes + 1
    /\ selected' = p
    /\ asks' = Append(asks, Query(p))
    /\ UNCHANGED <<db, pending, cmds, events, replies, shown, msgs, clock, starts, history>>

(* Mutant of SendMessage: the messages are loaded without waiting for      *)
(* send_message.                                                           *)
SendMessageUnawaited ==
    /\ invokes < MaxInvokes /\ msgs < MaxMsgs /\ selected # Nobody
    /\ invokes' = invokes + 1
    /\ msgs' = msgs + 1
    /\ asks' = asks \o <<Send(selected, msgs + 1),
                         [Query(selected) EXCEPT !.owed = @ \cup {msgs + 1}]>>
    /\ UNCHANGED <<db, pending, cmds, events, replies, selected, shown, clock, starts, history>>

(* sendMessage                                                             *)
SendMessage ==
    /\ invokes < MaxInvokes /\ msgs < MaxMsgs /\ selected # Nobody
    /\ invokes' = invokes + 1
    /\ msgs' = msgs + 1
    /\ asks' = Append(asks, Send(selected, msgs + 1))
    /\ UNCHANGED <<db, pending, cmds, events, replies, selected, shown, clock, starts, history>>

(* add_contact, with an alias                                              *)
NameContact(p) ==
    /\ invokes < MaxInvokes
    /\ invokes' = invokes + 1
    /\ asks' = Append(asks, Name(p))
    /\ UNCHANGED <<db, pending, cmds, events, replies, selected, shown, msgs, clock, starts, history>>

Overtakes(i) == overtaken' = (overtaken \/ i # 1)

(* send_message resolves when its command is in the channel, and the       *)
(* script then loads the messages of the open contact.                     *)
AfterEnter(a, rest) ==
    IF a.op = "send" /\ selected # Nobody
    THEN Append(rest, [Query(selected) EXCEPT !.owed = @ \cup {a.n}]) ELSE rest

Enter(i) ==
    /\ Len(cmds) < CmdCap
    /\ Overtakes(i)
    /\ cmds' = Append(cmds, asks[i])
    /\ asks' = AfterEnter(asks[i], RemoveAt(asks, i))
    /\ UNCHANGED <<db, pending, events, replies, selected, shown, counters,
                   sweptAt, handled, named, silent>>

(* The forwarder and the listeners; the group's listener asks for no       *)
(* direct messages.                                                        *)
Forward ==
    /\ events # << >>
    /\ events' = Tail(events)
    /\ asks' = IF Head(events) = selected THEN Append(asks, Query(selected)) ELSE asks
    /\ UNCHANGED <<db, pending, cmds, replies, selected, shown, counters, history>>

(* loadMessages renders whatever reply comes.                              *)
Render(i) ==
    /\ Overtakes(i)
    /\ shown' = [peer |-> replies[i].peer, rows |-> replies[i].rows]
    /\ replies' = RemoveAt(replies, i)
    /\ UNCHANGED <<db, pending, asks, cmds, events, selected, counters,
                   sweptAt, handled, named, silent>>

-----------------------------------------------------------------------------
(* The node.                                                               *)

(* Mutant of AtSelect: emit_gui waits for room.                            *)
AtSelectBlocking == Len(events) < GuiCap

(* No handler waits, so the loop is always back at its select.             *)
AtSelect == TRUE

HeadIs(op) == AtSelect /\ cmds # << >> /\ Head(cmds).op = op

(* QueryMessages                                                           *)
HandleQuery ==
    /\ HeadIs("query")
    /\ cmds' = Tail(cmds)
    /\ LET p == Head(cmds).peer IN
        /\ replies' = Append(replies, [peer |-> p, rows |-> GetConversation(p),
                                       owed |-> Head(cmds).owed, handled |-> handled])
        /\ silent' = silent \ {p}
    /\ UNCHANGED <<db, pending, asks, events, selected, shown, counters, sweptAt, handled, named, overtaken>>

(* AddContact                                                              *)
HandleAddContact ==
    /\ HeadIs("name")
    /\ cmds' = Tail(cmds)
    /\ contacts' = AddContact(Head(cmds).peer, Alias)
    /\ named' = named \cup {Head(cmds).peer}
    /\ UNCHANGED <<rows, groupRows, pending, asks, events, replies, selected, shown,
                   counters, sweptAt, handled, overtaken, silent>>

(* Send, try_send_or_queue: to a connected peer, with a local copy ...     *)
HandleSendNow ==
    /\ HeadIs("send")
    /\ cmds' = Tail(cmds)
    /\ rows' = StoreMessage(Head(cmds).peer, TRUE, Head(cmds).n)
    /\ handled' = handled \cup {Head(cmds).n}
    /\ UNCHANGED <<groupRows, contacts, pending, asks, events, replies, selected, shown,
                   counters, sweptAt, named, overtaken, silent>>

(* ... or encrypted into the outbox, without one ...                       *)
HandleSendOffline ==
    /\ HeadIs("send")
    /\ cmds' = Tail(cmds)
    /\ handled' = handled \cup {Head(cmds).n}
    /\ UNCHANGED <<db, pending, asks, events, replies, selected, shown, counters,
                   sweptAt, named, overtaken, silent>>

(* ... or kept in plaintext until the peer's prekey arrives: in the outbox *)
(* of a peer that is not connected, in memory for one that is.             *)
HandleSendPending(durable) ==
    /\ HeadIs("send")
    /\ cmds' = Tail(cmds)
    /\ pending' = Append(pending, [peer |-> Head(cmds).peer, n |-> Head(cmds).n,
                                   durable |-> durable])
    /\ handled' = handled \cup {Head(cmds).n}
    /\ UNCHANGED <<db, asks, events, replies, selected, shown, counters,
                   sweptAt, named, overtaken, silent>>

(* process_pending (or drain_outbox_for) sends and stores it; nothing      *)
(* tells the webview.                                                      *)
ProcessPending ==
    /\ AtSelect /\ pending # << >>
    /\ pending' = Tail(pending)
    /\ rows' = StoreMessage(Head(pending).peer, TRUE, Head(pending).n)
    /\ silent' = silent \cup {Head(pending).peer}
    /\ UNCHANGED <<groupRows, contacts, ui, counters, sweptAt, handled, named, overtaken>>

(* Mutant of EmitGui: only for a sender that is new.                       *)
EmitGuiNew(p) ==
    IF p \in DOMAIN contacts \/ Len(events) >= GuiCap THEN events ELSE Append(events, p)

(* emit_gui: try_send drops what finds the channel full.                   *)
EmitGui(p) == IF Len(events) < GuiCap THEN Append(events, p) ELSE events

(* Mutant of ReceiveDm: a known contact is announced, a new one is not     *)
(* saved.                                                                  *)
ReceiveDmUnsaved(p) ==
    /\ AtSelect /\ msgs < MaxMsgs
    /\ msgs' = msgs + 1
    /\ rows' = StoreMessage(p, FALSE, msgs + 1)
    /\ events' = EmitGui(p)
    /\ UNCHANGED <<groupRows, contacts, pending, asks, cmds, replies, selected, shown,
                   invokes, clock, starts, history>>

(* dispatch_decrypted_content, kind 0                                      *)
ReceiveDm(p) ==
    /\ AtSelect /\ msgs < MaxMsgs
    /\ msgs' = msgs + 1
    /\ contacts' = AddContact(p, NoAlias)
    /\ rows' = StoreMessage(p, FALSE, msgs + 1)
    /\ events' = EmitGui(p)
    /\ silent' = IF Len(events) < GuiCap THEN silent ELSE silent \cup {p}
    /\ UNCHANGED <<groupRows, pending, asks, cmds, replies, selected, shown,
                   invokes, clock, starts, sweptAt, handled, named, overtaken>>

(* process_group_message, which announces its row, and group_send.         *)
GroupMessage(own) ==
    /\ AtSelect /\ msgs < MaxMsgs
    /\ msgs' = msgs + 1
    /\ groupRows' = groupRows \cup {clock}
    /\ events' = IF own THEN events ELSE EmitGui(Group)
    /\ UNCHANGED <<rows, contacts, pending, asks, cmds, replies, selected, shown,
                   invokes, clock, starts, history>>

(* The hourly tick.                                                        *)
Sweep ==
    /\ AtSelect /\ sweptAt < clock
    /\ rows' = SelectSeq(rows, Keep)
    /\ sweptAt' = clock
    /\ silent' = silent \cup {p \in Peers : Len(Stored(p)) > Window}
    /\ UNCHANGED <<groupRows, contacts, pending, ui, counters, handled, named, overtaken>>

Tick ==
    /\ clock < MaxClock
    /\ clock' = clock + 1
    /\ UNCHANGED <<db, pending, ui, msgs, invokes, starts, history>>

(* The process ends, perhaps between the two writes of ReceiveDm, and the  *)
(* user starts it again.                                                   *)
Restart(saved) ==
    /\ starts < MaxStarts
    /\ starts' = starts + 1
    /\ contacts' = [p \in DOMAIN contacts \cup saved |->
                       IF p \in saved THEN NoAlias ELSE contacts[p]]
    /\ pending' = SelectSeq(pending, LAMBDA q : q.durable)
    /\ asks' = << >> /\ cmds' = << >> /\ events' = << >>
    /\ replies' = << >> /\ selected' = Nobody /\ shown' = NothingShown
    /\ handled' = {} /\ overtaken' = FALSE /\ silent' = {}
    /\ UNCHANGED <<rows, groupRows, msgs, invokes, clock, sweptAt, named>>

Init ==
    /\ rows = << >> /\ groupRows = {} /\ contacts = [p \in {} |-> NoAlias]
    /\ pending = << >> /\ asks = << >> /\ cmds = << >> /\ events = << >> /\ replies = << >>
    /\ selected = Nobody /\ shown = NothingShown
    /\ msgs = 0 /\ invokes = 0 /\ clock = 0 /\ starts = 0
    /\ sweptAt = 0 /\ handled = {} /\ named = {} /\ overtaken = FALSE /\ silent = {}

HandleCommand ==
    \/ HandleQuery \/ HandleAddContact \/ HandleSendNow \/ HandleSendOffline
    \/ \E durable \in BOOLEAN : HandleSendPending(durable)

Node ==
    \/ HandleCommand \/ ProcessPending \/ Sweep
    \/ \E own \in BOOLEAN : GroupMessage(own)
    \/ \E p \in Peers : ReceiveDm(p)

Next ==
    \/ Node \/ SendMessage \/ Forward \/ Tick
    \/ \E p \in Peers : SelectContact(p) \/ NameContact(p) \/ Restart({p})
    \/ Restart({})
    \/ \E i \in DOMAIN asks : Enter(i)
    \/ \E i \in DOMAIN replies : Render(i)

Spec == Init /\ [][Next]_vars

(* select! picks at random among the branches that are ready, so a command *)
(* that waits is taken sooner or later.  Nothing is assumed of the webview. *)
FairSpec == Spec /\ WF_vars(HandleCommand)

-----------------------------------------------------------------------------
(* Types; the channels are within their bounds, and no message has two     *)
(* rows.                                                                   *)
TypeOK ==
    /\ Len(cmds) <= CmdCap /\ Len(events) <= GuiCap
    /\ DOMAIN contacts \subseteq Peers /\ Range(contacts) \subseteq {Alias, NoAlias}
    /\ selected \in Peers \cup {Nobody} /\ shown.peer \in Peers \cup {Nobody}
    /\ \A i \in DOMAIN rows : rows[i].n \in 1 .. msgs /\ rows[i].at \in 0 .. clock
    /\ \A i, j \in DOMAIN rows : rows[i].n = rows[j].n => i = j
    /\ groupRows \subseteq 0 .. clock /\ handled \subseteq 1 .. msgs
    /\ msgs \in 0 .. MaxMsgs /\ invokes \in 0 .. MaxInvokes
    /\ clock \in 0 .. MaxClock /\ starts \in 0 .. MaxStarts

(* send_message with its follow-up query, over one first-in first-out      *)
(* channel: a reply to a query asked after a send comes from after the     *)
(* node has dealt with that send, even if invokes overtake each other.     *)
ReadsOwnSends == \A i \in DOMAIN replies : replies[i].owed \subseteq replies[i].handled

(* dispatch_decrypted_content writes the contact before the message: who   *)
(* wrote to the user can be selected, whatever write a crash came after.   *)
SenderSelectable ==
    \A i \in DOMAIN rows : ~rows[i].own => rows[i].peer \in DOMAIN contacts

(* cleanup_expired: no direct message outlives the sweep after its TTL.    *)
MessagesSwept == \A i \in DOMAIN rows : rows[i].at + Ttl >= sweptAt

(* The tables behind the window: well formed, every sender a contact, and  *)
(* nothing kept past its time.                                             *)
TablesSound == TypeOK /\ SenderSelectable /\ MessagesSwept

Quiet == asks = << >> /\ cmds = << >> /\ events = << >> /\ replies = << >>

(* Push refresh: when nothing is under way, the open conversation shows    *)
(* all that a query would return, unless an event was dropped, a row came  *)
(* into the window without one, or a reply was overtaken by an older one.  *)
ShowsAll ==
    Quiet /\ ~overtaken /\ selected \in Peers \ silent =>
        /\ shown.peer = selected
        /\ Range(GetConversation(selected)) \subseteq Range(shown.rows)

SendWaits(n) == \E i \in DOMAIN cmds : cmds[i].n = n

(* emit_gui never waits: whatever the webview does, a send in the command  *)
(* channel is dealt with, unless the process ends.                         *)
SendsHandled == \A n \in 1 .. MaxMsgs : SendWaits(n) ~> ~SendWaits(n)

-----------------------------------------------------------------------------
(* Claims of the repository that the code does not keep.                   *)

(* "Return conversation history with a specific peer (newest last)"        *)
(* (NodeCommand::QueryMessages).                                           *)
NewestLast ==
    \A p \in Peers : Stored(p) # << >> => Last(GetConversation(p)) = Last(Stored(p))

(* README: peers are auto-saved when their first verified DM arrives, so a *)
(* contact the user has named keeps the name.                              *)
AliasKept == \A p \in named : contacts[p] = Alias

(* send_message relies on a follow-up query to refresh the conversation:   *)
(* the answer has the message just sent.                                   *)
FollowUpShowsSent ==
    \A i \in DOMAIN replies :
        replies[i].owed \subseteq {r.n : r \in Range(replies[i].rows)}

(* run_with_commands: messages have a 7-day TTL and the hourly sweep keeps *)
(* the database bounded; so for group messages.                            *)
GroupRowsSwept == \A at \in groupRows : at + Ttl >= sweptAt

=============================================================================
