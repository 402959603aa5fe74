--------------------------- MODULE PrekeyService ---------------------------
(***************************************************************************)
(* What the pool of one-time prekeys promises, without tables, markers,    *)
(* gates or restarts: a key is given once, to one peer, and at most one    *)
(* session is ever set up with it, by that peer.  OtpkPool implements      *)
(* this.  A record has the key's id, the peer, and whatever else tells one *)
(* occasion from another.                                                  *)
(***************************************************************************)
EXTENDS Naturals

CONSTANT Peers

VARIABLES given,    \* responses that carried a key
          used      \* sessions that were set up with one

Give(g) ==
    /\ g.id \in Nat /\ g.peer \in Peers
    /\ \A h \in given : h.id # g.id
    /\ given' = given \cup {g}
    /\ UNCHANGED used

Use(u) ==
    /\ \E g \in given : g.id = u.id /\ g.peer = u.peer
    /\ \A v \in used : v.id # u.id
    /\ used' = used \cup {u}
    /\ UNCHANGED given

Init == given = {} /\ used = {}

Next == (\E g \in given' : Give(g)) \/ (\E u \in used' : Use(u))

Spec == Init /\ [][Next]_<<given, used>>
=============================================================================
