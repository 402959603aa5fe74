------------------------------ MODULE Profile ------------------------------
(***************************************************************************)
(* Starting on a profile: identity.json (identity.rs), the data-encryption *)
(* key in the OS keyring (keyring.rs) and opening messages.db with its     *)
(* migrations (store.rs, MessageStore::open), in the order of entry.rs.    *)
(*                                                                         *)
(* The process may end between any two writes.  std::fs::write truncates   *)
(* the file before it writes it, and every SQL statement commits by        *)
(* itself.  The keyring may be unreachable at a start; the process then    *)
(* runs on a key of its own.  While the process is down identity.json may  *)
(* be damaged in one field.                                                *)
(*                                                                         *)
(* A key pair is the triple of its stored fields (private, public,         *)
(* signature over the public half), each the number of the generation it   *)
(* came from, Missing, or Garbage of the right length.                     *)
(***************************************************************************)
EXTENDS Integers, Sequences, FiniteSets

CONSTANTS Peers,        \* contacts with queued mail
          MaxKeys,      \* bound: generations of keys, roots and DEKs
          MaxStarts,    \* bound: starts
          MaxDamage,    \* bound: damaged fields
          MaxOtpks,     \* bound: rows of my_otpks
          Outages       \* may the keyring be unreachable?

ASSUME ProfileAssumption ==
    /\ IsFiniteSet(Peers)
    /\ MaxKeys \in Nat \ {0} /\ MaxStarts \in Nat /\ MaxDamage \in Nat
    /\ MaxOtpks \in Nat \ {0} /\ Outages \in BOOLEAN

VARIABLES pc,         \* where the start is, "up" or "down"
          file,       \* identity.json
          ident,      \* the identity in memory
          ring, dek,  \* the DEK in the keyring, the DEK in memory
          gen,        \* the last generation number drawn
          version,    \* PRAGMA user_version
          column,     \* does my_otpks have served_at?
          outbox,     \* rows: id |-> peer, tag, key of the body
          toTag,      \* rows the running migration has still to re-tag
          otpks,      \* rows: id |-> served, spent, key of the private half
          starts, damage,
          ups,        \* history: PeerIds the profile came up with
          old,        \* history: OTPKs handed out before served_at existed
          issued,     \* history: OTPKs handed out since
          mishap      \* history: a migration was cut short or ran on a
                      \* DEK that the keyring does not have

idVars == <<file, ident>>
dbVars == <<version, column, outbox, toTag, otpks>>
history == <<ups, old, issued, mishap>>
vars == <<pc, idVars, ring, dek, gen, dbVars, starts, damage, history>>

Missing == 0
Garbage == -1
Pair(g) == <<g, g, g>>
NoPair == <<Missing, Missing, Missing>>
NoFile == [state |-> "none", root |-> Missing, x |-> NoPair, kem |-> NoPair]
TornFile == [NoFile EXCEPT !.state = "torn"]
Saved(id) == [state |-> "ok", root |-> id.root, x |-> id.x, kem |-> id.kem]
NoIdent == [root |-> Missing, x |-> NoPair, kem |-> NoPair]

-----------------------------------------------------------------------------
(* identity.rs                                                             *)

(* Mutant of KeepsX: the derived public half is not compared.              *)
KeepsXUnmatched(x) == Missing \notin {x[1], x[2], x[3]} /\ x[3] = x[2]

(* The stored X25519 prekey is used if all three fields are there, the     *)
(* halves belong together and the signature covers the public one.         *)
KeepsX(x) == Missing \notin {x[1], x[2], x[3]} /\ x[1] = x[2] /\ x[3] = x[2]

(* The ML-KEM prekey: fields, lengths and signature; the halves are not    *)
(* compared.                                                               *)
KeepsKem(k) == Missing \notin {k[1], k[2], k[3]} /\ k[3] = k[2]

(* load_or_create: a missing file makes a new identity, one that does not  *)
(* parse is an error, damaged or missing prekeys are made anew.            *)
Loaded(f, g) ==
    IF f.state = "none" THEN [root |-> g, x |-> Pair(g), kem |-> Pair(g)]
    ELSE [root |-> f.root, x |-> IF KeepsX(f.x) THEN f.x ELSE Pair(g),
          kem |-> IF KeepsKem(f.kem) THEN f.kem ELSE Pair(g)]

(* Mutant of Readable: a file that does not parse counts as missing.       *)
ReadableTorn(f) == TRUE

Readable(f) == f.state # "torn"

FileOrNone == IF file.state = "ok" THEN file ELSE NoFile

(* load_or_create up to the first half of save: the file is truncated.     *)
LoadIdentity ==
    /\ pc = "down" /\ starts < MaxStarts /\ gen < MaxKeys
    /\ Readable(file)
    /\ starts' = starts + 1
    /\ gen' = gen + 1
    /\ ident' = Loaded(FileOrNone, gen + 1)
    /\ file' = TornFile
    /\ pc' = "saving"
    /\ UNCHANGED <<ring, dek, dbVars, damage, history>>

SaveIdentity ==
    /\ pc = "saving"
    /\ file' = Saved(ident)
    /\ pc' = "named"
    /\ UNCHANGED <<ident, ring, dek, gen, dbVars, starts, damage, history>>

-----------------------------------------------------------------------------
(* keyring.rs, load_or_create_dek                                          *)

LoadDek ==
    /\ pc = "named" /\ ring # Missing
    /\ dek' = ring
    /\ pc' = "keyed"
    /\ UNCHANGED <<idVars, ring, gen, dbVars, starts, damage, history>>

CreateDek ==
    /\ pc = "named" /\ ring = Missing /\ gen < MaxKeys
    /\ gen' = gen + 1
    /\ dek' = gen + 1 /\ ring' = gen + 1
    /\ pc' = "keyed"
    /\ UNCHANGED <<idVars, dbVars, starts, damage, history>>

EphemeralDek ==
    /\ Outages
    /\ pc = "named" /\ gen < MaxKeys
    /\ gen' = gen + 1
    /\ dek' = gen + 1
    /\ pc' = "keyed"
    /\ UNCHANGED <<idVars, ring, dbVars, starts, damage, history>>

-----------------------------------------------------------------------------
(* store.rs, MessageStore::open                                            *)

AddServedAt ==
    /\ pc = "keyed"
    /\ column' = TRUE
    /\ pc' = "altered"
    /\ UNCHANGED <<idVars, ring, dek, gen, version, outbox, toTag, otpks, starts,
                   damage, history>>

(* Every start: a row the old code marked consumed at serve time counts    *)
(* as served.                                                              *)
Backfilled(row) == IF row.spent THEN [row EXCEPT !.served = TRUE] ELSE row

(* Mutant of NeedsRetag: at every start.                                   *)
NeedsRetagAlways == TRUE

NeedsRetag == version < 1

BackfillServedAt ==
    /\ pc = "altered"
    /\ otpks' = [id \in DOMAIN otpks |-> Backfilled(otpks[id])]
    /\ toTag' = IF NeedsRetag THEN DOMAIN outbox ELSE {}
    /\ pc' = IF NeedsRetag THEN "retag" ELSE "filled"
    /\ UNCHANGED <<idVars, ring, dek, gen, version, column, outbox, starts, damage, history>>

(* outbox_peer_tag: an HMAC under the DEK of what is there.                *)
OutboxPeerTag(key, bytes) == <<key>> \o bytes

Raw(p) == <<p>>

(* The F12 migration, one UPDATE per row.                                  *)
RetagRow(id) ==
    /\ pc = "retag" /\ id \in toTag /\ \A j \in toTag : id <= j
    /\ outbox' = [outbox EXCEPT ![id].tag = OutboxPeerTag(dek, @)]
    /\ toTag' = toTag \ {id}
    /\ mishap' = (mishap \/ dek # ring)
    /\ UNCHANGED <<pc, idVars, ring, dek, gen, version, column, otpks, starts, damage,
                   ups, old, issued>>

NewVersion == 1

FinishRetag ==
    /\ pc = "retag" /\ toTag = {}
    /\ version' = NewVersion
    /\ pc' = "filled"
    /\ UNCHANGED <<idVars, ring, dek, gen, column, outbox, toTag, otpks, starts, damage,
                   history>>

Unserved == {id \in DOMAIN otpks : ~otpks[id].served}

NewOtpk == [served |-> FALSE, spent |-> FALSE, key |-> dek]

With(rows, row) == [id \in 1 .. Len(rows) + 1 |-> IF id <= Len(rows) THEN rows[id] ELSE row]

Replenished(rows, unserved) ==
    IF unserved = {} /\ Len(rows) < MaxOtpks THEN With(rows, NewOtpk) ELSE rows

(* start: the pool is refilled by counting unserved rows.                  *)
ComeUp ==
    /\ pc = "filled"
    /\ otpks' = Replenished(otpks, Unserved)
    /\ ups' = ups \cup {ident.root}
    /\ pc' = "up"
    /\ UNCHANGED <<idVars, ring, dek, gen, version, column, outbox, toTag, starts, damage,
                   old, issued, mishap>>

-----------------------------------------------------------------------------
(* Running.                                                                *)

(* outbox_add, outbox_add_wire                                             *)
QueueMail(p) ==
    /\ pc = "up" /\ Len(outbox) < Cardinality(Peers)
    /\ outbox' = Append(outbox, [peer |-> p, tag |-> OutboxPeerTag(dek, Raw(p)), key |-> dek])
    /\ UNCHANGED <<pc, idVars, ring, dek, gen, version, column, toTag, otpks, starts,
                   damage, history>>

(* pop_unused_otpk for a prekey request, then the refill.                  *)
ServeOtpk ==
    /\ pc = "up" /\ Unserved # {}
    /\ LET id == CHOOSE k \in Unserved : \A j \in Unserved : k <= j
           served == [otpks EXCEPT ![id].served = TRUE]
       IN  /\ otpks' = Replenished(served, Unserved \ {id})
           /\ issued' = issued \cup {id}
    /\ UNCHANGED <<pc, idVars, ring, dek, gen, version, column, outbox, toTag, starts,
                   damage, ups, old, mishap>>

(* load_otpk_private: not spent, and its blob opens under this DEK.        *)
LoadsOtpk(id) == ~otpks[id].spent /\ otpks[id].key = dek

(* A first message that uses an OTPK; the row is kept, as after a failed   *)
(* delete.                                                                 *)
SpendOtpk(id) ==
    /\ pc = "up" /\ id \in issued /\ LoadsOtpk(id)
    /\ otpks' = [otpks EXCEPT ![id].spent = TRUE]
    /\ UNCHANGED <<pc, idVars, ring, dek, gen, version, column, outbox, toTag, starts,
                   damage, history>>

(* The process ends, in the middle of a start or later.                    *)
Ends ==
    /\ pc # "down"
    /\ pc' = "down" /\ dek' = Missing /\ ident' = NoIdent /\ toTag' = {}
    /\ mishap' = (mishap \/ (pc = "retag" /\ toTag # DOMAIN outbox))
    /\ UNCHANGED <<file, ring, gen, version, column, outbox, otpks, starts, damage,
                   ups, old, issued>>

(* One field of identity.json is overwritten with garbage or removed.      *)
Damage(i, bad) ==
    /\ pc = "down" /\ file.state = "ok" /\ damage < MaxDamage
    /\ damage' = damage + 1
    /\ \/ file' = [file EXCEPT !.x[i] = bad]
       \/ file' = [file EXCEPT !.kem[i] = bad]
    /\ UNCHANGED <<pc, ident, ring, dek, gen, dbVars, starts, history>>

(* A new profile, or one left by an older build: no prekeys in the file,   *)
(* recipients in the clear in the outbox, consumed_at set at serve time.   *)
Fresh ==
    /\ file = NoFile /\ ring = Missing /\ gen = 0 /\ column = TRUE
    /\ outbox = << >> /\ otpks = << >> /\ old = {}

Legacy ==
    /\ file = [NoFile EXCEPT !.state = "ok", !.root = 1] /\ ring = 1 /\ gen = 1
    /\ column = FALSE
    /\ \E mail \in {s \in [1 .. Cardinality(Peers) -> Peers] :
                      \A i, j \in DOMAIN s : s[i] = s[j] => i = j} :
        outbox = [i \in DOMAIN mail |-> [peer |-> mail[i], tag |-> Raw(mail[i]), key |-> 1]]
    /\ otpks = <<[served |-> FALSE, spent |-> TRUE, key |-> 1]>> /\ old = {1}

Init ==
    /\ Fresh \/ Legacy
    /\ pc = "down" /\ ident = NoIdent /\ dek = Missing /\ version = 0 /\ toTag = {}
    /\ starts = 0 /\ damage = 0 /\ ups = {} /\ issued = {} /\ mishap = FALSE

Next ==
    \/ LoadIdentity \/ SaveIdentity \/ LoadDek \/ CreateDek \/ EphemeralDek
    \/ AddServedAt \/ BackfillServedAt \/ FinishRetag \/ ComeUp \/ ServeOtpk \/ Ends
    \/ \E id \in DOMAIN outbox : RetagRow(id)
    \/ \E id \in DOMAIN otpks : SpendOtpk(id)
    \/ \E p \in Peers : QueueMail(p)
    \/ \E i \in 1 .. 3, bad \in {Missing, Garbage} : Damage(i, bad)

Spec == Init /\ [][Next]_vars

-----------------------------------------------------------------------------
(* Types; a start that is past the keyring has an identity and a key, and  *)
(* served_at is there before anything reads it.                            *)
TypeOK ==
    /\ pc \in {"down", "saving", "named", "keyed", "altered", "retag", "filled", "up"}
    /\ file.state \in {"none", "torn", "ok"}
    /\ ring \in 0 .. gen /\ dek \in 0 .. gen /\ gen \in 0 .. MaxKeys
    /\ pc \notin {"down", "saving"} => file = Saved(ident)
    /\ pc \notin {"down", "saving", "named"} => dek # Missing
    /\ pc \notin {"down", "saving", "named", "keyed"} => column
    /\ toTag \subseteq DOMAIN outbox /\ (toTag # {} => pc = "retag")
    /\ pc = "up" => version = 1
    /\ starts \in 0 .. MaxStarts /\ damage \in 0 .. MaxDamage

(* load_or_create and save: every start that succeeds has the PeerId of    *)
(* the first one, wherever earlier starts were cut off and whatever became *)
(* of the prekeys in the file.                                             *)
OneIdentity == Cardinality(ups) <= 1

(* load_or_create: the X25519 prekey a node publishes is one it has the    *)
(* private half of and that the file will give back at the next start.     *)
PrekeyUsable == pc = "up" => KeepsX(file.x) /\ ident.x[1] = ident.x[2]

(* The order of the start-up steps, and the prekey they end with.          *)
PrekeysSound == TypeOK /\ PrekeyUsable

(* The served_at migration: an OTPK handed out under the old marking is    *)
(* never handed out again, although ALTER and backfill commit separately.  *)
OldNotServedAgain == issued \cap old = {}

Findable(row) == row.tag = OutboxPeerTag(row.key, Raw(row.peer))

(* The F12 migration and outbox_get_for: whatever is queued is found under *)
(* its peer's tag, if no migration was cut short or ran on another DEK.    *)
QueuedFindable ==
    pc = "up" /\ ~mishap => \A id \in DOMAIN outbox : Findable(outbox[id])

(* Both migrations of messages.db.                                         *)
MigrationsSound == OldNotServedAgain /\ QueuedFindable

-----------------------------------------------------------------------------
(* Claims of the repository that the code does not keep.                   *)

(* store.rs: "re-tag any rows left over from a pre-F12 build exactly once" *)
RetaggedOnce == \A id \in DOMAIN outbox : Len(outbox[id].tag) <= 2

(* identity.rs, load_or_create: a migrated file is "written back -         *)
(* preserving the existing PeerId": the file of a profile that has come up *)
(* always has its root key, except in mid-write.                           *)
RootKept == ups # {} /\ pc # "saving" => file.root \in ups

(* identity.rs: a corrupt ML-KEM blob "will be caught here, not deferred   *)
(* to first use".                                                          *)
KemUsable == pc = "up" => ident.kem[1] = ident.kem[2]

(* store.rs, load_otpk_private: "a served-but-not-yet-spent OTPK MUST      *)
(* still load".                                                            *)
ServedLoads ==
    pc = "up" => \A id \in issued : ~otpks[id].spent => LoadsOtpk(id)
=============================================================================
