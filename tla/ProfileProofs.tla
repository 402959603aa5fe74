--------------------------- MODULE ProfileProofs ---------------------------
(***************************************************************************)
(* Proofs about Profile, for any number of starts, crashes, damaged fields *)
(* and contacts.                                                           *)
(***************************************************************************)
EXTENDS Profile, FiniteSetTheorems, SequenceTheorems, WellFoundedInduction, TLAPS

-----------------------------------------------------------------------------
(* The inductive invariant, by what it is about.                           *)

(* identity.json is a record; past "down" the identity in memory has a     *)
(* usable prekey.                                                          *)
FileShaped == file = [state |-> file.state, root |-> file.root, x |-> file.x, kem |-> file.kem]
PrekeyHeld == pc # "down" => KeepsX(ident.x)

(* Once the profile has come up, its root is in the file (unless torn) and *)
(* in memory, and the file is never again found missing.                   *)
OneRoot ==
    /\ file.state = "none" => pc = "down" /\ ups = {}
    /\ \A u \in ups :
        /\ \A v \in ups : u = v
        /\ file.state = "ok" => file.root = u
        /\ pc # "down" => ident.root = u

Identity == TypeOK /\ FileShaped /\ PrekeyHeld /\ OneRoot

(* An OTPK handed out before served_at existed is marked, first by         *)
(* consumed_at, from the backfill on by served_at too.                     *)
OtpkRows == [served : BOOLEAN, spent : BOOLEAN, key : Nat]
OldMarked ==
    /\ old \subseteq DOMAIN otpks
    /\ \A id \in old : otpks[id].spent
    /\ pc \in {"retag", "filled", "up"} => \A id \in old : otpks[id].served

Pool == otpks \in Seq(OtpkRows) /\ OldMarked /\ OldNotServedAgain

(* Before the F12 migration every row is raw and its body under the key of *)
(* the keyring; during it the rows left to do still are; and what has been *)
(* migrated is findable, if nothing went wrong.                            *)
MailRows == [peer : Peers, tag : Seq(Nat \cup Peers), key : Nat]
RawRow(row) == row.tag = Raw(row.peer)
Versions == version \in {0, 1} /\ (pc \in {"filled", "up"} => version = 1) /\ (pc = "retag" => version = 0)
KeysKept == version = 0 => \A id \in DOMAIN outbox : outbox[id].key = ring /\ ring # Missing
Migrated ==
    ~mishap =>
        /\ version = 1 => \A id \in DOMAIN outbox : Findable(outbox[id])
        /\ version = 0 /\ pc # "retag" => \A id \in DOMAIN outbox : RawRow(outbox[id])
        /\ pc = "retag" =>
            \A id \in DOMAIN outbox :
                IF id \in toTag THEN RawRow(outbox[id]) ELSE Findable(outbox[id])

Mail == outbox \in Seq(MailRows) /\ mishap \in BOOLEAN /\ Versions /\ KeysKept /\ Migrated

IndInv == Identity /\ Pool /\ Mail

-----------------------------------------------------------------------------
(* A set of natural numbers has a smallest one.                            *)
LEMMA Smallest ==
    ASSUME NEW S \in SUBSET Nat, S # {}
    PROVE  (CHOOSE i \in S : \A j \in S : i <= j) \in S
  <1> DEFINE R == {ss \in Nat \X Nat : ss[1] < ss[2]}
  <1>1. IsWellFoundedOn(R, Nat)
    BY NatLessThanWellFounded DEF OpToRel
  <1>2. \E x \in S : \A y \in S : ~ (<<y, x>> \in R)
    <2> HIDE DEF R
    <2> QED
      BY <1>1, WFMin
  <1>3. \E x \in S : \A y \in S : x <= y
    <2>1. PICK x \in S : \A y \in S : ~ (<<y, x>> \in R)
      BY <1>2
    <2>2. ASSUME NEW y \in S PROVE x <= y
      <3>1. x \in Nat /\ y \in Nat /\ <<y, x>> \notin R
        BY <2>1, <2>2
      <3>2. ~(y < x)
        BY <3>1
      <3> QED
        BY <3>1, <3>2
    <2> QED
      BY <2>2
  <1> QED
    BY <1>3

LEMMA PeersFinite == Cardinality(Peers) \in Nat
  BY ProfileAssumption, FS_CardinalityType

-----------------------------------------------------------------------------
(* load_or_create gives a usable prekey and keeps the root of the file.    *)
LEMMA LoadedSound ==
    ASSUME NEW f, NEW g \in Nat, g # 0
    PROVE  /\ KeepsX(Loaded(f, g).x)
           /\ f.state # "none" => Loaded(f, g).root = f.root
  <1>1. KeepsX(Pair(g))
    BY DEF KeepsX, Pair, Missing
  <1>2. Loaded(f, g).x \in {Pair(g), f.x} /\ (Loaded(f, g).x = Pair(g) \/ KeepsX(Loaded(f, g).x))
    BY DEF Loaded
  <1> QED
    BY <1>1, <1>2 DEF Loaded

LEMMA IdentityInit == Init => Identity
  <1> SUFFICES ASSUME Init PROVE Identity
    OBVIOUS
  <1>1. file \in {NoFile, [NoFile EXCEPT !.state = "ok", !.root = 1]} /\ gen \in {0, 1} /\ ring = gen
    BY DEF Init, Fresh, Legacy, Missing
  <1>2. FileShaped /\ file.state \in {"none", "ok"}
    <2>1. \/ file = [state |-> "none", root |-> Missing, x |-> NoPair, kem |-> NoPair]
          \/ file = [state |-> "ok", root |-> 1, x |-> NoPair, kem |-> NoPair]
      BY <1>1 DEF NoFile
    <2> QED
      BY <2>1 DEF FileShaped
  <1>3. TypeOK
    BY <1>1, <1>2, ProfileAssumption DEF Init, TypeOK, Missing
  <1>4. OneRoot /\ PrekeyHeld
    BY DEF Init, OneRoot, PrekeyHeld
  <1> QED
    BY <1>2, <1>3, <1>4 DEF Identity

LEMMA IdentityStep == ASSUME IndInv, [Next]_vars PROVE Identity'
  <1> USE DEF IndInv, Identity
  <1>t. /\ ring \in Nat /\ dek \in Nat /\ gen \in Nat /\ ring <= gen /\ dek <= gen /\ gen <= MaxKeys
        /\ starts \in Nat /\ damage \in Nat /\ starts <= MaxStarts /\ damage <= MaxDamage
    BY ProfileAssumption DEF TypeOK
  <1>1. CASE LoadIdentity
    <2> DEFINE g == gen + 1
    <2>1. /\ pc = "down" /\ pc' = "saving" /\ file' = TornFile /\ ident' = Loaded(FileOrNone, g)
          /\ gen' = g /\ starts' = starts + 1 /\ starts < MaxStarts /\ gen < MaxKeys
          /\ Readable(file) /\ ring' = ring /\ dek' = dek /\ damage' = damage /\ ups' = ups
          /\ outbox' = outbox /\ toTag' = toTag /\ column' = column /\ version' = version
      BY <1>1 DEF LoadIdentity, dbVars, history
    <2>2. KeepsX(ident'.x) /\ (file.state = "ok" => ident'.root = file.root)
      <3>1. g \in Nat /\ g # 0
        BY <1>t
      <3>2. KeepsX(Loaded(FileOrNone, g).x)
            /\ (FileOrNone.state # "none" => Loaded(FileOrNone, g).root = FileOrNone.root)
        BY <3>1, LoadedSound
      <3> QED
        BY <2>1, <3>2 DEF FileOrNone
    <2>3. FileShaped' /\ file'.state = "torn"
      BY <2>1 DEF FileShaped, TornFile, NoFile
    <2>4. OneRoot'
      BY <2>1, <2>2, <2>3 DEF OneRoot, Readable, TypeOK
    <2>5. TypeOK'
      <3>1. ring \in 0 .. gen + 1 /\ dek \in 0 .. gen + 1 /\ gen + 1 \in 0 .. MaxKeys
            /\ starts + 1 \in 0 .. MaxStarts
        BY <1>t, <2>1, ProfileAssumption
      <3> HIDE DEF FileOrNone
      <3> QED
        BY <2>1, <2>3, <3>1 DEF TypeOK
    <2> QED
      BY <2>1, <2>2, <2>3, <2>4, <2>5 DEF PrekeyHeld
  <1>2. CASE SaveIdentity
    <2>1. /\ pc = "saving" /\ pc' = "named" /\ file' = Saved(ident) /\ ident' = ident
          /\ UNCHANGED <<gen, starts, ring, dek, damage, ups, outbox, toTag, column, version>>
      BY <1>2 DEF SaveIdentity, dbVars, history
    <2>2. FileShaped' /\ file'.state = "ok" /\ file'.root = ident.root
      BY <2>1 DEF FileShaped, Saved
    <2>3. OneRoot' /\ PrekeyHeld'
      BY <2>1, <2>2 DEF OneRoot, PrekeyHeld
    <2>4. TypeOK'
      BY <2>1, <2>2 DEF TypeOK
    <2> QED
      BY <2>2, <2>3, <2>4
  <1>3. CASE LoadDek \/ CreateDek \/ EphemeralDek
    <2>1. /\ pc = "named" /\ pc' = "keyed" /\ dek' # Missing
          /\ UNCHANGED <<file, ident, starts, damage, ups, outbox, toTag, column, version>>
          /\ gen' \in 0 .. MaxKeys /\ ring' \in 0 .. gen' /\ dek' \in 0 .. gen'
      BY <1>3, <1>t, ProfileAssumption DEF LoadDek, CreateDek, EphemeralDek, dbVars, history, idVars, Missing
    <2>2. FileShaped' /\ OneRoot' /\ PrekeyHeld'
      BY <2>1 DEF FileShaped, OneRoot, PrekeyHeld
    <2>3. TypeOK'
      BY <2>1 DEF TypeOK, Saved
    <2> QED
      BY <2>2, <2>3
  <1>4. CASE AddServedAt \/ BackfillServedAt \/ FinishRetag
    <2>1. /\ UNCHANGED <<file, ident, ring, dek, gen, starts, damage, ups, outbox>>
          /\ \/ pc = "keyed" /\ pc' = "altered" /\ column' /\ toTag' = toTag
             \/ pc = "altered" /\ pc' = "retag" /\ toTag' = DOMAIN outbox /\ column' = column
             \/ pc = "altered" /\ pc' = "filled" /\ toTag' = {} /\ column' = column
             \/ pc = "retag" /\ pc' = "filled" /\ toTag' = toTag /\ toTag = {} /\ column' = column
      BY <1>4 DEF AddServedAt, BackfillServedAt, FinishRetag, history, idVars
    <2>2. FileShaped' /\ OneRoot' /\ PrekeyHeld'
      BY <2>1 DEF FileShaped, OneRoot, PrekeyHeld
    <2>3. TypeOK'
      BY <2>1 DEF TypeOK, Saved
    <2> QED
      BY <2>2, <2>3
  <1>5. CASE ComeUp
    <2>1. /\ UNCHANGED <<file, ident, ring, dek, gen, starts, damage, outbox, toTag, column, version>>
          /\ pc = "filled" /\ pc' = "up" /\ ups' = ups \cup {ident.root}
      BY <1>5 DEF ComeUp, idVars
    <2>2. FileShaped' /\ PrekeyHeld'
      BY <2>1 DEF FileShaped, PrekeyHeld
    <2>3. OneRoot'
      <3>1. file.state = "ok" /\ file.root = ident.root
        BY <2>1 DEF TypeOK, Saved
      <3> QED
        BY <2>1, <3>1 DEF OneRoot
    <2>4. TypeOK'
      BY <2>1 DEF TypeOK, Saved, Mail, Versions
    <2> QED
      BY <2>2, <2>3, <2>4
  <1>6. CASE ServeOtpk \/ \E id \in DOMAIN otpks : SpendOtpk(id)
    <2>1. /\ UNCHANGED <<file, ident, ring, dek, gen, starts, damage, outbox, toTag, column, version, pc, ups>>
      BY <1>6 DEF ServeOtpk, SpendOtpk, idVars, history
    <2> QED
      BY <2>1 DEF FileShaped, PrekeyHeld, OneRoot, TypeOK, Saved
  <1>7. CASE Ends
    <2>1. /\ UNCHANGED <<file, ring, gen, starts, damage, outbox, column, version, ups>>
          /\ pc' = "down" /\ dek' = Missing /\ toTag' = {} /\ pc # "down"
      BY <1>7 DEF Ends
    <2>2. FileShaped' /\ PrekeyHeld' /\ OneRoot'
      BY <2>1 DEF FileShaped, PrekeyHeld, OneRoot
    <2>3. TypeOK'
      BY <1>t, <2>1 DEF TypeOK, Missing
    <2> QED
      BY <2>2, <2>3
  <1>8. CASE \E id \in DOMAIN outbox : RetagRow(id)
    <2>1. /\ UNCHANGED <<file, ident, ring, dek, gen, starts, damage, column, version, pc, ups>>
          /\ toTag' \subseteq toTag /\ DOMAIN outbox' = DOMAIN outbox
      BY <1>8 DEF RetagRow, idVars
    <2>2. FileShaped' /\ PrekeyHeld' /\ OneRoot'
      BY <2>1 DEF FileShaped, PrekeyHeld, OneRoot
    <2>3. TypeOK'
      BY <2>1 DEF TypeOK, Saved
    <2> QED
      BY <2>2, <2>3
  <1>9. CASE \E p \in Peers : QueueMail(p)
    <2>1. /\ UNCHANGED <<file, ident, ring, dek, gen, starts, damage, column, version, pc, ups, toTag>>
          /\ pc = "up"
      BY <1>9 DEF QueueMail, idVars, history
    <2>2. FileShaped' /\ PrekeyHeld' /\ OneRoot'
      BY <2>1 DEF FileShaped, PrekeyHeld, OneRoot
    <2>3. toTag = {}
      BY <2>1 DEF TypeOK
    <2>4. TypeOK'
      BY <2>1, <2>3 DEF TypeOK, Saved
    <2> QED
      BY <2>2, <2>4
  <1>10. CASE \E i \in 1 .. 3, bad \in {Missing, Garbage} : Damage(i, bad)
    <2>1. PICK i \in 1 .. 3, bad \in {Missing, Garbage} : Damage(i, bad)
      BY <1>10
    <2>2. /\ UNCHANGED <<pc, ident, ring, dek, gen, starts, column, version, ups, toTag, outbox>>
          /\ pc = "down" /\ damage' = damage + 1 /\ damage < MaxDamage
      BY <2>1 DEF Damage, dbVars, history
    <2>3. FileShaped' /\ file'.state = file.state /\ file'.root = file.root
      <3>1. PICK x, kem : file' = [file EXCEPT !.x = x] \/ file' = [file EXCEPT !.kem = kem]
        BY <2>1 DEF Damage
      <3>2. file = [state |-> file.state, root |-> file.root, x |-> file.x, kem |-> file.kem]
        BY DEF FileShaped
      <3>3. \/ file' = [state |-> file.state, root |-> file.root, x |-> x, kem |-> file.kem]
            \/ file' = [state |-> file.state, root |-> file.root, x |-> file.x, kem |-> kem]
        BY <3>1, <3>2
      <3> QED
        BY <3>3 DEF FileShaped
    <2>4. PrekeyHeld' /\ OneRoot'
      BY <2>2, <2>3 DEF PrekeyHeld, OneRoot
    <2>5. TypeOK'
      <3>1. damage + 1 \in 0 .. MaxDamage
        BY <1>t, <2>2, ProfileAssumption
      <3> QED
        BY <2>2, <2>3, <3>1 DEF TypeOK
    <2> QED
      BY <2>3, <2>4, <2>5
  <1>11. CASE UNCHANGED vars
    BY <1>11 DEF vars, idVars, dbVars, history, FileShaped, PrekeyHeld, OneRoot, TypeOK, Saved
  <1> QED
    BY <1>1, <1>2, <1>3, <1>4, <1>5, <1>6, <1>7, <1>8, <1>9, <1>10, <1>11 DEF Next

-----------------------------------------------------------------------------
(* The OTPK rows.  A refill appends and changes no row that is there.      *)
LEMMA RefillAppends ==
    ASSUME NEW rows \in Seq(OtpkRows), NEW unserved, dek \in Nat
    PROVE  LET r == Replenished(rows, unserved) IN
           r \in Seq(OtpkRows) /\ DOMAIN rows \subseteq DOMAIN r /\ \A id \in DOMAIN rows : r[id] = rows[id]
  <1>1. NewOtpk \in OtpkRows
    BY DEF NewOtpk, OtpkRows
  <1>2. Len(rows) \in Nat /\ DOMAIN rows = 1 .. Len(rows) /\ \A id \in 1 .. Len(rows) : rows[id] \in OtpkRows
    OBVIOUS
  <1> DEFINE w == With(rows, NewOtpk)
             n == NewOtpk
  <1>3. w = [id \in 1 .. Len(rows) + 1 |-> IF id <= Len(rows) THEN rows[id] ELSE n]
    BY DEF With
  <1>n. n \in OtpkRows
    BY <1>1
  <1> HIDE DEF n, w
  <1>4. \A id \in 1 .. Len(rows) + 1 : w[id] \in OtpkRows
    BY <1>2, <1>3, <1>n
  <1>5. w \in Seq(OtpkRows) /\ DOMAIN w = 1 .. Len(rows) + 1
    <2>1. w \in [1 .. Len(rows) + 1 -> OtpkRows] /\ Len(rows) + 1 \in Nat
      BY <1>2, <1>3, <1>4
    <2> QED
      BY <2>1, SeqDef
  <1>6. DOMAIN rows \subseteq DOMAIN w /\ \A id \in DOMAIN rows : w[id] = rows[id]
    BY <1>2, <1>3, <1>5
  <1> QED
    BY <1>5, <1>6 DEF Replenished, w, n

LEMMA PoolInit == Init => Pool
  <1> SUFFICES ASSUME Init PROVE Pool
    OBVIOUS
  <1>1. CASE Fresh
    BY <1>1 DEF Fresh, Init, Pool, OldMarked, OldNotServedAgain
  <1>2. CASE Legacy
    <2> DEFINE row == [served |-> FALSE, spent |-> TRUE, key |-> 1]
    <2>1. row \in OtpkRows /\ row.spent
      BY DEF OtpkRows
    <2>2. otpks = <<row>> /\ old = {1}
      BY <1>2 DEF Legacy
    <2> HIDE DEF row
    <2>3. otpks \in Seq(OtpkRows) /\ DOMAIN otpks = {1} /\ otpks[1] = row
      BY <2>1, <2>2
    <2> QED
      BY <2>1, <2>2, <2>3 DEF Init, Pool, OldMarked, OldNotServedAgain
  <1> QED
    BY <1>1, <1>2 DEF Init

(* Changing rows in place, a column at a time, keeps them rows.            *)
LEMMA RowsKept ==
    ASSUME NEW rows \in Seq(OtpkRows), NEW new, DOMAIN new = DOMAIN rows, new = [id \in DOMAIN rows |-> new[id]],
           \A id \in DOMAIN rows : new[id] \in OtpkRows
    PROVE  new \in Seq(OtpkRows)
  <1>1. Len(rows) \in Nat /\ DOMAIN rows = 1 .. Len(rows)
    OBVIOUS
  <1>2. new \in [1 .. Len(rows) -> OtpkRows]
    BY <1>1
  <1> QED
    BY <1>1, <1>2, SeqDef

LEMMA PoolStep == ASSUME IndInv, [Next]_vars PROVE Pool'
  <1>1. otpks \in Seq(OtpkRows) /\ OldMarked /\ OldNotServedAgain /\ dek \in Nat
    BY DEF IndInv, Pool, Identity, TypeOK
  <1>2. \A id \in DOMAIN otpks : otpks[id] \in OtpkRows
    BY <1>1
  <1>3. CASE LoadIdentity \/ SaveIdentity \/ LoadDek \/ CreateDek \/ EphemeralDek \/ AddServedAt \/ Ends
    <2>1. pc' \notin {"retag", "filled", "up"} /\ UNCHANGED <<otpks, old, issued>>
      BY <1>3 DEF LoadIdentity, SaveIdentity, LoadDek, CreateDek, EphemeralDek, AddServedAt, Ends, dbVars, history
    <2> QED
      BY <1>1, <2>1 DEF Pool, OldMarked, OldNotServedAgain
  <1>4. CASE BackfillServedAt
    <2>1. otpks' = [id \in DOMAIN otpks |-> Backfilled(otpks[id])] /\ UNCHANGED <<old, issued>>
      BY <1>4 DEF BackfillServedAt, history
    <2>2. \A row \in OtpkRows : /\ Backfilled(row) \in OtpkRows /\ Backfilled(row).spent = row.spent
                                /\ row.spent => Backfilled(row).served
      BY DEF Backfilled, OtpkRows
    <2>3. otpks' \in Seq(OtpkRows)
      BY <1>1, <1>2, <2>1, <2>2, RowsKept
    <2>4. OldMarked'
      BY <1>1, <1>2, <2>1, <2>2 DEF OldMarked
    <2> QED
      BY <1>1, <2>1, <2>3, <2>4 DEF Pool, OldNotServedAgain
  <1>5. CASE FinishRetag \/ (\E id \in DOMAIN outbox : RetagRow(id)) \/ (\E p \in Peers : QueueMail(p))
    <2>1. UNCHANGED <<otpks, old, issued>> /\ pc \in {"retag", "filled", "up"}
      BY <1>5 DEF FinishRetag, RetagRow, QueueMail, history
    <2> QED
      BY <1>1, <2>1 DEF Pool, OldMarked, OldNotServedAgain
  <1>6. CASE ComeUp
    <2>1. otpks' = Replenished(otpks, Unserved) /\ UNCHANGED <<old, issued>> /\ pc = "filled"
      BY <1>6 DEF ComeUp
    <2>2. otpks' \in Seq(OtpkRows) /\ DOMAIN otpks \subseteq DOMAIN otpks'
          /\ \A id \in DOMAIN otpks : otpks'[id] = otpks[id]
      BY <1>1, <2>1, RefillAppends
    <2> QED
      BY <1>1, <2>1, <2>2 DEF Pool, OldMarked, OldNotServedAgain
  <1>7. CASE ServeOtpk
    <2> DEFINE id == CHOOSE k \in Unserved : \A j \in Unserved : k <= j
               served == [otpks EXCEPT ![id].served = TRUE]
    <2>1. /\ pc = "up" /\ pc' = pc /\ Unserved # {} /\ old' = old /\ issued' = issued \cup {id}
          /\ otpks' = Replenished(served, Unserved \ {id})
      BY <1>7 DEF ServeOtpk
    <2>2. id \in Unserved
      <3>1. Unserved \in SUBSET Nat
        BY <1>1 DEF Unserved
      <3> HIDE DEF Unserved
      <3> QED
        BY <2>1, <3>1, Smallest, Zenon
    <2> HIDE DEF id
    <2>3. id \in DOMAIN otpks /\ id \notin old
      BY <1>1, <2>1, <2>2 DEF Unserved, OldMarked
    <2>4. /\ DOMAIN served = DOMAIN otpks /\ served = [k \in DOMAIN otpks |-> served[k]]
          /\ \A k \in DOMAIN otpks : k # id => served[k] = otpks[k]
          /\ served[id] = [otpks[id] EXCEPT !.served = TRUE]
      BY <2>3
    <2>5. served[id] \in OtpkRows
      BY <1>2, <2>3, <2>4 DEF OtpkRows
    <2> HIDE DEF served
    <2>6. served \in Seq(OtpkRows)
      BY <1>1, <1>2, <2>4, <2>5, RowsKept
    <2>7. otpks' \in Seq(OtpkRows) /\ DOMAIN served \subseteq DOMAIN otpks'
          /\ \A k \in DOMAIN served : otpks'[k] = served[k]
      BY <1>1, <2>1, <2>6, RefillAppends
    <2>8. OldMarked'
      BY <1>1, <2>1, <2>3, <2>4, <2>7 DEF OldMarked
    <2>9. OldNotServedAgain'
      BY <1>1, <2>1, <2>3 DEF OldNotServedAgain
    <2> QED
      BY <2>7, <2>8, <2>9 DEF Pool
  <1>8. ASSUME NEW id \in DOMAIN otpks, SpendOtpk(id) PROVE Pool'
    <2>1. otpks' = [otpks EXCEPT ![id].spent = TRUE] /\ UNCHANGED <<old, issued, pc>>
      BY <1>8 DEF SpendOtpk, history
    <2>2. /\ DOMAIN otpks' = DOMAIN otpks /\ otpks' = [k \in DOMAIN otpks |-> otpks'[k]]
          /\ \A k \in DOMAIN otpks : k # id => otpks'[k] = otpks[k]
          /\ otpks'[id] = [otpks[id] EXCEPT !.spent = TRUE]
      BY <2>1
    <2>3. otpks'[id] \in OtpkRows /\ otpks'[id].spent /\ otpks'[id].served = otpks[id].served
      BY <1>2, <2>2 DEF OtpkRows
    <2>4. otpks' \in Seq(OtpkRows)
      BY <1>1, <1>2, <2>2, <2>3, RowsKept
    <2>5. OldMarked'
      BY <1>1, <2>1, <2>2, <2>3 DEF OldMarked
    <2> QED
      BY <1>1, <2>1, <2>4, <2>5 DEF Pool, OldNotServedAgain
  <1>9. CASE \E i \in 1 .. 3, bad \in {Missing, Garbage} : Damage(i, bad)
    <2>1. UNCHANGED <<otpks, old, issued, pc>>
      BY <1>9 DEF Damage, dbVars, history
    <2> QED
      BY <1>1, <2>1 DEF Pool, OldMarked, OldNotServedAgain
  <1>10. CASE UNCHANGED vars
    BY <1>1, <1>10 DEF vars, dbVars, history, Pool, OldMarked, OldNotServedAgain
  <1> QED
    BY <1>3, <1>4, <1>5, <1>6, <1>7, <1>8, <1>9, <1>10 DEF Next

-----------------------------------------------------------------------------
(* The outbox.                                                             *)
LEMMA TagTyped ==
    ASSUME NEW k \in Nat, NEW b \in Seq(Nat \cup Peers)
    PROVE  OutboxPeerTag(k, b) \in Seq(Nat \cup Peers)
  <1> DEFINE S == Nat \cup Peers
             a == <<k>>
  <1>1. a \in Seq(S) /\ b \in Seq(S)
    OBVIOUS
  <1>2. OutboxPeerTag(k, b) = a \o b
    BY DEF OutboxPeerTag
  <1> HIDE DEF a, S
  <1>3. a \o b \in Seq(S)
    BY <1>1, ConcatProperties
  <1> QED
    BY <1>2, <1>3 DEF S

LEMMA RawTyped == ASSUME NEW p \in Peers PROVE Raw(p) \in Seq(Nat \cup Peers)
  BY DEF Raw

LEMMA MailInit == Init => Mail
  <1> SUFFICES ASSUME Init PROVE Mail
    OBVIOUS
  <1>v. version = 0 /\ pc = "down" /\ mishap = FALSE
    BY DEF Init
  <1>1. CASE Fresh
    <2>1. outbox = << >>
      BY <1>1 DEF Fresh
    <2>2. outbox \in Seq(MailRows) /\ DOMAIN outbox = {}
      BY <2>1
    <2> QED
      BY <1>v, <2>2 DEF Mail, Versions, KeysKept, Migrated
  <1>2. CASE Legacy
    <2>1. PICK mail \in [1 .. Cardinality(Peers) -> Peers] :
              outbox = [i \in DOMAIN mail |-> [peer |-> mail[i], tag |-> Raw(mail[i]), key |-> 1]]
      BY <1>2 DEF Legacy
    <2>2. ASSUME NEW i \in 1 .. Cardinality(Peers)
          PROVE  outbox[i] \in MailRows /\ outbox[i].key = 1 /\ RawRow(outbox[i])
      <3> DEFINE q == mail[i]
                 b == Raw(q)
      <3>1. q \in Peers /\ b \in Seq(Nat \cup Peers)
        BY <2>1, RawTyped
      <3>2. outbox[i] = [peer |-> q, tag |-> b, key |-> 1]
        BY <2>1
      <3>b. b = Raw(q)
        OBVIOUS
      <3> HIDE DEF q, b
      <3> QED
        BY <3>1, <3>2, <3>b DEF MailRows, RawRow
    <2>3. DOMAIN outbox = 1 .. Cardinality(Peers) /\ outbox = [i \in 1 .. Cardinality(Peers) |-> outbox[i]]
      BY <2>1
    <2>4. outbox \in Seq(MailRows)
      <3>1. outbox \in [1 .. Cardinality(Peers) -> MailRows]
        BY <2>2, <2>3
      <3> QED
        BY <3>1, PeersFinite, SeqDef
    <2>5. ring = 1
      BY <1>2 DEF Legacy
    <2>6. KeysKept
      BY <2>2, <2>3, <2>5 DEF KeysKept, Missing
    <2>7. Migrated
      BY <1>v, <2>2, <2>3 DEF Migrated
    <2>8. Versions
      BY <1>v DEF Versions
    <2> QED
      BY <1>v, <2>4, <2>6, <2>7, <2>8 DEF Mail
  <1> QED
    BY <1>1, <1>2 DEF Init

LEMMA MailStep == ASSUME IndInv, [Next]_vars PROVE Mail'
  <1>1. outbox \in Seq(MailRows) /\ Versions /\ KeysKept /\ Migrated /\ mishap \in BOOLEAN
    BY DEF IndInv, Mail
  <1>2. \A id \in DOMAIN outbox : outbox[id] \in MailRows
    BY <1>1
  <1>3. dek \in Nat /\ toTag \subseteq DOMAIN outbox
    BY DEF IndInv, Identity, TypeOK
  <1>4. CASE LoadIdentity \/ SaveIdentity \/ LoadDek \/ EphemeralDek \/ AddServedAt
    <2>1. /\ UNCHANGED <<outbox, version, ring, mishap>>
          /\ pc \notin {"retag", "filled", "up"} /\ pc' \notin {"retag", "filled", "up"}
      BY <1>4 DEF LoadIdentity, SaveIdentity, LoadDek, EphemeralDek, AddServedAt, dbVars, history
    <2> QED
      BY <1>1, <2>1 DEF Mail, Versions, KeysKept, Migrated
  <1>5. CASE CreateDek
    <2>1. /\ UNCHANGED <<outbox, version, mishap>> /\ pc = "named" /\ pc' = "keyed" /\ ring = Missing
      BY <1>5 DEF CreateDek, dbVars, history
    <2> QED
      BY <1>1, <2>1 DEF Mail, Versions, KeysKept, Migrated
  <1>6. CASE BackfillServedAt
    <2>1. UNCHANGED <<outbox, version, ring, mishap>> /\ pc = "altered"
      BY <1>6 DEF BackfillServedAt, history
    <2>2. \/ version = 0 /\ pc' = "retag" /\ toTag' = DOMAIN outbox
          \/ version = 1 /\ pc' = "filled"
      BY <1>1, <1>6 DEF BackfillServedAt, NeedsRetag, Versions
    <2> QED
      BY <1>1, <2>1, <2>2 DEF Mail, Versions, KeysKept, Migrated
  <1>7. ASSUME NEW id \in DOMAIN outbox, RetagRow(id) PROVE Mail'
    <2> DEFINE row == outbox[id]
               tag == OutboxPeerTag(dek, row.tag)
    <2>1. /\ pc = "retag" /\ id \in toTag /\ toTag' = toTag \ {id} /\ mishap' = (mishap \/ dek # ring)
          /\ outbox' = [outbox EXCEPT ![id].tag = tag] /\ UNCHANGED <<pc, ring, version>>
      BY <1>7 DEF RetagRow
    <2>2. row \in MailRows /\ row.tag \in Seq(Nat \cup Peers)
      BY <1>2 DEF MailRows
    <2>3. tag \in Seq(Nat \cup Peers)
      BY <1>3, <2>2, TagTyped
    <2>4. /\ DOMAIN outbox' = DOMAIN outbox /\ outbox' = [k \in DOMAIN outbox |-> outbox'[k]]
          /\ \A k \in DOMAIN outbox : k # id => outbox'[k] = outbox[k]
          /\ outbox'[id] = [row EXCEPT !.tag = tag]
      BY <2>1
    <2>5. ~mishap' => row.key = dek /\ row.tag = Raw(row.peer)
      BY <1>1, <2>1 DEF KeysKept, Migrated, Versions, RawRow
    <2>6. tag = OutboxPeerTag(dek, row.tag)
      OBVIOUS
    <2> HIDE DEF tag, row
    <2>7. outbox'[id] \in MailRows /\ outbox'[id].tag = tag /\ outbox'[id].key = row.key
          /\ outbox'[id].peer = row.peer
      BY <2>2, <2>3, <2>4 DEF MailRows
    <2>8. outbox' \in Seq(MailRows)
      <3>1. \A k \in DOMAIN outbox : outbox'[k] \in MailRows
        BY <1>2, <2>4, <2>7
      <3>2. Len(outbox) \in Nat /\ DOMAIN outbox = 1 .. Len(outbox)
        BY <1>1
      <3>3. outbox' \in [1 .. Len(outbox) -> MailRows]
        BY <2>4, <3>1, <3>2
      <3> QED
        BY <3>2, <3>3, SeqDef
    <2>9. ~mishap' => Findable(outbox'[id])
      BY <2>5, <2>6, <2>7 DEF Findable
    <2>10. Migrated'
      BY <1>1, <2>1, <2>4, <2>9 DEF Migrated, Versions
    <2>11. KeysKept'
      BY <1>1, <2>1, <2>4, <2>7 DEF KeysKept, row
    <2>12. mishap' \in BOOLEAN
      BY <2>1
    <2> QED
      BY <1>1, <2>1, <2>8, <2>10, <2>11, <2>12 DEF Mail, Versions
  <1>8. CASE FinishRetag
    <2>1. /\ UNCHANGED <<outbox, ring, mishap>> /\ pc = "retag" /\ pc' = "filled" /\ toTag = {}
          /\ version' = 1
      BY <1>8 DEF FinishRetag, history, NewVersion
    <2> QED
      BY <1>1, <2>1 DEF Mail, Versions, KeysKept, Migrated
  <1>9. CASE ComeUp
    <2>1. UNCHANGED <<outbox, version, ring, mishap>> /\ pc = "filled" /\ pc' = "up"
      BY <1>9 DEF ComeUp
    <2> QED
      BY <1>1, <2>1 DEF Mail, Versions, KeysKept, Migrated
  <1>10. ASSUME NEW p \in Peers, QueueMail(p) PROVE Mail'
    <2> DEFINE tag == OutboxPeerTag(dek, Raw(p))
               row == [peer |-> p, tag |-> tag, key |-> dek]
    <2>1. outbox' = Append(outbox, row) /\ pc = "up" /\ UNCHANGED <<pc, version, ring, mishap>>
      BY <1>10 DEF QueueMail, history
    <2>2. tag \in Seq(Nat \cup Peers) /\ tag = OutboxPeerTag(dek, Raw(p))
      BY <1>3, RawTyped, TagTyped
    <2> HIDE DEF tag
    <2>3. row \in MailRows /\ Findable(row)
      BY <1>3, <2>2 DEF MailRows, Findable
    <2> HIDE DEF row
    <2>4. /\ outbox' \in Seq(MailRows) /\ DOMAIN outbox' = DOMAIN outbox \cup {Len(outbox) + 1}
          /\ \A k \in DOMAIN outbox' : outbox'[k] = row \/ (k \in DOMAIN outbox /\ outbox'[k] = outbox[k])
      BY <1>1, <2>1, <2>3
    <2>5. version = 1
      BY <1>1, <2>1 DEF Versions
    <2>6. Migrated'
      BY <1>1, <2>1, <2>3, <2>4, <2>5 DEF Migrated
    <2> QED
      BY <1>1, <2>1, <2>4, <2>5, <2>6 DEF Mail, Versions, KeysKept
  <1>11. CASE ServeOtpk \/ \E id \in DOMAIN otpks : SpendOtpk(id)
    <2>1. UNCHANGED <<pc, outbox, toTag, version, ring, mishap>>
      BY <1>11 DEF ServeOtpk, SpendOtpk, history
    <2> QED
      BY <1>1, <2>1 DEF Mail, Versions, KeysKept, Migrated
  <1>12. CASE Ends
    <2>1. /\ UNCHANGED <<outbox, version, ring>> /\ pc' = "down"
          /\ mishap' = (mishap \/ (pc = "retag" /\ toTag # DOMAIN outbox))
      BY <1>12 DEF Ends
    <2>2. mishap' \in BOOLEAN
      BY <2>1
    <2>3. ~mishap' /\ version = 0 => \A id \in DOMAIN outbox : RawRow(outbox[id])
      BY <1>1, <2>1 DEF Migrated
    <2> QED
      BY <1>1, <2>1, <2>2, <2>3 DEF Mail, Versions, KeysKept, Migrated
  <1>13. CASE \E i \in 1 .. 3, bad \in {Missing, Garbage} : Damage(i, bad)
    <2>1. UNCHANGED <<pc, outbox, toTag, version, ring, mishap>>
      BY <1>13 DEF Damage, dbVars, history
    <2> QED
      BY <1>1, <2>1 DEF Mail, Versions, KeysKept, Migrated
  <1>14. CASE UNCHANGED vars
    <2>1. UNCHANGED <<pc, outbox, toTag, version, ring, mishap>>
      BY <1>14 DEF vars, dbVars, history
    <2> QED
      BY <1>1, <2>1 DEF Mail, Versions, KeysKept, Migrated
  <1> QED
    BY <1>4, <1>5, <1>6, <1>7, <1>8, <1>9, <1>10, <1>11, <1>12, <1>13, <1>14 DEF Next

-----------------------------------------------------------------------------
(* No write of a start, no crash between two of them and no damaged field  *)
(* of identity.json breaks the invariant.                                  *)
THEOREM Invariance == Spec => []IndInv
  <1>1. Init => IndInv
    BY IdentityInit, PoolInit, MailInit DEF IndInv
  <1>2. IndInv /\ [Next]_vars => IndInv'
    BY IdentityStep, PoolStep, MailStep DEF IndInv
  <1> QED
    BY <1>1, <1>2, PTL DEF Spec

(* load_or_create and save: a start that gets through publishes an X25519  *)
(* prekey it holds the private half of and will find again.                *)
THEOREM PublishedPrekeyUsable == Spec => []PrekeysSound
  <1>1. IndInv => PrekeysSound
    <2> SUFFICES ASSUME IndInv PROVE PrekeysSound
      OBVIOUS
    <2>1. TypeOK /\ PrekeyHeld
      BY DEF IndInv, Identity
    <2>2. PrekeyUsable
      BY <2>1 DEF TypeOK, PrekeyHeld, PrekeyUsable, Saved, KeepsX
    <2> QED
      BY <2>1, <2>2 DEF PrekeysSound
  <1> QED
    BY Invariance, <1>1, PTL

(* load_or_create and save: however starts are cut short, a profile has    *)
(* one PeerId for good.                                                    *)
THEOREM PeerIdForGood == Spec => []OneIdentity
  <1>1. IndInv => OneIdentity
    <2> SUFFICES ASSUME IndInv PROVE OneIdentity
      OBVIOUS
    <2>1. \A u, v \in ups : u = v
      BY DEF IndInv, Identity, OneRoot
    <2>2. CASE ups = {}
      BY <2>2, FS_EmptySet DEF OneIdentity
    <2>3. CASE ups # {}
      <3>1. PICK u \in ups : TRUE
        BY <2>3
      <3>2. ups = {u}
        BY <2>1, <3>1
      <3>3. Cardinality({u}) = 1
        BY FS_Singleton
      <3> QED
        BY <3>2, <3>3 DEF OneIdentity
    <2> QED
      BY <2>2, <2>3
  <1> QED
    BY Invariance, <1>1, PTL

(* MessageStore::open: no crash between the statements of the migrations   *)
(* hands an old OTPK out again, and none of the F12 one's makes mail       *)
(* unfindable if it was neither cut short nor run on a stand-in key.       *)
THEOREM MigrationsKeepData == Spec => []MigrationsSound
  <1>1. IndInv => MigrationsSound
    BY DEF IndInv, Pool, Mail, Migrated, Versions, MigrationsSound, QueuedFindable
  <1> QED
    BY Invariance, <1>1, PTL
=============================================================================
