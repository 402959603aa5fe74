----------------------------- MODULE OtpkProofs -----------------------------
(***************************************************************************)
(* Proofs about OtpkPool, for any set of peers, any target, any cooldown,  *)
(* with and without store failures.                                        *)
(***************************************************************************)
EXTENDS OtpkPool, FiniteSetTheorems, TLAPS

(* What pop_unused_otpk leaves behind: a key that was sent is not fresh,   *)
(* and its id lies below the AUTOINCREMENT counter.                        *)
IssuedMarked ==
    \A a \in issued : a.id \notin fresh /\ a.id < nextId /\ a.at <= clock /\ a.run <= run

(* Why the gate's map may be pruned: for a response of this run, either    *)
(* the map remembers a response at least as late, or the cooldown is over. *)
GateRemembers ==
    \A a \in issued : a.run = run =>
        \/ a.peer \in DOMAIN recent /\ recent[a.peer] >= a.at
        \/ a.at + Cooldown <= clock

(* A session was set up with a key its peer was given.                     *)
DerivedFromIssued ==
    \A d \in derived : \E a \in issued : a.id = d.id /\ a.peer = d.peer

(* Why a first message cannot be used again: its key does not load, or its *)
(* peer's session is on disk.                                              *)
DerivedClosed ==
    \A d \in derived : d.id \notin fresh \cup served \/ d.peer \in disk

IndInv ==
    /\ TypeOK /\ ServedOnce /\ RateLimited /\ KeyDerivesOnce
    /\ IssuedMarked /\ GateRemembers /\ DerivedFromIssued /\ DerivedClosed

-----------------------------------------------------------------------------
(* replenish_otpk_pool only adds rows whose ids were never used, so the    *)
(* table keeps its shape when f of the fresh rows stay and the others are  *)
(* marked served, and no used id becomes fresh.                            *)
LEMMA RowsMove ==
    ASSUME RowsOK, NEW f \in SUBSET fresh, Replenish(f),
           served' = served \cup (fresh \ f), spent' = spent
    PROVE  /\ RowsOK' /\ nextId' >= nextId
           /\ \A id \in Nat : id < nextId /\ id \notin f => id \notin fresh'
  <1>1. PICK made \in Nat : /\ fresh' = f \cup (nextId .. nextId + made - 1)
                            /\ nextId' = nextId + made
    BY PoolAssumption DEF Replenish, NewRows
  <1>2. nextId \in Nat \ {0} /\ \A j \in fresh \cup served \cup spent : j \in Nat /\ j < nextId
    BY DEF RowsOK
  <1>3. nextId' \in Nat \ {0} /\ nextId' >= nextId
    BY <1>1, <1>2
  <1>4. \A j \in fresh' : j \in Nat /\ j < nextId' /\ (j \in f \/ j >= nextId)
    BY <1>1, <1>2
  <1>5. \A j \in fresh \cup served \cup spent : j \in Nat /\ j < nextId'
    BY <1>2, <1>3
  <1>6. served' \subseteq Nat /\ spent' \subseteq Nat /\ fresh' \subseteq Nat
    BY <1>4, <1>5
  <1>7. \A j \in fresh' \cup served' \cup spent' : j < nextId'
    BY <1>4, <1>5
  <1>8. \A j \in fresh' : j \notin served' /\ j \notin spent'
    <2> SUFFICES ASSUME NEW j \in fresh' PROVE j \notin served' /\ j \notin spent'
      OBVIOUS
    <2>1. CASE j \in f
      BY <2>1 DEF RowsOK
    <2>2. CASE j >= nextId
      BY <2>2, <1>2, <1>4
    <2> QED
      BY <1>4, <2>1, <2>2
  <1>9. \A j \in served' : j \notin spent'
    BY DEF RowsOK
  <1>10. RowsOK'
    BY <1>3, <1>6, <1>7, <1>8, <1>9 DEF RowsOK
  <1> QED
    BY <1>2, <1>3, <1>4, <1>10

(* The same step keeps every conjunct of IndInv that speaks of rows, as    *)
(* long as issued, derived and disk stay.                                  *)
LEMMA RowsMoveKeepsHistory ==
    ASSUME IndInv, NEW f \in SUBSET fresh, Replenish(f),
           served' = served \cup (fresh \ f), spent' = spent,
           issued' = issued, derived' = derived, clock' = clock,
           run' \in Nat, run' >= run, disk \subseteq disk'
    PROVE  RowsOK' /\ IssuedMarked' /\ DerivedFromIssued' /\ DerivedClosed'
  <1> USE DEF IndInv
  <1>1. /\ RowsOK' /\ nextId' >= nextId
        /\ \A id \in Nat : id < nextId /\ id \notin f => id \notin fresh'
    BY RowsMove DEF TypeOK
  <1>2. nextId \in Nat /\ nextId' \in Nat /\ run \in Nat
    BY <1>1 DEF TypeOK, RowsOK
  <1>3. \A a \in issued : a.id \in Nat /\ a.run \in Nat
    BY DEF TypeOK, Responses
  <1>4. \A a \in issued : a.id \notin fresh' /\ a.id < nextId' /\ a.run <= run'
    BY <1>1, <1>2, <1>3 DEF IssuedMarked
  <1>5. IssuedMarked'
    BY <1>4 DEF IssuedMarked
  <1>6. \A d \in derived : d.id \notin fresh /\ d.id \notin fresh'
    BY <1>4 DEF DerivedFromIssued, IssuedMarked
  <1>7. DerivedClosed'
    BY <1>6 DEF DerivedClosed
  <1> QED
    BY <1>1, <1>5, <1>7 DEF DerivedFromIssued

(* The first start, with an empty table, establishes the invariant.        *)
LEMMA InitHolds == Init => IndInv
  <1> SUFFICES ASSUME Init PROVE IndInv
    OBVIOUS
  <1>1. RowsOK
    BY PoolAssumption DEF Init, RowsOK
  <1>2. TypeOK
    BY <1>1, PoolAssumption DEF Init, TypeOK
  <1> QED
    BY <1>2 DEF Init, IndInv, ServedOnce, RateLimited, KeyDerivesOnce,
       IssuedMarked, GateRemembers, DerivedFromIssued, DerivedClosed

-----------------------------------------------------------------------------
(* A request that is granted and finds a key.                              *)
LEMMA PopAndServePreserves ==
    ASSUME IndInv, NEW p \in Peers, GateAllows(p), recent' = GateUpdated(p),
           PopAndServe(p), UNCHANGED <<spent, live, disk, clock, run, derived>>
    PROVE  IndInv'
  <1> USE PoolAssumption DEF IndInv
  <1>1. PICK id \in fresh : /\ served' = served \cup {id}
                            /\ issued' = issued \cup {Response(id, p)}
                            /\ Replenish(fresh \ {id})
    BY DEF PopAndServe
  <1>2. /\ RowsOK' /\ nextId' >= nextId
        /\ \A j \in Nat : j < nextId /\ j \notin fresh \ {id} => j \notin fresh'
    <2>1. served' = served \cup (fresh \ (fresh \ {id}))
      BY <1>1
    <2> QED
      BY <1>1, <2>1, RowsMove DEF TypeOK
  <1>3. id \in Nat /\ id < nextId /\ nextId \in Nat /\ nextId' \in Nat
    BY <1>1, <1>2 DEF TypeOK, RowsOK
  <1>4. id \notin fresh' /\ id < nextId'
    BY <1>2, <1>3
  <1>5. \A a \in issued : /\ a \in Responses /\ a.id \in Nat /\ a.at \in Nat /\ a.run \in Nat
                          /\ a.id # id /\ a.id < nextId /\ a.id \notin fresh
    BY <1>1 DEF TypeOK, IssuedMarked, Responses
  <1>6. \A a \in issued : a.id \notin fresh' /\ a.id < nextId'
    BY <1>2, <1>3, <1>5
  <1>7. TypeOK'
    <2>1. DOMAIN recent' \subseteq Peers /\ \A q \in DOMAIN recent' : recent'[q] \in Nat
      BY DEF TypeOK, GateUpdated
    <2>2. Response(id, p) \in Responses
      BY <1>3 DEF TypeOK, Response, Responses
    <2> QED
      BY <1>1, <1>2, <1>5, <2>1, <2>2 DEF TypeOK
  <1>8. ServedOnce'
    BY <1>1, <1>5 DEF ServedOnce, Response
  <1>9. \A a \in issued : a.peer = p /\ a.run = run => a.at + Cooldown <= clock
    BY <1>5 DEF TypeOK, GateRemembers, GateAllows
  <1>10. RateLimited'
    BY <1>1, <1>9 DEF RateLimited, Response
  <1>11. IssuedMarked'
    BY <1>1, <1>4, <1>6 DEF TypeOK, IssuedMarked, Response
  <1>12. GateRemembers'
    <2>1. p \in DOMAIN recent' /\ recent'[p] = clock
      BY DEF GateUpdated
    <2>2. \A q \in DOMAIN recent : q # p => q \in DOMAIN recent' /\ recent'[q] = recent[q]
      BY DEF GateUpdated
    <2>3. \A a \in issued : a.at <= clock
      BY DEF IssuedMarked
    <2>4. clock \in Nat
      BY DEF TypeOK
    <2> QED
      BY <1>1, <1>5, <2>1, <2>2, <2>3, <2>4 DEF GateRemembers, Response
  <1>13. DerivedFromIssued'
    BY <1>1 DEF DerivedFromIssued
  <1>14. DerivedClosed'
    <2>1. \A d \in derived : d.id # id /\ d.id \notin fresh'
      BY <1>5, <1>6 DEF DerivedFromIssued
    <2> QED
      BY <1>1, <2>1 DEF DerivedClosed
  <1> QED
    BY <1>7, <1>8, <1>10, <1>11, <1>12, <1>13, <1>14 DEF KeyDerivesOnce

(* A request that is granted and finds no key: the gate closes all the     *)
(* same.                                                                   *)
LEMMA PopNothingPreserves ==
    ASSUME IndInv, NEW p \in Peers, recent' = GateUpdated(p), PopNothing,
           UNCHANGED <<spent, live, disk, clock, run, derived>>
    PROVE  IndInv'
  <1> USE DEF IndInv
  <1>1. RowsOK' /\ IssuedMarked' /\ DerivedFromIssued' /\ DerivedClosed'
    <2>1. served' = served \cup (fresh \ fresh) /\ Replenish(fresh) /\ issued' = issued
      BY DEF PopNothing
    <2>2. run' \in Nat /\ run' >= run
      BY DEF TypeOK
    <2> QED
      BY <2>1, <2>2, RowsMoveKeepsHistory
  <1>2. DOMAIN recent' \subseteq Peers /\ \A q \in DOMAIN recent' : recent'[q] \in Nat
    BY DEF TypeOK, GateUpdated
  <1>3. TypeOK'
    BY <1>1, <1>2 DEF TypeOK, PopNothing
  <1>4. GateRemembers'
    <2>1. p \in DOMAIN recent' /\ recent'[p] = clock
      BY DEF GateUpdated
    <2>2. \A q \in DOMAIN recent : q # p => q \in DOMAIN recent' /\ recent'[q] = recent[q]
      BY DEF GateUpdated
    <2>3. \A a \in issued : a.at <= clock /\ a.at \in Nat
      BY DEF IssuedMarked, TypeOK, Responses
    <2>4. clock \in Nat
      BY DEF TypeOK
    <2> QED
      BY <2>1, <2>2, <2>3, <2>4 DEF GateRemembers, PopNothing
  <1> QED
    BY <1>1, <1>3, <1>4 DEF ServedOnce, RateLimited, KeyDerivesOnce, PopNothing

(* prune_recent_otpk_fetches forgets only entries whose cooldown is over.  *)
LEMMA PrunePreserves == ASSUME IndInv, Prune PROVE IndInv'
  <1> USE PoolAssumption DEF IndInv
  <1>1. \A q \in DOMAIN recent' : q \in DOMAIN recent /\ recent'[q] = recent[q]
    BY DEF Prune
  <1>2. \A q \in DOMAIN recent : q \in DOMAIN recent' \/ recent[q] < clock - Cooldown
    BY DEF Prune, TypeOK
  <1>3. TypeOK'
    <2>1. RowsOK'
      BY DEF TypeOK, RowsOK, Prune, rows
    <2> QED
      BY <1>1, <2>1 DEF TypeOK, Prune, rows
  <1>4. GateRemembers'
    <2>1. clock \in Nat /\ \A q \in DOMAIN recent : recent[q] \in Nat
      BY DEF TypeOK
    <2>2. \A a \in issued : a.at \in Nat
      BY DEF TypeOK, Responses
    <2> QED
      BY <1>1, <1>2, <2>1, <2>2 DEF GateRemembers, Prune
  <1> QED
    BY <1>3, <1>4 DEF Prune, rows, ServedOnce, RateLimited, KeyDerivesOnce,
       IssuedMarked, DerivedFromIssued, DerivedClosed

(* Time only moves on, so a cooldown that is over stays over.              *)
LEMMA TickPreserves == ASSUME IndInv, Tick PROVE IndInv'
  <1> USE PoolAssumption DEF IndInv
  <1>1. clock \in Nat /\ clock' = clock + 1 /\ clock' \in 0 .. MaxClock
    BY DEF Tick, TypeOK
  <1>2. TypeOK'
    <2>1. RowsOK'
      BY DEF TypeOK, RowsOK, Tick, rows
    <2> QED
      BY <1>1, <2>1 DEF TypeOK, Tick, rows
  <1>3. \A a \in issued : a.at \in Nat
    BY DEF TypeOK, Responses
  <1>4. GateRemembers' /\ IssuedMarked'
    BY <1>1, <1>3 DEF GateRemembers, IssuedMarked, Tick, rows
  <1> QED
    BY <1>2, <1>4 DEF Tick, rows, ServedOnce, RateLimited, KeyDerivesOnce,
       DerivedFromIssued, DerivedClosed

(* A start: the map is empty, but no response of the new run exists yet.   *)
LEMMA StartPreserves ==
    ASSUME IndInv, Started, NEW f \in SUBSET fresh, Replenish(f),
           served' = served \cup (fresh \ f)
    PROVE  IndInv'
  <1> USE PoolAssumption DEF IndInv
  <1>1. run \in Nat /\ run' = run + 1 /\ run' \in 1 .. MaxRuns
    BY DEF Started, TypeOK
  <1>2. RowsOK' /\ IssuedMarked' /\ DerivedFromIssued' /\ DerivedClosed'
    BY <1>1, RowsMoveKeepsHistory DEF Started
  <1>3. DOMAIN recent' = {}
    BY DEF Started
  <1>4. TypeOK'
    BY <1>1, <1>2, <1>3 DEF TypeOK, Started
  <1>5. GateRemembers'
    BY <1>1 DEF GateRemembers, IssuedMarked, Started, TypeOK, Responses
  <1> QED
    BY <1>2, <1>4, <1>5 DEF Started, ServedOnce, RateLimited, KeyDerivesOnce

(* The key that a first message uses has set up no session before.         *)
LEMMA FirstUse ==
    ASSUME IndInv, NEW a \in issued, a.peer \notin live \cup disk, Loads(a.id)
    PROVE  \A d \in derived : d.id # a.id
  <1> SUFFICES ASSUME NEW d \in derived, d.id = a.id PROVE FALSE
    OBVIOUS
  <1>1. PICK b \in issued : b.id = d.id /\ b.peer = d.peer
    BY DEF IndInv, DerivedFromIssued
  <1>2. b = a
    BY <1>1 DEF IndInv, ServedOnce
  <1> QED
    BY <1>1, <1>2 DEF IndInv, DerivedClosed, Loads

(* A first message sets up its session and closes its key, whichever two   *)
(* of its three writes fail.                                               *)
LEMMA FirstMessagePreserves ==
    ASSUME IndInv, NEW a \in issued,
           NEW persisted \in BOOLEAN, NEW marked \in BOOLEAN, NEW deleted \in BOOLEAN,
           FirstMessage(a, persisted, marked, deleted)
    PROVE  IndInv'
  <1> USE DEF IndInv
  <1> DEFINE d == [id |-> a.id, peer |-> a.peer, run |-> run]
  <1>1. /\ derived' = derived \cup {d} /\ issued' = issued
        /\ live' = live \cup {a.peer}
        /\ disk \subseteq disk' /\ disk' \subseteq disk \cup {a.peer}
        /\ UNCHANGED <<recent, clock, run, nextId>>
        /\ a.peer \notin live \cup disk /\ Loads(a.id)
    BY DEF FirstMessage, Retire
  <1>2. a.id \in Nat /\ a.peer \in Peers /\ a.id \notin fresh /\ a.id \in served
    BY <1>1 DEF TypeOK, Responses, IssuedMarked, Loads
  <1>3. fresh' \subseteq fresh /\ served' \subseteq served
    BY DEF FirstMessage, Retire
  <1>4. RowsOK'
    <2>1. spent' \subseteq spent \cup {a.id} /\ (a.id \in spent' => a.id \notin served' \/ a.id \in spent)
      BY DEF FirstMessage, Retire
    <2> QED
      BY <1>1, <1>2, <1>3, <2>1 DEF TypeOK, RowsOK
  <1>5. TypeOK'
    <2>1. d \in Derivations
      BY <1>2 DEF TypeOK, Derivations
    <2> QED
      BY <1>1, <1>2, <1>4, <2>1 DEF TypeOK
  <1>6. KeyDerivesOnce'
    BY <1>1, FirstUse DEF KeyDerivesOnce
  <1>7. DerivedFromIssued'
    BY <1>1 DEF DerivedFromIssued
  <1>8. a.peer \in disk' \/ (a.id \notin fresh' /\ a.id \notin served')
    BY DEF FirstMessage, Retire
  <1>9. DerivedClosed'
    BY <1>1, <1>3, <1>8 DEF DerivedClosed
  <1>10. IssuedMarked' /\ GateRemembers'
    BY <1>1, <1>3 DEF IssuedMarked, GateRemembers
  <1> QED
    BY <1>1, <1>5, <1>6, <1>7, <1>9, <1>10 DEF ServedOnce, RateLimited

(* A crash before the mark leaves the key loadable but the session on disk.*)
LEMMA CrashBeforeMarkPreserves ==
    ASSUME IndInv, NEW a \in issued, CrashBeforeMark(a)
    PROVE  IndInv'
  <1> USE PoolAssumption DEF IndInv
  <1> DEFINE d == [id |-> a.id, peer |-> a.peer, run |-> run]
  <1>1. /\ derived' = derived \cup {d} /\ disk' = disk \cup {a.peer}
        /\ served' = served \cup (fresh \ fresh) /\ spent' = spent
        /\ issued' = issued /\ clock' = clock /\ live' = {} /\ DOMAIN recent' = {}
        /\ run \in Nat /\ run' = run + 1 /\ run' \in 1 .. MaxRuns
        /\ Replenish(fresh)
    BY DEF CrashBeforeMark, TypeOK
  <1>2. /\ RowsOK' /\ nextId' >= nextId
        /\ \A id \in Nat : id < nextId /\ id \notin fresh => id \notin fresh'
    BY <1>1, RowsMove DEF TypeOK
  <1>3. nextId \in Nat /\ nextId' \in Nat
    BY <1>2 DEF TypeOK, RowsOK
  <1>4. \A b \in issued : /\ b.id \in Nat /\ b.run \in Nat /\ b.peer \in Peers
                          /\ b.id < nextId /\ b.id \notin fresh
    BY DEF TypeOK, Responses, IssuedMarked
  <1>5. \A b \in issued : b.id < nextId' /\ b.id \notin fresh' /\ b.run < run'
    BY <1>1, <1>2, <1>3, <1>4 DEF IssuedMarked
  <1>6. TypeOK'
    <2>1. d \in Derivations
      BY <1>1, <1>4 DEF Derivations
    <2> QED
      BY <1>1, <1>2, <1>4, <2>1 DEF TypeOK
  <1>7. KeyDerivesOnce'
    BY <1>1, FirstUse DEF KeyDerivesOnce, CrashBeforeMark
  <1>8. DerivedFromIssued'
    BY <1>1 DEF DerivedFromIssued
  <1>9. DerivedClosed'
    <2>1. \A e \in derived : e.id \notin fresh'
      BY <1>5 DEF DerivedFromIssued
    <2> QED
      BY <1>1, <2>1 DEF DerivedClosed
  <1>10. IssuedMarked' /\ GateRemembers'
    BY <1>1, <1>4, <1>5 DEF IssuedMarked, GateRemembers
  <1> QED
    BY <1>1, <1>6, <1>7, <1>8, <1>9, <1>10 DEF ServedOnce, RateLimited

-----------------------------------------------------------------------------
(* Every step of the pool preserves the invariant.                         *)
LEMMA NextPreserves == IndInv /\ [Next]_vars => IndInv'
  <1> SUFFICES ASSUME IndInv, [Next]_vars PROVE IndInv'
    OBVIOUS
  <1>1. ASSUME NEW p \in Peers, Request(p) PROVE IndInv'
    <2>1. CASE GateAllows(p)
      BY <1>1, <2>1, PopAndServePreserves, PopNothingPreserves DEF Request
    <2>2. CASE ~GateAllows(p)
      BY <1>1, <2>2 DEF Request, vars, rows, IndInv, TypeOK, RowsOK, ServedOnce,
         RateLimited, KeyDerivesOnce, IssuedMarked, GateRemembers,
         DerivedFromIssued, DerivedClosed
    <2> QED
      BY <2>1, <2>2
  <1>2. ASSUME NEW p \in Peers, CrashAfterPop(p) PROVE IndInv'
    <2>1. PICK id \in fresh : /\ served' = served \cup {id}
                              /\ Started /\ Replenish(fresh \ {id})
      BY <1>2 DEF CrashAfterPop
    <2>2. served' = served \cup (fresh \ (fresh \ {id}))
      BY <2>1
    <2> QED
      BY <2>1, <2>2, StartPreserves
  <1>3. CASE Restart
    <2>1. served' = served \cup (fresh \ fresh)
      BY <1>3 DEF Restart
    <2> QED
      BY <1>3, <2>1, StartPreserves DEF Restart
  <1>4. CASE Prune
    BY <1>4, PrunePreserves
  <1>5. CASE Tick
    BY <1>5, TickPreserves
  <1>6. ASSUME NEW a \in issued, CrashBeforeMark(a) PROVE IndInv'
    BY <1>6, CrashBeforeMarkPreserves
  <1>7. ASSUME NEW a \in issued,
               NEW persisted \in BOOLEAN, NEW marked \in BOOLEAN, NEW deleted \in BOOLEAN,
               FirstMessage(a, persisted, marked, deleted)
        PROVE IndInv'
    BY <1>7, FirstMessagePreserves
  <1>8. CASE UNCHANGED vars
    BY <1>8 DEF vars, rows, IndInv, TypeOK, RowsOK, ServedOnce, RateLimited,
       KeyDerivesOnce, IssuedMarked, GateRemembers, DerivedFromIssued, DerivedClosed
  <1> QED
    BY <1>1, <1>2, <1>3, <1>4, <1>5, <1>6, <1>7, <1>8 DEF Next

(* Inductive invariance: all four facts the pool depends on, together.     *)
LEMMA IndInvHolds == Spec => []IndInv
  BY InitHolds, NextPreserves, PTL DEF Spec

(* The my_otpks table and the maps around it keep their shape.             *)
THEOREM PoolTypeCorrect == Spec => []TypeOK
  <1>1. IndInv => TypeOK
    BY DEF IndInv
  <1> QED
    BY <1>1, IndInvHolds, PTL

(* pop_unused_otpk: no one-time prekey is ever sent in two responses.      *)
THEOREM KeyServedOnce == Spec => []ServedOnce
  <1>1. IndInv => ServedOnce
    BY DEF IndInv
  <1> QED
    BY <1>1, IndInvHolds, PTL

(* check_and_update_otpk_gate and prune_recent_otpk_fetches: within a run  *)
(* of the process, a peer gets at most one OTPK per cooldown.              *)
THEOREM GateLimitsRate == Spec => []RateLimited
  <1>1. IndInv => RateLimited
    BY DEF IndInv
  <1> QED
    BY <1>1, IndInvHolds, PTL

(* load_otpk_private, mark_otpk_consumed, delete_otpk: a one-time prekey   *)
(* sets up at most one session.                                            *)
THEOREM KeyUsedOnce == Spec => []KeyDerivesOnce
  <1>1. IndInv => KeyDerivesOnce
    BY DEF IndInv
  <1> QED
    BY <1>1, IndInvHolds, PTL

-----------------------------------------------------------------------------
(* The service the pool promises.                                          *)

(* PopAndServe: a response with a key that no response carried before.     *)
LEMMA ResponseGives ==
    ASSUME IndInv, NEW p \in Peers, PopAndServe(p), UNCHANGED derived
    PROVE  [Service!Next]_<<issued, derived>>
  <1>1. PICK id \in fresh : issued' = issued \cup {Response(id, p)}
    BY DEF PopAndServe
  <1> DEFINE r == Response(id, p)
  <1>2. r.id \in Nat /\ r.peer \in Peers
    BY DEF IndInv, TypeOK, RowsOK, Response
  <1>3. \A h \in issued : h.id # r.id
    BY DEF IndInv, IssuedMarked, Response
  <1> QED
    BY <1>1, <1>2, <1>3 DEF Service!Next, Service!Give

(* FirstMessage and CrashBeforeMark: a session with a key that was given   *)
(* to its peer and has set up no other.                                    *)
LEMMA SessionUses ==
    ASSUME IndInv, NEW a \in issued, a.peer \notin live \cup disk, Loads(a.id),
           derived' = derived \cup {[id |-> a.id, peer |-> a.peer, run |-> run]},
           UNCHANGED issued
    PROVE  [Service!Next]_<<issued, derived>>
  <1> DEFINE d == [id |-> a.id, peer |-> a.peer, run |-> run]
  <1>1. \A e \in derived : e.id # d.id
    BY FirstUse
  <1>2. d.id = a.id /\ d.peer = a.peer
    OBVIOUS
  <1> QED
    BY <1>1, <1>2 DEF Service!Next, Service!Use

(* Every step of the pool gives a key, uses one, or does neither.          *)
LEMMA StepSimulates ==
    IndInv /\ [Next]_vars => [Service!Next]_<<issued, derived>>
  <1> SUFFICES ASSUME IndInv, [Next]_vars
               PROVE  [Service!Next]_<<issued, derived>>
    OBVIOUS
  <1>1. ASSUME NEW p \in Peers, Request(p) PROVE [Service!Next]_<<issued, derived>>
    <2>1. CASE PopAndServe(p) /\ UNCHANGED derived
      BY <2>1, ResponseGives
    <2>2. CASE UNCHANGED <<issued, derived>>
      BY <2>2
    <2> QED
      BY <1>1, <2>1, <2>2 DEF Request, PopNothing, vars
  <1>2. ASSUME NEW p \in Peers, CrashAfterPop(p) PROVE UNCHANGED <<issued, derived>>
    BY <1>2 DEF CrashAfterPop, Started
  <1>3. CASE Prune \/ Restart \/ Tick
    BY <1>3 DEF Prune, Restart, Started, Tick
  <1>4. ASSUME NEW a \in issued, CrashBeforeMark(a)
        PROVE  [Service!Next]_<<issued, derived>>
    BY <1>4, SessionUses DEF CrashBeforeMark
  <1>5. ASSUME NEW a \in issued,
               NEW persisted \in BOOLEAN, NEW marked \in BOOLEAN, NEW deleted \in BOOLEAN,
               FirstMessage(a, persisted, marked, deleted)
        PROVE  [Service!Next]_<<issued, derived>>
    BY <1>5, SessionUses DEF FirstMessage
  <1>6. CASE UNCHANGED vars
    BY <1>6 DEF vars
  <1> QED
    BY <1>1, <1>2, <1>3, <1>4, <1>5, <1>6 DEF Next

(* The my_otpks table, its markers and the gate implement PrekeyService: a *)
(* key is given once and sets up one session, of the peer it was given to. *)
THEOREM PoolKeepsPromise == Spec => KeepsPromise
  <1>1. Init => Service!Init
    BY DEF Init, Service!Init
  <1> QED
    BY <1>1, StepSimulates, IndInvHolds, PTL DEF Spec, KeepsPromise, Service!Spec

-----------------------------------------------------------------------------
(* The level of the pool.                                                  *)

LevelInv == IsFiniteSet(fresh) /\ PoolLevel

(* replenish_otpk_pool generates exactly the deficit, or less on failure.  *)
LEMMA ReplenishFills ==
    ASSUME RowsOK, NEW f \in SUBSET fresh, IsFiniteSet(f),
           Cardinality(f) <= Target, Replenish(f)
    PROVE  LevelInv'
  <1>1. PICK made \in 0 .. Target : /\ Inserted(f, made)
                                    /\ fresh' = f \cup NewRows(made)
    BY DEF Replenish
  <1>2. Cardinality(f) \in Nat /\ made \in Nat /\ nextId \in Nat
    BY FS_CardinalityType, PoolAssumption DEF RowsOK
  <1>3. IsFiniteSet(NewRows(made)) /\ Cardinality(NewRows(made)) = made
    <2>1. nextId \in Int /\ nextId + made - 1 \in Int
      BY <1>2
    <2>2. /\ IsFiniteSet(nextId .. nextId + made - 1)
          /\ Cardinality(nextId .. nextId + made - 1)
               = IF nextId > nextId + made - 1 THEN 0 ELSE (nextId + made - 1) - nextId + 1
      BY <2>1, FS_Interval
    <2> QED
      BY <1>2, <2>2 DEF NewRows
  <1>4. f \cap NewRows(made) = {}
    BY <1>2 DEF RowsOK, NewRows
  <1>5. /\ IsFiniteSet(fresh')
        /\ Cardinality(fresh') = Cardinality(f) + made
    <2>1. /\ IsFiniteSet(f \cup NewRows(made))
          /\ Cardinality(f \cup NewRows(made))
               = Cardinality(f) + Cardinality(NewRows(made)) - Cardinality(f \cap NewRows(made))
      BY <1>3, FS_Union
    <2>2. Cardinality(f \cap NewRows(made)) = 0
      BY <1>4, FS_EmptySet
    <2> QED
      BY <1>1, <1>2, <1>3, <2>1, <2>2
  <1> QED
    BY <1>1, <1>2, <1>5, PoolAssumption DEF LevelInv, PoolLevel, Inserted, Needed

(* ... so every handler that tops the pool up leaves it at its level,      *)
(* whether or not it popped a key first.                                   *)
LEMMA PopThenReplenishFills ==
    ASSUME RowsOK, LevelInv, NEW id \in fresh, Replenish(fresh \ {id})
    PROVE  LevelInv'
  <1>1. /\ IsFiniteSet(fresh \ {id})
        /\ Cardinality(fresh \ {id}) <= Cardinality(fresh)
        /\ Cardinality(fresh \ {id}) \in Nat /\ Cardinality(fresh) \in Nat
    BY FS_Subset, FS_CardinalityType DEF LevelInv
  <1> QED
    BY <1>1, ReplenishFills, PoolAssumption DEF LevelInv, PoolLevel

(* The pool never exceeds OTPK_POOL_TARGET, and without store failures it  *)
(* is full whenever the node is not inside a handler.                      *)
THEOREM PoolStaysFull == Spec => []PoolLevel
  <1>1. Init => LevelInv
    <2> SUFFICES ASSUME Init PROVE LevelInv
      OBVIOUS
    <2>1. PICK made \in 0 .. Target : (StoreFails \/ made = Target) /\ fresh = 1 .. made
      BY DEF Init
    <2>2. IsFiniteSet(1 .. made) /\ Cardinality(1 .. made) = IF 1 > made THEN 0 ELSE made - 1 + 1
      BY FS_Interval, PoolAssumption
    <2> QED
      BY <2>1, <2>2, PoolAssumption DEF LevelInv, PoolLevel
  <1>2. IndInv /\ LevelInv /\ [Next]_vars => LevelInv'
    <2> SUFFICES ASSUME IndInv, LevelInv, [Next]_vars PROVE LevelInv'
      OBVIOUS
    <2>1. RowsOK
      BY DEF IndInv, TypeOK
    <2>2. ASSUME Replenish(fresh) PROVE LevelInv'
      BY <2>1, <2>2, ReplenishFills DEF LevelInv, PoolLevel
    <2>3. ASSUME fresh' = fresh PROVE LevelInv'
      BY <2>3 DEF LevelInv, PoolLevel
    <2>4. ASSUME NEW p \in Peers, Request(p) PROVE LevelInv'
      BY <2>1, <2>2, <2>3, <2>4, PopThenReplenishFills
         DEF Request, PopAndServe, PopNothing, vars, rows
    <2>5. ASSUME NEW p \in Peers, CrashAfterPop(p) PROVE LevelInv'
      BY <2>1, <2>5, PopThenReplenishFills DEF CrashAfterPop
    <2>6. CASE Restart
      BY <2>2, <2>6 DEF Restart
    <2>7. CASE Prune \/ Tick
      BY <2>3, <2>7 DEF Prune, Tick, rows
    <2>8. ASSUME NEW a \in issued, CrashBeforeMark(a) PROVE LevelInv'
      BY <2>2, <2>8 DEF CrashBeforeMark
    <2>9. ASSUME NEW a \in issued,
                 NEW persisted \in BOOLEAN, NEW marked \in BOOLEAN, NEW deleted \in BOOLEAN,
                 FirstMessage(a, persisted, marked, deleted)
          PROVE LevelInv'
      <3>1. a.id \notin fresh
        BY DEF IndInv, IssuedMarked
      <3>2. fresh' = fresh
        BY <2>9, <3>1 DEF FirstMessage, Retire
      <3> QED
        BY <2>3, <3>2
    <2>10. CASE UNCHANGED vars
      BY <2>3, <2>10 DEF vars, rows
    <2> QED
      BY <2>4, <2>5, <2>6, <2>7, <2>8, <2>9, <2>10 DEF Next
  <1>3. LevelInv => PoolLevel
    BY DEF LevelInv
  <1> QED
    BY <1>1, <1>2, <1>3, IndInvHolds, PTL DEF Spec
=============================================================================
