------------------------- MODULE FirstContactProofs -------------------------
(***************************************************************************)
(* Proofs about FirstContact, for any size of the responder's pool, any    *)
(* number of messages, restarts and replaced keys, with and without lost   *)
(* messages and failing writes.                                            *)
(***************************************************************************)
EXTENDS FirstContact, SequenceTheorems, WellFoundedInduction, TLAPS

(* The messages the responder can still take.                              *)
Pending == wire \cup waiting

(* A key is replaced once per start that finds it damaged.                 *)
KeysCounted ==
    /\ spk \in Nat /\ kem \in Nat /\ ik \in Nat
    /\ 1 <= spk /\ 1 <= kem /\ 1 <= ik
    /\ spk <= regens + 1 /\ kem <= regens + 1 /\ ik <= regens + 1

(* The row and the response hold keys the responder has had.               *)
RowTyped == row \in [x : 0 .. spk, ek : 0 .. kem]
AnswerTyped ==
    answer # NoAnswer =>
        /\ answer \in [x : 1 .. spk, otpk : 0 .. OtpkCount, ek : 0 .. kem]
        /\ answer.otpk \notin fresh

(* There is one session: before the first hello nothing is under way, and  *)
(* whatever is sealed later is sealed under the same secret.               *)
OneSession == \A m \in Pending : init # NoSession /\ m.sk = init

(* The OTPK of a hello has been served and is not served again.            *)
HellosServed == \A m \in Pending : m.otpk \notin fresh

(* A hello is derived from what it names.                                  *)
HellosDerived ==
    \A m \in Pending : m.eph # Absent =>
        \E i, x : m.sk = InitiatorDerive(Ik(i), Spk(x), m.eph, Otpk(m.otpk), m.ct)

(* An ML-KEM key that came and was written is in the row.                  *)
OfferKept == ~spoiled /\ offered => row.ek # None

IndInv ==
    /\ TypeOK /\ KeysCounted /\ RowTyped /\ AnswerTyped
    /\ OneSession /\ HellosServed /\ HellosDerived /\ SecretsAgree
    /\ OfferKept /\ StaysHybrid

-----------------------------------------------------------------------------
(* pop_unused_otpk takes the key with the smallest id.                     *)
LEMMA SmallestServed ==
    ASSUME NEW S \in SUBSET Nat, S # {}
    PROVE  (CHOOSE k \in S : \A j \in S : k <= j) \in S
  <1> DEFINE R == {ss \in Nat \X Nat : ss[1] < ss[2]}
  <1>1. IsWellFoundedOn(R, Nat)
    BY NatLessThanWellFounded DEF OpToRel
  <1>2. \E x \in S : \A y \in S : ~ (<<y, x>> \in R)
    <2> HIDE DEF R
    <2> QED
      BY <1>1, WFMin
  <1>3. \E x \in S : \A y \in S : x <= y
    <2>1. PICK x \in S : \A y \in S : ~ (<<y, x>> \in R)
      BY <1>2
    <2>2. ASSUME NEW y \in S PROVE x <= y
      <3>1. x \in Nat /\ y \in Nat /\ <<y, x>> \notin R
        BY <2>1, <2>2
      <3>2. ~(y < x)
        BY <3>1
      <3> QED
        BY <3>1, <3>2
    <2> QED
      BY <2>2
  <1> QED
    BY <1>3

(* Both sides feed HKDF the same sequence of DH outputs if they agree on   *)
(* the first two.                                                          *)
LEMMA DhsAgree ==
    ASSUME NEW i, NEW x, NEW y, NEW k, NEW e, NEW o,
           InitiatorDhs(i, x, e, o)[1] = X3dhDH(e, y),
           X3dhDH(k, y) = InitiatorDhs(i, x, e, o)[2]
    PROVE  ResponderDhs(y, o, e, k) = InitiatorDhs(i, x, e, o)
  <1> DEFINE a == X3dhDH(e, x)
             b == X3dhDH(i, x)
             t == IF o = Absent THEN << >> ELSE <<X3dhDH(e, o)>>
             S == {a, b, X3dhDH(e, o)}
  <1>1. X3dhDH(y, e) = X3dhDH(e, y) /\ X3dhDH(y, k) = X3dhDH(k, y) /\ X3dhDH(o, e) = X3dhDH(e, o)
    BY DEF X3dhDH
  <1>2. InitiatorDhs(i, x, e, o) = <<a, b>> \o t
    BY DEF InitiatorDhs
  <1>3. ResponderDhs(y, o, e, k) = <<X3dhDH(e, y), X3dhDH(k, y)>> \o t
    BY <1>1 DEF ResponderDhs
  <1>4. <<a, b>> \in Seq(S) /\ t \in Seq(S) /\ Len(<<a, b>>) = 2
    <2> HIDE DEF a, b
    <2> DEFINE c == X3dhDH(e, o)
    <2>1. a \in S /\ b \in S /\ c \in S
      OBVIOUS
    <2>2. t \in {<< >>, <<c>>}
      OBVIOUS
    <2> HIDE DEF S, c, t
    <2>3. <<a, b>> \in Seq(S) /\ Len(<<a, b>>) = 2
      BY <2>1
    <2>4. << >> \in Seq(S) /\ <<c>> \in Seq(S)
      BY <2>1
    <2> QED
      BY <2>2, <2>3, <2>4
  <1> HIDE DEF a, b, t, S
  <1>5. (<<a, b>> \o t)[1] = a /\ (<<a, b>> \o t)[2] = b
    <2>1. Len(t) \in Nat
      BY <1>4
    <2> QED
      BY <1>4, <2>1, ConcatProperties
  <1> QED
    BY <1>2, <1>3, <1>5

(* The four variants of build_x3dh_hello and the four of                   *)
(* bootstrap_responder_and_decrypt match.                                  *)
LEMMA HellosOpen ==
    ASSUME IndInv
    PROVE  HelloOpens
  <1> SUFFICES ASSUME NEW m \in Pending, m.eph # Absent, Current(m)
               PROVE  ResponderSecret(m, IF known = None THEN ik ELSE known) = m.sk
    BY DEF HelloOpens, Pending
  <1> DEFINE k == IF known = None THEN ik ELSE known
  <1>1. PICK i, x : m.sk = InitiatorDerive(Ik(i), Spk(x), m.eph, Otpk(m.otpk), m.ct)
    BY DEF IndInv, HellosDerived
  <1> DEFINE d == InitiatorDhs(Ik(i), Spk(x), m.eph, Otpk(m.otpk))
  <1>2. m.sk = [dhs |-> d, pq |-> m.ct] /\ m.sk.dhs = d
    BY <1>1 DEF InitiatorDerive, DeriveSharedSecret
  <1>3. /\ d[1] = X3dhDH(m.eph, Spk(spk)) /\ X3dhDH(Ik(k), Spk(spk)) = d[2]
        /\ m.ct # Absent => m.ct[1] = kem
    BY <1>2 DEF Current
  <1>4. ResponderDhs(Spk(spk), Otpk(m.otpk), m.eph, Ik(k)) = d
    BY <1>3, DhsAgree
  <1>5. (IF m.ct = Absent THEN Absent ELSE PqDecapsulate(kem, m.ct)) = m.ct
    BY <1>3 DEF PqDecapsulate
  <1> HIDE DEF d, k
  <1>6. ResponderSecret(m, k) = [dhs |-> d, pq |-> m.ct]
    BY <1>4, <1>5 DEF ResponderSecret, ResponderDerive, DeriveSharedSecret
  <1> QED
    BY <1>2, <1>6 DEF k

-----------------------------------------------------------------------------
(* What concerns neither side's keys nor the pool.                         *)
LEMMA Others ==
    ASSUME IndInv, UNCHANGED <<spk, kem, ik, fresh, loadable, known, row, memEk, memOtpk, regens>>,
           answer' \in {answer, NoAnswer}, sends' \in Nat, sends <= sends', sends' <= MaxSends,
           \A m \in Pending' : m \in Pending \/ (m.n \in 1 .. sends' /\ m.otpk \notin fresh),
           restarts' \in 0 .. MaxRestarts
    PROVE  TypeOK' /\ KeysCounted' /\ RowTyped' /\ AnswerTyped' /\ HellosServed'
  <1> USE DEF IndInv
  <1>1. KeysCounted' /\ RowTyped' /\ AnswerTyped' /\ HellosServed'
    BY DEF KeysCounted, RowTyped, AnswerTyped, HellosServed
  <1>2. \A m \in (wire \cup waiting)' : m.n \in 1 .. sends'
    <2>1. \A m \in wire \cup waiting : m.n \in 1 .. sends
      BY DEF TypeOK
    <2>2. \A k \in 1 .. sends : k \in 1 .. sends'
      BY DEF TypeOK
    <2> QED
      BY <2>1, <2>2 DEF Pending
  <1>3. answer' # NoAnswer => answer'.otpk \notin fresh
    BY DEF TypeOK
  <1> QED
    BY <1>1, <1>2, <1>3 DEF TypeOK

LEMMA AnswerPrekeyPreserves ==
    ASSUME IndInv, NEW attach \in BOOLEAN, AnswerPrekey(attach)
    PROVE  IndInv'
  <1> DEFINE id == IF attach THEN CHOOSE k \in fresh : \A j \in fresh : k <= j ELSE None
  <1>1. /\ attach => fresh # {}
        /\ answer' = [x |-> spk, otpk |-> id, ek |-> IF pqAware THEN kem ELSE None]
        /\ fresh' = fresh \ {id}
        /\ UNCHANGED <<spk, kem, pqAware, loadable, known, waiting, resp, ik, row, memEk, memOtpk,
                       init, wire, sends, restarts, regens, offered, spoiled, hellos, dropped>>
    BY DEF AnswerPrekey, Popped, initiator, history
  <1>2. fresh \subseteq 1 .. OtpkCount /\ OtpkCount \in Nat
    BY FirstContactAssumption DEF IndInv, TypeOK
  <1>3. id \in 0 .. OtpkCount
    <2>1. CASE attach
      <3>1. fresh \in SUBSET Nat
        BY <1>2
      <3>2. (CHOOSE k \in fresh : \A j \in fresh : k <= j) \in fresh
        BY <1>1, <2>1, <3>1, SmallestServed, Zenon
      <3>3. id \in fresh
        BY <2>1, <3>2
      <3> HIDE DEF id
      <3> QED
        BY <1>2, <3>3
    <2>2. CASE ~attach
      BY <1>2, <2>2 DEF None
    <2> QED
      BY <2>1, <2>2
  <1> HIDE DEF id
  <1>4. KeysCounted' /\ RowTyped' /\ OneSession' /\ HellosServed' /\ HellosDerived' /\ SecretsAgree'
        /\ OfferKept' /\ StaysHybrid'
    BY <1>1
    DEF IndInv, KeysCounted, RowTyped, OneSession, HellosServed, HellosDerived, SecretsAgree,
        OfferKept, StaysHybrid, Pending
  <1>5. AnswerTyped'
    <2>1. spk \in 1 .. spk /\ (IF pqAware THEN kem ELSE None) \in 0 .. kem
      BY DEF IndInv, KeysCounted, None
    <2>2. answer'.otpk \notin fresh'
      BY <1>1
    <2> QED
      BY <1>1, <1>3, <2>1, <2>2 DEF AnswerTyped
  <1>6. TypeOK'
    BY <1>1, <1>5 DEF IndInv, TypeOK, AnswerTyped
  <1> QED
    BY <1>4, <1>5, <1>6 DEF IndInv

(* A step of the initiator's that stores keys but sends nothing.           *)
LEMMA KeysStored ==
    ASSUME IndInv,
           UNCHANGED <<responder, init, wire, sends, regens, hellos, dropped>>,
           ik' = ik, restarts' \in 0 .. MaxRestarts, answer' = NoAnswer,
           row' \in [x : 0 .. spk, ek : 0 .. kem], row'.x = None => row'.ek = None,
           memEk' \in 0 .. kem, memOtpk' \in (0 .. OtpkCount) \ fresh,
           ~spoiled' /\ offered' => row'.ek # None, spoiled => spoiled'
    PROVE  IndInv'
  <1>1. UNCHANGED <<spk, kem, pqAware, fresh, loadable, known, waiting, resp>>
    BY DEF responder
  <1>2. KeysCounted' /\ RowTyped' /\ AnswerTyped' /\ OneSession' /\ HellosServed' /\ HellosDerived'
        /\ SecretsAgree' /\ OfferKept' /\ StaysHybrid'
    BY <1>1
    DEF IndInv, KeysCounted, RowTyped, AnswerTyped, OneSession, HellosServed, HellosDerived,
        SecretsAgree, OfferKept, StaysHybrid, Pending
  <1>3. TypeOK'
    BY <1>1 DEF IndInv, TypeOK
  <1> QED
    BY <1>2, <1>3 DEF IndInv

LEMMA ReceivePrekeyPreserves ==
    ASSUME IndInv, NEW saved \in BOOLEAN, NEW savedPq \in BOOLEAN, ReceivePrekey(saved, savedPq)
    PROVE  IndInv'
  <1>1. /\ answer # NoAnswer /\ answer' = NoAnswer
        /\ UNCHANGED <<responder, ik, init, wire, sends, restarts, regens, hellos, dropped>>
    BY DEF ReceivePrekey
  <1>2. /\ answer \in [x : 1 .. spk, otpk : 0 .. OtpkCount, ek : 0 .. kem] /\ answer.otpk \notin fresh
        /\ row \in [x : 0 .. spk, ek : 0 .. kem] /\ memEk \in 0 .. kem
        /\ memOtpk \in (0 .. OtpkCount) \ fresh /\ (row.x = None => row.ek = None)
        /\ restarts \in 0 .. MaxRestarts
        /\ (~spoiled /\ offered => row.ek # None) /\ spk \in Nat
    BY <1>1 DEF IndInv, TypeOK, RowTyped, AnswerTyped, OfferKept, KeysCounted
  <1>3. CASE saved
    <2> DEFINE ek == IF answer.ek # None /\ savedPq THEN answer.ek ELSE row.ek
    <2>1. /\ row' = [x |-> answer.x, ek |-> ek]
          /\ memOtpk' = IF answer.otpk # None THEN answer.otpk ELSE memOtpk
          /\ memEk' = IF answer.ek # None THEN answer.ek ELSE memEk
          /\ offered' = (offered \/ answer.ek # None)
          /\ spoiled' = (spoiled \/ ~savedPq)
      BY <1>3 DEF ReceivePrekey
    <2>2. answer.x \in 1 .. spk /\ answer.ek \in 0 .. kem /\ answer.otpk \in 0 .. OtpkCount /\ ek \in 0 .. kem
      BY <1>2
    <2>3. ~spoiled' /\ offered' => ek # None
      BY <1>2, <2>1
    <2> HIDE DEF ek
    <2>4. row' \in [x : 0 .. spk, ek : 0 .. kem] /\ row'.x # None /\ row'.ek = ek
      BY <1>2, <2>1, <2>2 DEF None
    <2> QED
      BY <1>1, <1>2, <2>1, <2>2, <2>3, <2>4, KeysStored
  <1>4. CASE ~saved
    <2>1. UNCHANGED <<row, memOtpk, memEk, offered, spoiled>>
      BY <1>4 DEF ReceivePrekey
    <2> QED
      BY <1>1, <1>2, <2>1, KeysStored
  <1> QED
    BY <1>3, <1>4

LEMMA CrashInReceivePrekeyPreserves ==
    ASSUME IndInv, CrashInReceivePrekey
    PROVE  IndInv'
  <1>1. /\ answer # NoAnswer /\ restarts < MaxRestarts /\ restarts' = restarts + 1
        /\ answer' = NoAnswer /\ row' = [row EXCEPT !.x = answer.x]
        /\ memOtpk' = None /\ memEk' = None /\ spoiled' = TRUE
        /\ UNCHANGED <<responder, ik, init, wire, sends, regens, hellos, dropped>>
    BY DEF CrashInReceivePrekey
  <1>2. /\ answer \in [x : 1 .. spk, otpk : 0 .. OtpkCount, ek : 0 .. kem]
        /\ row \in [x : 0 .. spk, ek : 0 .. kem] /\ spk \in Nat /\ kem \in Nat
        /\ restarts \in 0 .. MaxRestarts /\ fresh \subseteq 1 .. OtpkCount
    BY <1>1 DEF IndInv, TypeOK, RowTyped, AnswerTyped, KeysCounted
  <1>3. answer.x \in 1 .. spk /\ answer.x \in 0 .. spk /\ answer.x # None
    BY <1>2 DEF None
  <1>4. row' \in [x : 0 .. spk, ek : 0 .. kem] /\ row'.x # None
    BY <1>1, <1>2, <1>3
  <1>5. None \in 0 .. kem /\ None \in (0 .. OtpkCount) \ fresh /\ restarts' \in 0 .. MaxRestarts
    BY <1>1, <1>2, FirstContactAssumption DEF None
  <1> QED
    BY <1>1, <1>4, <1>5, KeysStored

LEMMA ForgettingPreserves ==
    ASSUME IndInv, RestartInitiator \/ AnswerLost
    PROVE  IndInv'
  <1>1. /\ UNCHANGED <<responder, ik, row, init, wire, sends, regens, offered, spoiled, hellos, dropped>>
        /\ answer' = NoAnswer /\ memOtpk' \in {memOtpk, None} /\ memEk' \in {memEk, None}
        /\ restarts' \in 0 .. MaxRestarts
    BY FirstContactAssumption DEF RestartInitiator, AnswerLost, history, initiator, IndInv, TypeOK
  <1>2. None \in 0 .. kem /\ None \in (0 .. OtpkCount) \ fresh
    BY FirstContactAssumption DEF None, IndInv, KeysCounted, TypeOK
  <1>3. /\ memEk' \in 0 .. kem /\ memOtpk' \in (0 .. OtpkCount) \ fresh
        /\ row' \in [x : 0 .. spk, ek : 0 .. kem] /\ (row'.x = None => row'.ek = None)
        /\ (~spoiled /\ offered => row.ek # None)
    BY <1>1, <1>2 DEF IndInv, TypeOK, RowTyped, OfferKept
  <1> QED
    BY <1>1, <1>3, KeysStored

LEMMA RegenerateIkPreserves ==
    ASSUME IndInv, RegenerateIk
    PROVE  IndInv'
  <1>1. /\ regens < MaxRegens /\ regens' = regens + 1 /\ ik' = ik + 1
        /\ memOtpk' = None /\ memEk' = None /\ answer' = NoAnswer
        /\ UNCHANGED <<spk, kem, pqAware, fresh, loadable, known, waiting, resp, row, init, wire,
                       sends, restarts, offered, spoiled, hellos, dropped>>
    BY DEF RegenerateIk, responder, history
  <1>2. /\ KeysCounted' /\ RowTyped' /\ AnswerTyped' /\ OneSession' /\ HellosServed' /\ HellosDerived'
        /\ SecretsAgree' /\ OfferKept' /\ StaysHybrid'
    <2>1. KeysCounted' /\ RowTyped' /\ AnswerTyped'
      BY <1>1 DEF IndInv, KeysCounted, RowTyped, AnswerTyped, TypeOK
    <2> QED
      BY <1>1, <2>1
      DEF IndInv, OneSession, HellosServed, HellosDerived, SecretsAgree, OfferKept, StaysHybrid, Pending
  <1>3. None \in 0 .. kem /\ None \in (0 .. OtpkCount) \ fresh
    BY FirstContactAssumption DEF None, IndInv, KeysCounted, TypeOK
  <1>4. regens' \in 0 .. MaxRegens /\ ik' \in 1 .. MaxRegens + 1 /\ known' \in 0 .. ik'
    BY <1>1, FirstContactAssumption DEF IndInv, KeysCounted, TypeOK
  <1>5. TypeOK'
    BY <1>1, <1>3, <1>4 DEF IndInv, TypeOK
  <1> QED
    BY <1>2, <1>5 DEF IndInv

(* A start of the responder's that replaces one of its keys.               *)
LEMMA ResponderKeysPreserve ==
    ASSUME IndInv, RegenerateSpk \/ RegenerateKem
    PROVE  IndInv'
  <1>1. /\ regens < MaxRegens /\ regens' = regens + 1
        /\ \/ spk' = spk + 1 /\ kem' = kem
           \/ kem' = kem + 1 /\ spk' = spk
        /\ waiting' = {}
        /\ UNCHANGED <<fresh, loadable, known, resp, ik, row, memEk, memOtpk, init, answer, wire,
                       sends, restarts, offered, spoiled, hellos, dropped>>
    BY DEF RegenerateSpk, RegenerateKem, initiator, history
  <1>2. KeysCounted' /\ spk' >= spk /\ kem' >= kem /\ regens' \in 0 .. MaxRegens
        /\ spk \in Nat /\ kem \in Nat
    BY <1>1, FirstContactAssumption DEF IndInv, KeysCounted, TypeOK
  <1>3. /\ 0 .. spk \subseteq 0 .. spk' /\ 1 .. spk \subseteq 1 .. spk' /\ 0 .. kem \subseteq 0 .. kem'
    BY <1>2 DEF KeysCounted
  <1>4. spk' \in 1 .. MaxRegens + 1 /\ kem' \in 1 .. MaxRegens + 1
    <2>1. regens' \in Nat /\ regens' <= MaxRegens /\ MaxRegens \in Nat
      BY <1>2, FirstContactAssumption
    <2>2. /\ spk' \in Nat /\ kem' \in Nat /\ 1 <= spk' /\ 1 <= kem'
          /\ spk' <= regens' + 1 /\ kem' <= regens' + 1
      BY <1>2 DEF KeysCounted
    <2>3. \A v, r \in Nat : r <= MaxRegens /\ 1 <= v /\ v <= r + 1 => v \in 1 .. MaxRegens + 1
      BY <2>1
    <2> QED
      BY <2>1, <2>2, <2>3
  <1>5. RowTyped' /\ AnswerTyped'
    <2>1. RowTyped /\ AnswerTyped
      BY DEF IndInv
    <2> QED
      BY <1>1, <1>3, <2>1 DEF RowTyped, AnswerTyped
  <1>6. OneSession' /\ HellosServed' /\ HellosDerived' /\ SecretsAgree' /\ OfferKept' /\ StaysHybrid'
    BY <1>1
    DEF IndInv, OneSession, HellosServed, HellosDerived, SecretsAgree, OfferKept, StaysHybrid, Pending
  <1>7. TypeOK'
    BY <1>1, <1>2, <1>3, <1>4 DEF IndInv, TypeOK
  <1> QED
    BY <1>2, <1>5, <1>6, <1>7 DEF IndInv

LEMMA SendHelloPreserves ==
    ASSUME IndInv, SendHello
    PROVE  IndInv'
  <1> DEFINE n == sends + 1
             ct == IF EkFor = None THEN Absent ELSE PqEncapsulate(EkFor, n)
             m == Hello(n)
             sk == InitiatorDerive(Ik(ik), Spk(row.x), Eph(n), Otpk(memOtpk), ct)
  <1>1. /\ init = NoSession /\ sends < MaxSends /\ sends' = n /\ init' = m.sk
        /\ memOtpk' = None /\ memEk' = EkFor /\ wire' = wire \cup {m}
        /\ hellos' = hellos \cup {[hybrid |-> m.ct # Absent, offered |-> offered]}
        /\ UNCHANGED <<spk, kem, pqAware, fresh, loadable, known, waiting, resp, ik, row, answer,
                       restarts, regens, offered, spoiled, dropped>>
    BY DEF SendHello, responder
  <1>2. m = [n |-> n, eph |-> Eph(n), otpk |-> memOtpk, ct |-> ct, sk |-> sk]
    BY DEF Hello
  <1>3. m.n = n /\ m.eph = Eph(n) /\ m.otpk = memOtpk /\ m.ct = ct /\ m.sk = sk
    BY <1>2
  <1>4. sk # NoSession
    BY DEF InitiatorDerive, DeriveSharedSecret, NoSession
  <1>5. row.ek # None => ct # Absent
    BY DEF EkFor, PqEncapsulate, Absent
  <1>6. Pending = {} /\ resp = NoSession
    BY <1>1 DEF IndInv, OneSession, SecretsAgree
  <1>7. EkFor \in 0 .. kem
    BY DEF EkFor, IndInv, TypeOK
  <1> HIDE DEF n, ct, m, sk
  <1>8. Pending' = {m}
    BY <1>1, <1>6 DEF Pending
  <1>9. OneSession' /\ HellosServed' /\ SecretsAgree'
    BY <1>1, <1>3, <1>4, <1>6, <1>8
    DEF IndInv, TypeOK, OneSession, HellosServed, SecretsAgree
  <1>10. HellosDerived'
    BY <1>3, <1>8 DEF HellosDerived, sk
  <1>11. KeysCounted' /\ RowTyped' /\ AnswerTyped' /\ OfferKept'
    BY <1>1 DEF IndInv, KeysCounted, RowTyped, AnswerTyped, OfferKept
  <1>12. StaysHybrid'
    <2> SUFFICES ASSUME ~spoiled, NEW h \in hellos', h.offered
                 PROVE  h.hybrid
      BY <1>1 DEF StaysHybrid
    <2>1. CASE h \in hellos
      BY <2>1 DEF IndInv, StaysHybrid
    <2>2. CASE h = [hybrid |-> m.ct # Absent, offered |-> offered]
      BY <1>3, <1>5, <2>2 DEF IndInv, OfferKept
    <2> QED
      BY <1>1, <2>1, <2>2
  <1>13. TypeOK'
    <2>1. n \in 0 .. MaxSends /\ n \in 1 .. n
      BY <1>1, FirstContactAssumption DEF IndInv, TypeOK, n
    <2>2. None \in (0 .. OtpkCount) \ fresh
      BY FirstContactAssumption DEF None, IndInv, TypeOK
    <2>3. \A h \in (wire \cup waiting)' : h.n \in 1 .. sends'
      BY <1>1, <1>3, <1>8, <2>1 DEF Pending
    <2> QED
      BY <1>1, <1>7, <2>1, <2>2, <2>3 DEF IndInv, TypeOK
  <1> QED
    BY <1>9, <1>10, <1>11, <1>12, <1>13 DEF IndInv

LEMMA SendMorePreserves ==
    ASSUME IndInv, SendMore
    PROVE  IndInv'
  <1> DEFINE m == Follow(sends + 1)
  <1>1. /\ init # NoSession /\ sends < MaxSends /\ sends' = sends + 1 /\ wire' = wire \cup {m}
        /\ UNCHANGED <<spk, kem, pqAware, fresh, loadable, known, waiting, resp, ik, row, memEk,
                       memOtpk, init, answer, restarts, regens, offered, spoiled, hellos, dropped>>
    BY DEF SendMore, responder, initiator, history
  <1>2. m.n = sends + 1 /\ m.eph = Absent /\ m.otpk = None /\ m.sk = init
    BY DEF Follow
  <1> HIDE DEF m
  <1>3. None \notin fresh /\ sends' \in Nat /\ sends <= sends' /\ sends' <= MaxSends
        /\ sends + 1 \in 1 .. sends' /\ restarts \in 0 .. MaxRestarts
    BY <1>1, FirstContactAssumption DEF None, IndInv, TypeOK
  <1>4. \A h \in Pending' : h \in Pending \/ h = m
    BY <1>1 DEF Pending
  <1>5. TypeOK' /\ KeysCounted' /\ RowTyped' /\ AnswerTyped' /\ HellosServed'
    BY <1>1, <1>2, <1>3, <1>4, Others
  <1>6. OneSession' /\ HellosDerived'
    BY <1>1, <1>2, <1>4 DEF IndInv, OneSession, HellosDerived
  <1>7. SecretsAgree' /\ OfferKept' /\ StaysHybrid'
    BY <1>1 DEF IndInv, SecretsAgree, OfferKept, StaysHybrid
  <1> QED
    BY <1>5, <1>6, <1>7 DEF IndInv

-----------------------------------------------------------------------------
(* A step of the responder's that takes or drops messages.                 *)
LEMMA MessagesTaken ==
    ASSUME IndInv,
           UNCHANGED <<spk, kem, fresh, loadable, known, ik, row, memEk, memOtpk, init,
                       sends, regens, offered, spoiled, hellos>>,
           answer' \in {answer, NoAnswer}, Pending' \subseteq Pending, resp' = resp,
           restarts' \in 0 .. MaxRestarts
    PROVE  IndInv'
  <1>1. sends \in Nat /\ sends <= sends /\ sends <= MaxSends
    BY FirstContactAssumption DEF IndInv, TypeOK
  <1>2. TypeOK' /\ KeysCounted' /\ RowTyped' /\ AnswerTyped' /\ HellosServed'
    BY <1>1, Others
  <1>3. OneSession' /\ HellosDerived' /\ SecretsAgree' /\ OfferKept' /\ StaysHybrid'
    BY DEF IndInv, OneSession, HellosDerived, SecretsAgree, OfferKept, StaysHybrid
  <1> QED
    BY <1>2, <1>3 DEF IndInv

(* bootstrap_responder_and_decrypt on a pending hello.                     *)
LEMMA BootstrapPreserves ==
    ASSUME IndInv, NEW m \in Pending, NEW k, Bootstrap(m, k),
           UNCHANGED <<spk, kem, fresh, ik, row, memEk, memOtpk, init, answer,
                       sends, restarts, regens, offered, spoiled, hellos>>,
           Pending' \subseteq Pending, known' \in 0 .. ik
    PROVE  IndInv'
  <1>1. resp' = resp \/ resp' = m.sk
    BY DEF Bootstrap
  <1>2. loadable' \subseteq loadable /\ fresh \subseteq loadable'
    BY DEF Bootstrap, IndInv, TypeOK, HellosServed
  <1>3. SecretsAgree'
    BY <1>1 DEF IndInv, OneSession, SecretsAgree
  <1>4. KeysCounted' /\ RowTyped' /\ AnswerTyped' /\ OneSession' /\ HellosServed' /\ HellosDerived'
        /\ OfferKept' /\ StaysHybrid'
    BY DEF IndInv, KeysCounted, RowTyped, AnswerTyped, OneSession, HellosServed, HellosDerived,
           OfferKept, StaysHybrid
  <1>5. TypeOK'
    BY <1>2 DEF IndInv, TypeOK, Pending
  <1> QED
    BY <1>3, <1>4, <1>5 DEF IndInv

LEMMA ReceivePreserves ==
    ASSUME IndInv, NEW m \in wire,
           \/ ReceiveInSession(m) \/ ReceiveDropped(m)
           \/ ReceiveHello(m) \/ ReceiveHelloQueued(m) \/ Lose(m)
    PROVE  IndInv'
  <1>1. restarts \in 0 .. MaxRestarts /\ known \in 0 .. ik
    BY DEF IndInv, TypeOK
  <1>2. CASE ReceiveHello(m)
    BY <1>1, <1>2, BootstrapPreserves DEF ReceiveHello, Received, Pending, initiator
  <1>3. CASE ReceiveInSession(m) \/ ReceiveDropped(m) \/ ReceiveHelloQueued(m) \/ Lose(m)
    <2>1. /\ UNCHANGED <<spk, kem, fresh, loadable, known, ik, row, memEk, memOtpk, init, answer, resp,
                       sends, restarts, regens, offered, spoiled, hellos>>
          /\ wire' = wire \ {m} /\ waiting' \subseteq waiting \cup {m}
      BY <1>3
      DEF ReceiveInSession, ReceiveDropped, ReceiveHelloQueued, Lose, Received, responder, initiator,
          history
    <2>2. Pending' \subseteq Pending
      BY <2>1 DEF Pending
    <2> QED
      BY <1>1, <2>1, <2>2, MessagesTaken
  <1> QED
    BY <1>2, <1>3

LEMMA LearnInitiatorPreserves ==
    ASSUME IndInv, LearnInitiator
    PROVE  IndInv'
  <1>1. PICK m \in waiting : waiting' = waiting \ {m} /\ Bootstrap(m, ik)
    BY DEF LearnInitiator
  <1>2. /\ UNCHANGED <<spk, kem, fresh, ik, row, memEk, memOtpk, init, answer, wire,
                       sends, restarts, regens, offered, spoiled, hellos>>
        /\ known' = ik
    BY DEF LearnInitiator, initiator, history
  <1>3. m \in Pending /\ Pending' \subseteq Pending
    BY <1>1, <1>2 DEF Pending
  <1>4. ik \in 0 .. ik
    BY DEF IndInv, KeysCounted
  <1> QED
    BY <1>1, <1>2, <1>3, <1>4, BootstrapPreserves

LEMMA RestartResponderPreserves ==
    ASSUME IndInv, RestartResponder
    PROVE  IndInv'
  <1>1. /\ UNCHANGED <<spk, kem, fresh, loadable, known, ik, row, memEk, memOtpk, init, answer, resp,
                       wire, sends, regens, offered, spoiled, hellos>>
        /\ restarts' \in 0 .. MaxRestarts /\ waiting' = {}
    BY FirstContactAssumption DEF RestartResponder, initiator, history, IndInv, TypeOK
  <1>2. Pending' \subseteq Pending
    BY <1>1 DEF Pending
  <1> QED
    BY <1>1, <1>2, MessagesTaken

-----------------------------------------------------------------------------
LEMMA InitHolds == Init => IndInv
  <1> SUFFICES ASSUME Init PROVE IndInv
    OBVIOUS
  <1>1. TypeOK
    BY FirstContactAssumption DEF Init, TypeOK, None
  <1>2. KeysCounted /\ RowTyped /\ AnswerTyped
    BY FirstContactAssumption DEF Init, KeysCounted, RowTyped, AnswerTyped, None
  <1>3. OneSession /\ HellosServed /\ HellosDerived /\ SecretsAgree /\ OfferKept /\ StaysHybrid
    BY DEF Init, OneSession, HellosServed, HellosDerived, SecretsAgree, OfferKept, StaysHybrid, Pending
  <1> QED
    BY <1>1, <1>2, <1>3 DEF IndInv

LEMMA NextPreserves == IndInv /\ [Next]_vars => IndInv'
  <1> SUFFICES ASSUME IndInv, [Next]_vars PROVE IndInv'
    OBVIOUS
  <1>1. ASSUME NEW attach \in BOOLEAN, AnswerPrekey(attach) PROVE IndInv'
    BY <1>1, AnswerPrekeyPreserves
  <1>2. ASSUME NEW saved \in BOOLEAN, NEW savedPq \in BOOLEAN, ReceivePrekey(saved, savedPq)
        PROVE  IndInv'
    BY <1>2, ReceivePrekeyPreserves
  <1>3. CASE AnswerLost \/ RestartInitiator
    BY <1>3, ForgettingPreserves
  <1>4. CASE CrashInReceivePrekey
    BY <1>4, CrashInReceivePrekeyPreserves
  <1>5. CASE SendHello
    BY <1>5, SendHelloPreserves
  <1>6. CASE SendMore
    BY <1>6, SendMorePreserves
  <1>7. CASE RegenerateIk
    BY <1>7, RegenerateIkPreserves
  <1>8. ASSUME NEW m \in wire,
               \/ ReceiveInSession(m) \/ ReceiveDropped(m)
               \/ ReceiveHello(m) \/ ReceiveHelloQueued(m) \/ Lose(m)
        PROVE  IndInv'
    BY <1>8, ReceivePreserves
  <1>9. CASE LearnInitiator
    BY <1>9, LearnInitiatorPreserves
  <1>10. CASE RestartResponder
    BY <1>10, RestartResponderPreserves
  <1>11. CASE RegenerateSpk \/ RegenerateKem
    BY <1>11, ResponderKeysPreserve
  <1>12. CASE UNCHANGED vars
    <2>1. UNCHANGED <<spk, kem, fresh, loadable, known, ik, row, memEk, memOtpk, init, answer, resp,
                      wire, waiting, sends, restarts, regens, offered, spoiled, hellos>>
      BY <1>12 DEF vars, responder, initiator, history
    <2>2. Pending' \subseteq Pending /\ restarts \in 0 .. MaxRestarts
      BY <2>1 DEF Pending, IndInv, TypeOK
    <2> QED
      BY <2>1, <2>2, MessagesTaken
  <1> QED
    BY <1>1, <1>2, <1>3, <1>4, <1>5, <1>6, <1>7, <1>8, <1>9, <1>10, <1>11, <1>12 DEF Next

LEMMA IndInvHolds == Spec => []IndInv
  BY InitHolds, NextPreserves, PTL DEF Spec

(* Rows, caches and versions are well formed, and a session the responder  *)
(* keeps has the initiator's secret, whatever was stale, lost or overtaken *)
(* (bootstrap_responder_and_decrypt keeps nothing that did not open).      *)
THEOREM SessionsAgree == Spec => []SecretsSound
  <1>1. IndInv => SecretsSound
    BY DEF IndInv, SecretsSound
  <1> QED
    BY <1>1, IndInvHolds, PTL

(* Whichever of the four variants build_x3dh_hello took, the responder     *)
(* derives the same secret from the message, as long as the keys it was    *)
(* made from are the current ones.                                         *)
THEOREM VariantsMatch == Spec => []HelloOpens
  BY IndInvHolds, HellosOpen, PTL

(* An ML-KEM key that was offered and written is used by every later       *)
(* hello: restarts, routine refreshes and replaced keys do not downgrade.  *)
THEOREM NoDowngrade == Spec => []StaysHybrid
  <1>1. IndInv => StaysHybrid
    BY DEF IndInv
  <1> QED
    BY <1>1, IndInvHolds, PTL
=============================================================================
