------------------------------- MODULE Megolm -------------------------------
(***************************************************************************)
(* The group sender chain of crypto/megolm.rs, symbolically.               *)
(*                                                                         *)
(* SenderChain::new draws a chain key and a signing key together; both are *)
(* named by one value, the chain.  The chain key after i steps is the pair *)
(* of chain and i: whoever holds it can derive every message key of the    *)
(* chain from i on and none before it.  The message key of index i is used *)
(* with a fixed nonce, so it opens exactly the message sealed at i of the  *)
(* same chain.  u32 indices do not wrap within the bounds checked.         *)
(***************************************************************************)
EXTENDS Naturals, FiniteSets

CONSTANT MaxSkip            \* MAX_SKIP

ASSUME MegolmAssumption == MaxSkip \in Nat

(* SenderChain::new, current_bundle, encrypt                               *)
NewSenderChain(c) == [chain |-> c, index |-> 0]
CurrentBundle(s) == [chain |-> s.chain, index |-> s.index]
Sealed(s) == [chain |-> s.chain, index |-> s.index]
AfterEncrypt(s) == [s EXCEPT !.index = @ + 1]

(* ReceiverChain::from_bundle.  The skipped queue is the set of indices    *)
(* whose keys it holds: they are distinct, and the queue is searched, not  *)
(* taken from its front (the eviction loop is behind the MAX_SKIP check    *)
(* and never runs).                                                        *)
FromBundle(b) == [chain |-> b.chain, next |-> b.index, skipped |-> {}]

(* The three outcomes of decrypt after a good signature: a cached key, a   *)
(* walk forward, or an error that leaves the stored chain as it was.       *)
Verifies(r, m) == m.chain = r.chain

TooManySkipped(r, m) == (m.index - r.next) + Cardinality(r.skipped) > MaxSkip

Decrypts(r, m) ==
    /\ Verifies(r, m)
    /\ \/ m.index < r.next /\ m.index \in r.skipped
       \/ m.index >= r.next /\ ~TooManySkipped(r, m)

(* Mutant: the walk forward drops the keys it passes.                      *)
AfterDecryptForgetful(r, m) ==
    IF m.index < r.next
      THEN [r EXCEPT !.skipped = @ \ {m.index}]
      ELSE [r EXCEPT !.next = m.index + 1]

AfterDecrypt(r, m) ==
    IF m.index < r.next
      THEN [r EXCEPT !.skipped = @ \ {m.index}]
      ELSE [r EXCEPT !.skipped = @ \cup (r.next .. (m.index - 1)),
                     !.next = m.index + 1]
=============================================================================
