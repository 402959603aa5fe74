------------------------------ MODULE BytePipe ------------------------------
(***************************************************************************)
(* What Noise and yamux expect of the stream under them: per direction, a  *)
(* reliable pipe of bytes.  Bytes are numbered in the order the writer     *)
(* hands them over, so the pipe's content is a pair of counters, and a     *)
(* read can only return the next byte.                                     *)
(***************************************************************************)
EXTENDS Naturals

CONSTANT Sides

VARIABLES sent,     \* sent[s]: bytes s has handed over
          got,      \* got[s]: bytes of s that the other side has read
          ended     \* ended[s]: s's direction has ended as a clean close

vars == <<sent, got, ended>>

Init ==
    /\ sent = [s \in Sides |-> 0]
    /\ got = [s \in Sides |-> 0]
    /\ ended = [s \in Sides |-> FALSE]

Write(s) ==
    /\ sent'[s] \in Nat /\ sent'[s] > sent[s]
    /\ sent' = [sent EXCEPT ![s] = sent'[s]]
    /\ UNCHANGED <<got, ended>>

Read(s) ==
    /\ \E k \in 1 .. sent[s] - got[s] : got' = [got EXCEPT ![s] = @ + k]
    /\ UNCHANGED <<sent, ended>>

(* A clean end is reported only when nothing was lost.                     *)
End(s) ==
    /\ got[s] = sent[s]
    /\ ended' = [ended EXCEPT ![s] = TRUE]
    /\ UNCHANGED <<sent, got>>

Next == \E s \in Sides : Write(s) \/ Read(s) \/ End(s)

Spec == Init /\ [][Next]_vars
=============================================================================
