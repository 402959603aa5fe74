---------------------------- MODULE MCScramble ----------------------------
(* Bounds for Scramble: the dialer writes enough for a frame of two quanta *)
(* and a split write, the listener answers with little.                    *)
EXTENDS Scramble

MCMaxBytes == [dialer |-> 5, listener |-> 1]
=============================================================================
