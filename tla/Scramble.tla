------------------------------ MODULE Scramble ------------------------------
(***************************************************************************)
(* One obfuscated connection (src/network/scramble.rs): the hidden         *)
(* handshake, then a ScrambleStream at each end.                           *)
(*                                                                         *)
(* ChaCha20 is symbolic: a scrambled byte is the plain byte together with  *)
(* the keystream position it was XORed with, and descrambling it at any    *)
(* other position or under another key yields a different byte.  Caller    *)
(* bytes are numbered per direction, starting from 1; pad bytes are 0.     *)
(*                                                                         *)
(* The two ends run concurrently, and a poll loop talks to the socket once *)
(* per iteration, so one iteration of poll_read or drain_pending is one    *)
(* action: between two of them the other end may move, and every state     *)
(* between two is also one that Poll::Pending leaves behind.  The socket   *)
(* accepts any prefix of what it is offered and returns any prefix of what *)
(* it holds.  The 32 bytes of a representative travel as one token.        *)
(***************************************************************************)
EXTENDS Integers, Sequences

CONSTANTS Quantum,          \* FRAME_QUANTUM
          QuantaPerFrame,   \* MAX_PENDING_BYTES / FRAME_QUANTUM
          Jitter,           \* is jitter_max_ms set?
          Capacity,         \* bound: bytes the socket holds per direction
          MaxBytes          \* bound: MaxBytes[s], caller bytes written by s

Sides == {"dialer", "listener"}
Other(s) == IF s = "dialer" THEN "listener" ELSE "dialer"

ASSUME ScrambleAssumption ==
    /\ Quantum \in Nat /\ Quantum > 2 /\ QuantaPerFrame \in Nat \ {0}
    /\ Jitter \in BOOLEAN /\ Capacity \in Nat \ {0}
    /\ MaxBytes \in [Sides -> Nat]

VARIABLES phase,      \* phase[s]: "start", "half" or "done" with the handshake
          theirs,     \* theirs[s]: the ephemeral s has read
          pending,    \* pending[s]: scrambled bytes the socket has not taken
          outPos,     \* outPos[s], inPos[s]: keystream bytes used so far
          inPos,
          reader,     \* reader[s]: the ReadState of s
          sleeping,   \* sleeping[s]: a jitter sleep is in progress
          wire,       \* wire[s]: what the socket holds of s's bytes
          writing,    \* writing[s]: "open", "closed", or "failed" on an I/O error
          accepted,   \* accepted[s]: bytes poll_write has reported as taken
          delivered,  \* delivered[s]: the bytes s's poll_read has returned
          eof,        \* eof[s]: "none", "clean" or "truncated", as s saw it
          pads        \* history: <<key, position, byte>> of every XOR done

vars == <<phase, theirs, pending, outPos, inPos, reader, sleeping, wire, writing,
          accepted, delivered, eof, pads>>

MaxPendingBytes == QuantaPerFrame * Quantum
(* Mutant of MaxPayloadPerFrame: no room is left for the header.           *)
MaxPayloadWithoutHeader == MaxPendingBytes

MaxPayloadPerFrame == MaxPendingBytes - 2

LeastOf(a, b) == IF a <= b THEN a ELSE b
Prefix(q, n) == SubSeq(q, 1, n)
Rest(q, n) == SubSeq(q, n + 1, Len(q))

-----------------------------------------------------------------------------
(* Keystreams.                                                             *)

(* derive_ntor_keystream_pairs: one key per direction from the DH of the   *)
(* two ephemerals.                                                         *)
DirectionKey(dh, role) == [dh |-> dh, dir |-> role]

OutKey(s) == DirectionKey({s, theirs[s]}, s)
InKey(s) == DirectionKey({s, theirs[s]}, Other(s))

Scrambled(key, pos, plain) ==
    [i \in DOMAIN plain |-> [v |-> plain[i], key |-> key, pos |-> pos + i]]

Descrambled(key, pos, bytes) ==
    [i \in DOMAIN bytes |->
        IF bytes[i].key = key /\ bytes[i].pos = pos + i THEN bytes[i].v
        ELSE (bytes[i].v + 1) % 256]

-----------------------------------------------------------------------------
(* scramble_handshake: the dialer writes first and then reads, the         *)
(* listener reads first and then writes.                                   *)

Representative(s) == [rep |-> s]

WritesNow(s) == phase[s] = IF s = "dialer" THEN "start" ELSE "half"
ReadsNow(s) == phase[s] = IF s = "dialer" THEN "half" ELSE "start"
NextPhase(s) == [phase EXCEPT ![s] = IF @ = "start" THEN "half" ELSE "done"]

SendRepresentative(s) ==
    /\ WritesNow(s) /\ writing[s] = "open"
    /\ wire' = [wire EXCEPT ![s] = Append(@, Representative(s))]
    /\ phase' = NextPhase(s)
    /\ UNCHANGED <<theirs, pending, outPos, inPos, reader, sleeping, writing,
                   accepted, delivered, eof, pads>>

ReadRepresentative(s) ==
    /\ ReadsNow(s) /\ wire[Other(s)] # << >> /\ writing[s] = "open"
    /\ theirs' = [theirs EXCEPT ![s] = Head(wire[Other(s)]).rep]
    /\ wire' = [wire EXCEPT ![Other(s)] = Tail(@)]
    /\ phase' = NextPhase(s)
    /\ UNCHANGED <<pending, outPos, inPos, reader, sleeping, writing,
                   accepted, delivered, eof, pads>>

-----------------------------------------------------------------------------
(* The write side.                                                         *)

PaddedFrameSize(total) == ((total + Quantum - 1) \div Quantum) * Quantum

CanWrite(s) == phase[s] = "done" /\ writing[s] = "open"
Room(s) == Capacity - Len(wire[s])

(* Mutant of Drained: poll_write and poll_close do not drain first.        *)
DrainedUnchecked(s) == CanWrite(s)

(* poll_write and poll_close go on only once drain_pending is through.     *)
Drained(s) == CanWrite(s) /\ pending[s] = << >>

(* Mutant of Parked: what the socket does not take is lost.                *)
ParkedNothing(bytes, n) == << >>

(* What stays in pending of bytes of which the socket took n.              *)
Parked(bytes, n) == Rest(bytes, n)

(* The header is the length as a big-endian u16, the pad is zero.          *)
Frame(s, len) ==
    << len \div 256, len % 256 >>
    \o [i \in 1 .. len |-> accepted[s] + i]
    \o [i \in 1 .. PaddedFrameSize(2 + len) - (2 + len) |-> 0]

(* poll_write once pending is drained and any jitter sleep is over: one    *)
(* frame of the caller's buf, of which the socket takes n bytes (0 stands  *)
(* for Pending too); the rest is parked.                                   *)
WriteFrame(s, buf, n) ==
    LET len == LeastOf(buf, MaxPayloadPerFrame)
        plain == Frame(s, len)
        bytes == Scrambled(OutKey(s), outPos[s], plain)
    IN  /\ Drained(s)
        /\ accepted[s] + buf <= MaxBytes[s]
        /\ n <= LeastOf(Len(bytes), Room(s))
        /\ outPos' = [outPos EXCEPT ![s] = @ + Len(bytes)]
        /\ wire' = [wire EXCEPT ![s] = @ \o Prefix(bytes, n)]
        /\ pending' = [pending EXCEPT ![s] = Parked(bytes, n)]
        /\ accepted' = [accepted EXCEPT ![s] = @ + len]
        /\ sleeping' = [sleeping EXCEPT ![s] = FALSE]
        /\ pads' = pads \cup {<<bytes[i].key, bytes[i].pos, <<s, plain[i]>> >> :
                                i \in DOMAIN bytes}
        /\ UNCHANGED <<phase, theirs, inPos, reader, writing, delivered, eof>>

(* poll_write rolls a delay that is not over at once, and returns Pending. *)
StartJitter(s) ==
    /\ Jitter /\ Drained(s) /\ ~sleeping[s]
    /\ accepted[s] < MaxBytes[s]
    /\ sleeping' = [sleeping EXCEPT ![s] = TRUE]
    /\ UNCHANGED <<phase, theirs, pending, outPos, inPos, reader, wire, writing,
                   accepted, delivered, eof, pads>>

(* An iteration of drain_pending, from poll_write, poll_flush, poll_close. *)
DrainPending(s, n) ==
    /\ CanWrite(s) /\ n <= LeastOf(Len(pending[s]), Room(s))
    /\ wire' = [wire EXCEPT ![s] = @ \o Prefix(pending[s], n)]
    /\ pending' = [pending EXCEPT ![s] = Parked(@, n)]
    /\ UNCHANGED <<phase, theirs, outPos, inPos, reader, sleeping, writing,
                   accepted, delivered, eof, pads>>

(* poll_close once pending is drained.                                     *)
Close(s) ==
    /\ Drained(s)
    /\ writing' = [writing EXCEPT ![s] = "closed"]
    /\ UNCHANGED <<phase, theirs, pending, outPos, inPos, reader, sleeping, wire,
                   accepted, delivered, eof, pads>>

(* A write fails (WriteZero included) or the connection is dropped: the    *)
(* caller gets the error and writes no more; what is parked is lost.       *)
Fail(s) ==
    /\ writing[s] = "open"
    /\ writing' = [writing EXCEPT ![s] = "failed"]
    /\ UNCHANGED <<phase, theirs, pending, outPos, inPos, reader, sleeping, wire,
                   accepted, delivered, eof, pads>>

-----------------------------------------------------------------------------
(* The read side: iterations of poll_read.                                 *)

NeedHeader(partial) == [partial |-> partial, payload |-> 0, pad |-> 0]

(* Mutant of InBody: the pad of the payload alone.                         *)
InBodyPadOfPayload(len) ==
    [partial |-> << >>, payload |-> len, pad |-> PaddedFrameSize(len) - len]

InBody(len) ==
    [partial |-> << >>, payload |-> len, pad |-> PaddedFrameSize(2 + len) - (2 + len)]

InHeader(s) == reader[s].payload = 0 /\ reader[s].pad = 0
CanRead(s) == phase[s] = "done" /\ eof[s] = "none"

(* n bytes leave the socket and advance the in-cipher.                     *)
Take(s, n) ==
    /\ n <= Len(wire[Other(s)])
    /\ wire' = [wire EXCEPT ![Other(s)] = Rest(@, n)]
    /\ inPos' = [inPos EXCEPT ![s] = @ + n]

Taken(s, n) == Descrambled(InKey(s), inPos[s], Prefix(wire[Other(s)], n))

(* The header arm; the second header byte opens the body.                  *)
ReadHeader(s, n) ==
    LET partial == reader[s].partial \o Taken(s, n) IN
    /\ CanRead(s) /\ InHeader(s)
    /\ n <= 2 - Len(reader[s].partial)
    /\ Take(s, n)
    /\ reader' = [reader EXCEPT ![s] =
                    IF Len(partial) = 2 THEN InBody(256 * partial[1] + partial[2])
                    ELSE NeedHeader(partial)]
    /\ UNCHANGED <<phase, theirs, pending, outPos, sleeping, writing, accepted,
                   delivered, eof, pads>>

(* Payload goes to the caller's buffer of size buf.                        *)
ReadPayload(s, buf, n) ==
    /\ CanRead(s) /\ n <= LeastOf(buf, reader[s].payload)
    /\ Take(s, n)
    /\ delivered' = [delivered EXCEPT ![s] = @ \o Taken(s, n)]
    /\ reader' = [reader EXCEPT ![s].payload = @ - n]
    /\ UNCHANGED <<phase, theirs, pending, outPos, sleeping, writing, accepted, eof, pads>>

(* Pad is descrambled and discarded; after its last byte comes a header.   *)
ReadPad(s, n) ==
    /\ CanRead(s) /\ reader[s].payload = 0 /\ n <= reader[s].pad
    /\ Take(s, n)
    /\ reader' = [reader EXCEPT ![s].pad = @ - n]
    /\ UNCHANGED <<phase, theirs, pending, outPos, sleeping, writing, accepted,
                   delivered, eof, pads>>

(* The socket returns Ok(0): clean only at a frame boundary.               *)
ReadEof(s) ==
    /\ CanRead(s) /\ wire[Other(s)] = << >> /\ writing[Other(s)] # "open"
    /\ eof' = [eof EXCEPT ![s] =
                IF InHeader(s) /\ reader[s].partial = << >> THEN "clean" ELSE "truncated"]
    /\ UNCHANGED <<phase, theirs, pending, outPos, inPos, reader, sleeping, wire,
                   writing, accepted, delivered, pads>>

-----------------------------------------------------------------------------
Init ==
    /\ phase = [s \in Sides |-> "start"]
    /\ theirs = [s \in Sides |-> s]
    /\ pending = [s \in Sides |-> << >>]
    /\ outPos = [s \in Sides |-> 0]
    /\ inPos = [s \in Sides |-> 0]
    /\ reader = [s \in Sides |-> NeedHeader(<< >>)]
    /\ sleeping = [s \in Sides |-> FALSE]
    /\ wire = [s \in Sides |-> << >>]
    /\ writing = [s \in Sides |-> "open"]
    /\ accepted = [s \in Sides |-> 0]
    /\ delivered = [s \in Sides |-> << >>]
    /\ eof = [s \in Sides |-> "none"]
    /\ pads = {}

Reads(s) ==
    \E n \in 1 .. MaxPendingBytes :
        ReadHeader(s, n) \/ ReadPayload(s, MaxPendingBytes, n) \/ ReadPad(s, n)

Drains(s) == \E n \in 1 .. MaxPendingBytes : DrainPending(s, n)

Next ==
    \E s \in Sides :
        \/ SendRepresentative(s) \/ ReadRepresentative(s)
        \/ \E buf \in 1 .. MaxBytes[s], n \in 0 .. MaxPendingBytes : WriteFrame(s, buf, n)
        \/ StartJitter(s) \/ Drains(s) \/ Close(s) \/ Fail(s)
        \/ Reads(s) \/ ReadEof(s)

Spec == Init /\ [][Next]_vars

(* The sockets make progress, and both callers keep polling: yamux flushes *)
(* after it writes and always has a read outstanding.                      *)
Fairness ==
    \A s \in Sides :
        /\ WF_vars(SendRepresentative(s)) /\ WF_vars(ReadRepresentative(s))
        /\ WF_vars(Drains(s)) /\ WF_vars(Reads(s)) /\ WF_vars(ReadEof(s))

FairSpec == Spec /\ Fairness

-----------------------------------------------------------------------------
(* Types, and the arithmetic of the read state: the pad of a frame is less *)
(* than a quantum and the header is never more than two bytes.             *)
TypeOK ==
    \A s \in Sides :
        /\ phase[s] \in {"start", "half", "done"}
        /\ reader[s].payload \in 0 .. MaxPayloadPerFrame
        /\ reader[s].pad \in 0 .. Quantum - 1
        /\ Len(reader[s].partial) <= 1
        /\ Len(wire[s]) <= Capacity
        /\ accepted[s] \in 0 .. MaxBytes[s]
        /\ inPos[s] <= outPos[Other(s)]
        /\ writing[s] \in {"open", "closed", "failed"}
        /\ eof[s] \in {"none", "clean", "truncated"}

(* The debug_assert of poll_write and audit/INVARIANTS.md 17: pending      *)
(* never outgrows MAX_PENDING_BYTES, however little the socket takes.      *)
PendingBounded == \A s \in Sides : Len(pending[s]) <= MaxPendingBytes

(* The keystream is applied once per position and the two directions never *)
(* share one: no two bytes are XORed with the same keystream byte (F1).    *)
KeystreamUsedOnce == \A x, y \in pads : x[1] = y[1] /\ x[2] = y[2] => x = y

(* ReadState against the writer's framing: the reader knows a frame's pad  *)
(* from its header alone, so its keystream stays with the writer's: what   *)
(* is taken, in the socket and parked adds up to what was scrambled, and a *)
(* reader between frames is at a frame boundary of the writer.             *)
Lockstep ==
    \A s \in Sides :
        phase["dialer"] = "done" /\ phase["listener"] = "done" =>
            /\ inPos[Other(s)] + Len(wire[s]) + Len(pending[s]) = outPos[s]
            /\ InHeader(Other(s)) =>
                (inPos[Other(s)] - Len(reader[Other(s)].partial)) % Quantum = 0

(* The ciphers of both directions: apart from each other, and each in step *)
(* with its reader.                                                        *)
KeystreamsSound == KeystreamUsedOnce /\ Lockstep

(* poll_read and poll_write implement a reliable pipe of bytes in each     *)
(* direction, and a clean end of file is reported only after every byte    *)
(* that was accepted, unless the writer was told of an error.              *)
Garbled(s) == \E i \in DOMAIN delivered[Other(s)] : delivered[Other(s)][i] # i

Pipe == INSTANCE BytePipe WITH
    sent <- accepted,
    got <- [s \in Sides |-> IF Garbled(s) THEN -1 ELSE Len(delivered[Other(s)])],
    ended <- [s \in Sides |-> eof[Other(s)] = "clean" /\ writing[s] # "failed"]

ImplementsBytePipe == Pipe!Spec

(* poll_read's two kinds of end of file: an UnexpectedEof means that the   *)
(* writer failed, never that a frame was parsed wrongly.                   *)
TruncationMeansFailure ==
    \A s \in Sides : eof[s] = "truncated" => writing[Other(s)] = "failed"

(* Both poll loops: types, a bounded pending buffer, and no end of file    *)
(* that a writer did not cause.                                            *)
FramesSound == TypeOK /\ PendingBounded /\ TruncationMeansFailure

(* poll_write may report bytes as taken that it has only parked.  As long  *)
(* as the caller flushes and neither end fails, they all arrive.           *)
AcceptedArrives ==
    \A s \in Sides : \A k \in 1 .. MaxBytes[s] :
        accepted[s] >= k ~>
            (\/ Len(delivered[Other(s)]) >= k
             \/ writing[s] = "failed" \/ writing[Other(s)] = "failed")
=============================================================================
