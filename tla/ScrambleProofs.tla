--------------------------- MODULE ScrambleProofs ---------------------------
(***************************************************************************)
(* Proofs about Scramble, for any quantum, socket and number of bytes.     *)
(*                                                                         *)
(* The invariant knows the frames: to every keystream position of a        *)
(* direction it assigns the frame that the byte there belongs to (a        *)
(* "layout"; one more frame stands at the end for the one to come).  What  *)
(* is in the socket and parked is what the layout says, and the reader's   *)
(* state is the one that belongs to its position.                          *)
(***************************************************************************)
EXTENDS Scramble, SequenceTheorems, TLAPS

Key(s) == DirectionKey({s, Other(s)}, s)
Bytes == [v : Nat, key : {Key(s) : s \in Sides}, pos : Nat]
Items == Bytes \cup [rep : Sides]

(* A frame: keystream bytes and caller bytes before it, and its payload.   *)
FrameRecs == [start : Nat, len : Nat, base : Nat]
Size(f) == PaddedFrameSize(2 + f.len)
PlainByte(l, b, i) ==
    IF i = 1 THEN l \div 256
    ELSE IF i = 2 THEN l % 256
    ELSE IF i <= 2 + l THEN b + (i - 2) ELSE 0
PlainAt(f, i) == PlainByte(f.len, f.base, i)

ByteAt(s, lay, pos) ==
    [v |-> PlainAt(lay[pos], pos - lay[pos].start), key |-> Key(s), pos |-> pos]

(* The ReadState at offset off into frame f, and what of f is delivered.   *)
RdState(l, z, off) ==
    IF off = 0 THEN NeedHeader(<< >>)
    ELSE IF off = 1 THEN NeedHeader(<< l \div 256 >>)
    ELSE [partial |-> << >>,
          payload |-> IF off - 2 < l THEN l - (off - 2) ELSE 0,
          pad |-> IF off <= 2 + l THEN z - (2 + l) ELSE z - off]
DoneBytes(l, off) == IF off <= 2 THEN 0 ELSE IF off - 2 < l THEN off - 2 ELSE l

StateAt(f, off) == RdState(f.len, Size(f), off)
DoneAt(f, off) == DoneBytes(f.len, off)

Aligned(n) == \E k \in Nat : n = k * Quantum

(* The frame at a position, and the one that follows it.                   *)
FrameAt(lay, out, acc, pos) ==
    LET f == lay[pos]
        end == f.start + Size(f)
    IN  /\ f.len \in 1 .. MaxPayloadPerFrame
        /\ f.start < pos /\ pos <= end /\ end <= out
        /\ \A j \in f.start + 1 .. end : lay[j] = f
        /\ lay[end + 1].start = end /\ lay[end + 1].base = f.base + f.len
        /\ f.base + f.len <= acc

Chain(lay, out, acc) ==
    /\ lay \in [1 .. out + 1 -> FrameRecs]
    /\ lay[out + 1].start = out /\ lay[out + 1].base = acc
    /\ \A pos \in 1 .. out : FrameAt(lay, out, acc, pos)
    /\ \A pos \in 1 .. out + 1 : Aligned(lay[pos].start)

(* w, after h handshake tokens, and p hold the bytes from in to out.       *)
Content(s, lay, h, out, in, w, p) ==
    /\ Len(w) >= h /\ in + (Len(w) - h) + Len(p) = out
    /\ \A j \in 1 .. Len(w) - h : w[h + j] = ByteAt(s, lay, in + j)
    /\ \A j \in 1 .. Len(p) : p[j] = ByteAt(s, lay, out - Len(p) + j)

Counts(del) == \A i \in 1 .. Len(del) : del[i] = i

Reading(f, off, rd, del) ==
    rd = StateAt(f, off) /\ Len(del) = f.base + DoneAt(f, off) /\ Counts(del)

ReaderAt(lay, in, rd, del) == Reading(lay[in + 1], in - lay[in + 1].start, rd, del)

Good(s, lay, h, out, in, w, p, rd, acc, del) ==
    Chain(lay, out, acc) /\ Content(s, lay, h, out, in, w, p) /\ ReaderAt(lay, in, rd, del)

-----------------------------------------------------------------------------
(* Arithmetic of frames.                                                   *)
LEMMA SizeBounds ==
    ASSUME NEW len \in 1 .. MaxPayloadPerFrame
    PROVE  LET z == PaddedFrameSize(2 + len) IN
           /\ z \in Nat /\ 2 + len <= z /\ z < 2 + len + Quantum /\ z <= MaxPendingBytes /\ Aligned(z)
  <1> DEFINE a == 2 + len + Quantum - 1
             k == a \div Quantum
             r == a % Quantum
  <1>1. Quantum \in Nat /\ Quantum > 2 /\ QuantaPerFrame \in Nat /\ MaxPendingBytes \in Nat
        /\ len \in Nat /\ 2 + len <= MaxPendingBytes /\ MaxPendingBytes = QuantaPerFrame * Quantum
    BY ScrambleAssumption DEF MaxPayloadPerFrame, MaxPendingBytes
  <1>2. a \in Nat /\ k \in Nat /\ r \in 0 .. Quantum - 1 /\ a = Quantum * k + r
    BY <1>1
  <1>3. PaddedFrameSize(2 + len) = k * Quantum
    BY DEF PaddedFrameSize
  <1>4. k * Quantum \in Nat /\ Quantum * k = k * Quantum
    BY <1>1, <1>2
  <1> HIDE DEF k, r
  <1>5. 2 + len <= k * Quantum /\ k * Quantum < 2 + len + Quantum
    BY <1>1, <1>2, <1>4
  <1>6. k <= QuantaPerFrame
    <2> SUFFICES ASSUME k > QuantaPerFrame PROVE FALSE
      BY <1>1, <1>2
    <2>1. QuantaPerFrame * Quantum + Quantum <= k * Quantum
      BY <1>1, <1>2
    <2> QED
      BY <1>1, <1>4, <1>5, <2>1
  <1>7. k * Quantum <= QuantaPerFrame * Quantum
    BY <1>1, <1>2, <1>6
  <1> QED
    BY <1>1, <1>2, <1>3, <1>4, <1>5, <1>7 DEF Aligned

LEMMA AlignedSum ==
    ASSUME NEW a \in Nat, NEW b \in Nat, Aligned(a), Aligned(b)
    PROVE  Aligned(a + b)
  <1>1. PICK k \in Nat : a = k * Quantum
    BY DEF Aligned
  <1>2. PICK m \in Nat : b = m * Quantum
    BY DEF Aligned
  <1>3. k * Quantum + m * Quantum = (k + m) * Quantum /\ k + m \in Nat
    BY ScrambleAssumption
  <1> QED
    BY <1>1, <1>2, <1>3 DEF Aligned

LEMMA AlignedMod == ASSUME NEW a \in Nat, Aligned(a) PROVE a % Quantum = 0
  <1>1. PICK k \in Nat : a = k * Quantum
    BY DEF Aligned
  <1>2. (k * Quantum) % Quantum = 0
    BY ScrambleAssumption
  <1> QED
    BY <1>1, <1>2

LEMMA PayloadRoom == MaxPayloadPerFrame \in Nat /\ MaxPayloadPerFrame >= 1 /\ MaxPendingBytes \in Nat
  <1>1. \A q, m \in Nat : q > 2 /\ m # 0 => m * q \in Nat /\ m * q >= 3
    OBVIOUS
  <1> QED
    BY <1>1, ScrambleAssumption DEF MaxPayloadPerFrame, MaxPendingBytes

(* Prefix and Rest of what a socket is offered.                            *)
LEMMA Split ==
    ASSUME NEW S, NEW q \in Seq(S), NEW n \in 0 .. Len(q)
    PROVE  /\ Prefix(q, n) \in Seq(S) /\ Len(Prefix(q, n)) = n /\ \A j \in 1 .. n : Prefix(q, n)[j] = q[j]
           /\ Rest(q, n) \in Seq(S) /\ Len(Rest(q, n)) = Len(q) - n
           /\ \A j \in 1 .. Len(q) - n : Rest(q, n)[j] = q[n + j]
  <1>1. Len(q) \in Nat /\ n \in Nat /\ n <= Len(q)
    OBVIOUS
  <1>2. Prefix(q, n) \in Seq(S) /\ Len(Prefix(q, n)) = n /\ \A j \in 1 .. n : Prefix(q, n)[j] = q[j]
    BY <1>1, SubSeqProperties DEF Prefix
  <1>3. Rest(q, n) \in Seq(S) /\ Len(Rest(q, n)) = Len(q) - n
        /\ \A j \in 1 .. Len(q) - n : Rest(q, n)[j] = q[n + j]
    BY <1>1, SubSeqProperties DEF Rest
  <1> QED
    BY <1>2, <1>3

-----------------------------------------------------------------------------
(* drain_pending moves bytes from the parked ones to the socket.           *)
LEMMA DrainContent ==
    ASSUME NEW s, NEW lay, NEW h \in Nat, NEW out \in Nat, NEW in \in Nat,
           NEW w \in Seq(Items), NEW p \in Seq(Items), NEW n \in 0 .. Len(p),
           Content(s, lay, h, out, in, w, p)
    PROVE  Content(s, lay, h, out, in, w \o Prefix(p, n), Rest(p, n))
  <1> DEFINE a == Prefix(p, n)
             r == Rest(p, n)
             v == w \o a
  <1>1. Len(w) \in Nat /\ Len(p) \in Nat /\ n \in Nat /\ n <= Len(p)
    OBVIOUS
  <1>2. a \in Seq(Items) /\ Len(a) = n /\ \A j \in 1 .. n : a[j] = p[j]
    BY Split
  <1>3. r \in Seq(Items) /\ Len(r) = Len(p) - n /\ \A j \in 1 .. Len(p) - n : r[j] = p[n + j]
    BY Split
  <1> HIDE DEF a, r
  <1>4. /\ v \in Seq(Items) /\ Len(v) = Len(w) + n
        /\ \A j \in 1 .. Len(w) + n : v[j] = IF j <= Len(w) THEN w[j] ELSE a[j - Len(w)]
    BY <1>2, ConcatProperties
  <1> HIDE DEF v
  <1>5. /\ Len(w) >= h /\ in + (Len(w) - h) + Len(p) = out
        /\ \A j \in 1 .. Len(w) - h : w[h + j] = ByteAt(s, lay, in + j)
        /\ \A j \in 1 .. Len(p) : p[j] = ByteAt(s, lay, out - Len(p) + j)
    BY DEF Content
  <1>l. /\ Len(w) >= h /\ in + (Len(w) - h) + Len(p) = out
        /\ Len(v) = Len(w) + n /\ Len(r) = Len(p) - n
    BY <1>3, <1>4, <1>5
  <1>6. Len(v) >= h /\ in + (Len(v) - h) + Len(r) = out
    BY <1>1, <1>l
  <1>7. ASSUME NEW j \in 1 .. Len(v) - h
        PROVE  v[h + j] = ByteAt(s, lay, in + j)
    <2>1. CASE h + j <= Len(w)
      <3>1. j \in 1 .. Len(w) - h /\ h + j \in 1 .. Len(w) + n
        BY <1>1, <1>4, <2>1
      <3> QED
        BY <1>4, <1>5, <2>1, <3>1
    <2>2. CASE ~(h + j <= Len(w))
      <3> DEFINE i == h + j - Len(w)
      <3>1. i \in 1 .. n /\ i \in 1 .. Len(p) /\ h + j \in 1 .. Len(w) + n /\ out - Len(p) + i = in + j
        BY <1>1, <1>l, <2>2
      <3>2. v[h + j] = a[i]
        BY <1>4, <2>2, <3>1
      <3> HIDE DEF i
      <3>3. a[i] = p[i] /\ p[i] = ByteAt(s, lay, out - Len(p) + i)
        BY <1>2, <1>5, <3>1
      <3> QED
        BY <3>1, <3>2, <3>3
    <2> QED
      BY <2>1, <2>2
  <1>8. ASSUME NEW j \in 1 .. Len(r)
        PROVE  r[j] = ByteAt(s, lay, out - Len(r) + j)
    <2>1. n + j \in 1 .. Len(p) /\ out - Len(p) + (n + j) = out - Len(r) + j /\ j \in 1 .. Len(p) - n
      BY <1>1, <1>3
    <2>2. r[j] = p[n + j] /\ p[n + j] = ByteAt(s, lay, out - Len(p) + (n + j))
      BY <1>3, <1>5, <2>1
    <2> QED
      BY <2>1, <2>2
  <1> QED
    BY <1>6, <1>7, <1>8 DEF Content, v, a, r

(* poll_read takes bytes out of the socket.                                *)
LEMMA TakeContent ==
    ASSUME NEW s, NEW lay, NEW out \in Nat, NEW in \in Nat,
           NEW w \in Seq(Items), NEW p \in Seq(Items), NEW n \in 0 .. Len(w),
           Content(s, lay, 0, out, in, w, p)
    PROVE  Content(s, lay, 0, out, in + n, Rest(w, n), p)
  <1> DEFINE r == Rest(w, n)
  <1>1. Len(w) \in Nat /\ Len(p) \in Nat /\ n \in Nat /\ n <= Len(w)
    OBVIOUS
  <1>2. r \in Seq(Items) /\ Len(r) = Len(w) - n /\ \A j \in 1 .. Len(w) - n : r[j] = w[n + j]
    BY Split
  <1> HIDE DEF r
  <1>3. /\ in + (Len(w) - 0) + Len(p) = out
        /\ \A j \in 1 .. Len(w) - 0 : w[0 + j] = ByteAt(s, lay, in + j)
        /\ \A j \in 1 .. Len(p) : p[j] = ByteAt(s, lay, out - Len(p) + j)
    BY DEF Content
  <1>4. Len(r) >= 0 /\ (in + n) + (Len(r) - 0) + Len(p) = out
    <2>1. in + (Len(w) - 0) + Len(p) = out /\ Len(r) = Len(w) - n
      BY <1>2, <1>3
    <2> QED
      BY <1>1, <2>1
  <1>5. ASSUME NEW j \in 1 .. Len(r) - 0
        PROVE  r[0 + j] = ByteAt(s, lay, (in + n) + j)
    <2>1. n + j \in 1 .. Len(w) - 0 /\ j \in 1 .. Len(w) - n /\ in + (n + j) = (in + n) + j /\ 0 + j = j
          /\ 0 + (n + j) = n + j
      BY <1>1, <1>2
    <2> QED
      BY <1>2, <1>3, <2>1
  <1> QED
    BY <1>3, <1>4, <1>5 DEF Content, r

(* A frame of poll_write, byte by byte.                                    *)
NewFrame(out, acc, len) == [start |-> out, len |-> len, base |-> acc]
FramePlain(acc, len) ==
    << len \div 256, len % 256 >>
    \o [i \in 1 .. len |-> acc + i]
    \o [i \in 1 .. PaddedFrameSize(2 + len) - (2 + len) |-> 0]
IsFrame(plain, f, z) == Len(plain) = z /\ \A i \in 1 .. z : plain[i] = PlainAt(f, i)

LEMMA FrameBytes ==
    ASSUME NEW acc \in Nat, NEW start \in Nat, NEW len \in 1 .. MaxPayloadPerFrame
    PROVE  /\ FramePlain(acc, len) \in Seq(Nat)
           /\ IsFrame(FramePlain(acc, len), NewFrame(start, acc, len), PaddedFrameSize(2 + len))
  <1> DEFINE z == PaddedFrameSize(2 + len)
             f == [start |-> start, len |-> len, base |-> acc]
             d == len \div 256
             m == len % 256
             a == << d, m >>
             b == [i \in 1 .. len |-> acc + i]
             c == [i \in 1 .. z - (2 + len) |-> 0]
  <1>1. len \in Nat /\ z \in Nat /\ 2 + len <= z /\ d \in Nat /\ m \in Nat /\ z - (2 + len) \in Nat
    BY SizeBounds, PayloadRoom
  <1>f. f.len = len /\ f.base = acc
    OBVIOUS
  <1>d. d = f.len \div 256 /\ m = f.len % 256
    OBVIOUS
  <1> HIDE DEF z, d, m, f
  <1>2. a \in Seq(Nat) /\ Len(a) = 2 /\ a[1] = d /\ a[2] = m
    BY <1>1
  <1>3. b \in Seq(Nat) /\ Len(b) = len /\ \A i \in 1 .. len : b[i] = acc + i
    BY <1>1
  <1>4. c \in Seq(Nat) /\ Len(c) = z - (2 + len) /\ \A i \in 1 .. z - (2 + len) : c[i] = 0
    BY <1>1
  <1> HIDE DEF a, b, c
  <1>5. /\ a \o b \in Seq(Nat) /\ Len(a \o b) = 2 + len
        /\ \A i \in 1 .. 2 + len : (a \o b)[i] = IF i <= 2 THEN a[i] ELSE b[i - 2]
    <2>1. /\ a \o b \in Seq(Nat) /\ Len(a \o b) = Len(a) + Len(b)
          /\ \A i \in 1 .. Len(a) + Len(b) : (a \o b)[i] = IF i <= Len(a) THEN a[i] ELSE b[i - Len(a)]
      BY <1>2, <1>3, ConcatProperties
    <2> QED
      BY <1>2, <1>3, <2>1
  <1> DEFINE ab == a \o b
  <1>6. ab \in Seq(Nat) /\ Len(ab) = 2 + len
        /\ \A i \in 1 .. 2 + len : ab[i] = IF i <= 2 THEN a[i] ELSE b[i - 2]
    BY <1>5
  <1> HIDE DEF ab
  <1>7. /\ ab \o c \in Seq(Nat) /\ Len(ab \o c) = Len(ab) + Len(c)
        /\ \A i \in 1 .. Len(ab) + Len(c) : (ab \o c)[i] = IF i <= Len(ab) THEN ab[i] ELSE c[i - Len(ab)]
    BY <1>4, <1>6, ConcatProperties
  <1>8. Len(ab) + Len(c) = z
    BY <1>1, <1>4, <1>6
  <1>9. ASSUME NEW i \in 1 .. z
        PROVE  (ab \o c)[i] = PlainAt(f, i)
    <2>1. CASE i <= 2
      <3>1. (ab \o c)[i] = a[i]
        BY <1>1, <1>6, <1>7, <1>8, <2>1
      <3>2. i = 1 \/ i = 2
        BY <1>1, <2>1
      <3> QED
        BY <1>2, <1>d, <3>1, <3>2 DEF PlainAt, PlainByte
    <2>2. CASE ~(i <= 2) /\ i <= 2 + len
      <3>1. (ab \o c)[i] = b[i - 2] /\ i - 2 \in 1 .. len
        BY <1>1, <1>6, <1>7, <1>8, <2>2
      <3>2. b[i - 2] = acc + (i - 2)
        BY <1>3, <3>1
      <3> QED
        BY <1>f, <2>2, <3>1, <3>2 DEF PlainAt, PlainByte
    <2>3. CASE ~(i <= 2 + len)
      <3>1. (ab \o c)[i] = c[i - (2 + len)] /\ i - (2 + len) \in 1 .. z - (2 + len)
        BY <1>1, <1>6, <1>7, <1>8, <2>3
      <3>2. c[i - (2 + len)] = 0
        BY <1>4, <3>1
      <3>3. i # 1 /\ i # 2
        BY <1>1, <2>3
      <3> QED
        BY <1>f, <2>3, <3>1, <3>2, <3>3 DEF PlainAt, PlainByte
    <2> QED
      BY <2>1, <2>2, <2>3
  <1> QED
    <2> DEFINE fr == ab \o c
    <2>1. FramePlain(acc, len) = fr /\ NewFrame(start, acc, len) = f /\ PaddedFrameSize(2 + len) = z
      BY DEF z, f, a, b, c, d, m, ab, FramePlain, NewFrame
    <2>2. fr \in Seq(Nat) /\ Len(fr) = z /\ \A i \in 1 .. z : fr[i] = PlainAt(f, i)
      BY <1>7, <1>8, <1>9
    <2> HIDE DEF fr
    <2>3. IsFrame(fr, f, z)
      BY <2>2 DEF IsFrame
    <2> QED
      BY <2>1, <2>2, <2>3

(* poll_write lays a frame down after the ones before it.                  *)
NextLayout(lay, out, acc, len) ==
    LET z == PaddedFrameSize(2 + len) IN
    [pos \in 1 .. out + z + 1 |->
        IF pos <= out THEN lay[pos]
        ELSE IF pos <= out + z THEN NewFrame(out, acc, len)
        ELSE NewFrame(out + z, acc + len, len)]

LEMMA WriteChain ==
    ASSUME NEW lay, NEW out \in Nat, NEW acc \in Nat, NEW len \in 1 .. MaxPayloadPerFrame,
           Chain(lay, out, acc)
    PROVE  LET z == PaddedFrameSize(2 + len)
               new == NextLayout(lay, out, acc, len)
           IN  /\ Chain(new, out + z, acc + len)
               /\ \A pos \in 1 .. out : new[pos] = lay[pos]
               /\ \A pos \in out + 1 .. out + z : new[pos] = NewFrame(out, acc, len)
  <1> DEFINE z == PaddedFrameSize(2 + len)
             f == NewFrame(out, acc, len)
             g == NewFrame(out + z, acc + len, len)
             new == NextLayout(lay, out, acc, len)
  <1>1. len \in Nat /\ z \in Nat /\ 2 + len <= z /\ Aligned(z) /\ z >= 1
    <2>1. len \in Nat /\ len >= 1
      BY PayloadRoom
    <2> QED
      BY <2>1, SizeBounds
  <1>2. new = [pos \in 1 .. out + z + 1 |-> IF pos <= out THEN lay[pos] ELSE IF pos <= out + z THEN f ELSE g]
    BY DEF NextLayout
  <1>z. z = Size(f)
    BY DEF Size, NewFrame
  <1> HIDE DEF new, z
  <1>3. /\ f \in FrameRecs /\ f.start = out /\ f.len = len /\ f.base = acc
        /\ g \in FrameRecs /\ g.start = out + z /\ g.base = acc + len
    BY <1>1 DEF FrameRecs, NewFrame
  <1> HIDE DEF f, g
  <1>4. /\ lay \in [1 .. out + 1 -> FrameRecs]
        /\ lay[out + 1].start = out /\ lay[out + 1].base = acc
        /\ \A pos \in 1 .. out : FrameAt(lay, out, acc, pos)
        /\ \A pos \in 1 .. out + 1 : Aligned(lay[pos].start)
    BY DEF Chain
  <1>5. /\ \A pos \in 1 .. out : new[pos] = lay[pos]
        /\ \A pos \in out + 1 .. out + z : new[pos] = f
        /\ new[out + z + 1] = g
    BY <1>1, <1>2
  <1>6. new \in [1 .. out + z + 1 -> FrameRecs]
    BY <1>1, <1>2, <1>3, <1>4
  <1>7. ASSUME NEW pos \in 1 .. out + z
        PROVE  FrameAt(new, out + z, acc + len, pos)
    <2>1. CASE pos <= out
      <3> DEFINE e == lay[pos]
                 end == e.start + Size(e)
      <3>1. pos \in 1 .. out /\ new[pos] = e /\ e \in FrameRecs
        BY <1>1, <1>4, <1>5, <2>1
      <3>2. FrameAt(lay, out, acc, pos)
        BY <1>4, <3>1
      <3>3. /\ e.len \in 1 .. MaxPayloadPerFrame /\ e.start < pos /\ pos <= end /\ end <= out
            /\ \A j \in e.start + 1 .. end : lay[j] = e
            /\ lay[end + 1].start = end /\ lay[end + 1].base = e.base + e.len
            /\ e.base + e.len <= acc /\ e.base \in Nat /\ e.len \in Nat
        BY <3>1, <3>2 DEF FrameAt, FrameRecs
      <3>4. e.start \in Nat /\ Size(e) \in Nat
        BY <3>1, <3>3, SizeBounds DEF FrameRecs, Size
      <3> DEFINE zz == Size(e)
      <3>zz. zz \in Nat /\ end = e.start + zz
        BY <3>4
      <3> HIDE DEF e, zz
      <3>5. end \in Nat /\ end <= out + z
        BY <1>1, <3>3, <3>4, <3>zz
      <3>6. \A j \in e.start + 1 .. end : new[j] = e
        <4> TAKE j \in e.start + 1 .. end
        <4>1. j \in 1 .. out
          BY <3>3, <3>4, <3>5
        <4> QED
          BY <1>5, <3>3, <4>1
      <3>7. new[end + 1].start = end /\ new[end + 1].base = e.base + e.len
        <4>1. CASE end < out
          <5>1. end + 1 \in 1 .. out
            BY <3>5, <4>1
          <5> QED
            BY <1>5, <3>3, <5>1
        <4>2. CASE end = out
          <5>1. out + 1 \in out + 1 .. out + z
            BY <1>1
          <5>2. new[out + 1] = f
            BY <1>5, <5>1
          <5> QED
            BY <1>3, <1>4, <3>3, <4>2, <5>2
        <4> QED
          BY <3>3, <3>5, <4>1, <4>2
      <3>8. e.base + e.len <= acc + len
        BY <1>1, <3>3
      <3> QED
        BY <3>1, <3>3, <3>5, <3>6, <3>7, <3>8 DEF FrameAt
    <2>2. CASE ~(pos <= out)
      <3>1. pos \in out + 1 .. out + z /\ new[pos] = f
        BY <1>1, <1>5, <2>2
      <3>2. f.start + Size(f) = out + z
        BY <1>3, <1>z
      <3>3. out < pos /\ pos <= out + z /\ out + z <= out + z /\ acc + len <= acc + len
        BY <1>1, <2>2
      <3> QED
        BY <1>3, <1>5, <3>1, <3>2, <3>3 DEF FrameAt
    <2> QED
      BY <2>1, <2>2
  <1>8. ASSUME NEW pos \in 1 .. out + z + 1
        PROVE  Aligned(new[pos].start)
    <2>o. Aligned(out)
      <3>1. out + 1 \in 1 .. out + 1
        OBVIOUS
      <3> QED
        BY <1>4, <3>1
    <2>1. CASE pos <= out
      <3>1. pos \in 1 .. out /\ pos \in 1 .. out + 1
        BY <2>1
      <3> QED
        BY <1>4, <1>5, <3>1
    <2>2. CASE ~(pos <= out) /\ pos <= out + z
      <3>1. pos \in out + 1 .. out + z
        BY <1>1, <2>2
      <3> QED
        BY <1>3, <1>5, <2>o, <3>1
    <2>3. CASE pos = out + z + 1
      <3>1. Aligned(out + z)
        BY <1>1, <2>o, AlignedSum
      <3> QED
        BY <1>3, <1>5, <2>3, <3>1
    <2>4. (pos <= out) \/ (~(pos <= out) /\ pos <= out + z) \/ pos = out + z + 1
      BY <1>1
    <2> QED
      BY <2>1, <2>2, <2>3, <2>4
  <1>9. Chain(new, out + z, acc + len)
    BY <1>3, <1>5, <1>6, <1>7, <1>8 DEF Chain
  <1> QED
    BY <1>5, <1>9 DEF new, f, z


LEMMA Cipher ==
    ASSUME NEW s \in Sides, NEW out \in Nat, NEW z \in Nat, NEW f, NEW plain \in Seq(Nat), IsFrame(plain, f, z)
    PROVE  LET bytes == Scrambled(Key(s), out, plain) IN
           /\ bytes \in Seq(Items) /\ Len(bytes) = z
           /\ \A i \in 1 .. z : bytes[i] = [v |-> PlainAt(f, i), key |-> Key(s), pos |-> out + i]
  <1> DEFINE bytes == Scrambled(Key(s), out, plain)
             byte(i) == [v |-> plain[i], key |-> Key(s), pos |-> out + i]
  <1>1. Len(plain) = z /\ DOMAIN plain = 1 .. z /\ \A i \in 1 .. z : plain[i] = PlainAt(f, i) /\ plain[i] \in Nat
    BY DEF IsFrame
  <1>2. bytes = [i \in 1 .. z |-> byte(i)]
    BY <1>1 DEF Scrambled
  <1>3. Key(s) \in {Key(r) : r \in Sides}
    OBVIOUS
  <1>4. ASSUME NEW i \in 1 .. z
        PROVE  byte(i) \in Items /\ byte(i) = [v |-> PlainAt(f, i), key |-> Key(s), pos |-> out + i]
    <2>1. plain[i] = PlainAt(f, i) /\ plain[i] \in Nat
      BY <1>1
    <2>2. out + i \in Nat
      OBVIOUS
    <2>3. byte(i) \in Bytes
      BY <1>3, <2>1, <2>2 DEF Bytes
    <2> QED
      BY <2>1, <2>3 DEF Items
  <1> HIDE DEF byte, bytes
  <1>5. bytes \in Seq(Items) /\ Len(bytes) = z
    <2>1. bytes \in [1 .. z -> Items]
      BY <1>2, <1>4
    <2> QED
      BY <2>1, <1>2
  <1>6. \A i \in 1 .. z : bytes[i] = byte(i)
    BY <1>2
  <1> QED
    BY <1>4, <1>5, <1>6 DEF bytes

LEMMA WriteContent ==
    ASSUME NEW s \in Sides, NEW lay, NEW h \in Nat, NEW out \in Nat, NEW in \in Nat, NEW acc \in Nat,
           NEW w \in Seq(Items), NEW len \in 1 .. MaxPayloadPerFrame,
           Chain(lay, out, acc), Content(s, lay, h, out, in, w, << >>), NEW plain \in Seq(Nat),
           IsFrame(plain, NewFrame(out, acc, len), PaddedFrameSize(2 + len))
    PROVE  LET z == PaddedFrameSize(2 + len)
               bytes == Scrambled(Key(s), out, plain)
           IN  /\ bytes \in Seq(Items) /\ Len(bytes) = z
               /\ Content(s, NextLayout(lay, out, acc, len), h, out + z, in, w, bytes)
  <1> DEFINE z == PaddedFrameSize(2 + len)
             f == NewFrame(out, acc, len)
             new == NextLayout(lay, out, acc, len)
             bytes == Scrambled(Key(s), out, plain)
  <1>1. z \in Nat /\ Len(w) \in Nat
    BY SizeBounds
  <1>f. f.start = out
    BY DEF NewFrame
  <1>2. /\ \A pos \in 1 .. out : new[pos] = lay[pos]
        /\ \A pos \in out + 1 .. out + z : new[pos] = f
    BY WriteChain
  <1>3. /\ bytes \in Seq(Items) /\ Len(bytes) = z
        /\ \A i \in 1 .. z : bytes[i] = [v |-> PlainAt(f, i), key |-> Key(s), pos |-> out + i]
    BY <1>1, Cipher
  <1>4. /\ Len(w) >= h /\ in + (Len(w) - h) + 0 = out
        /\ \A j \in 1 .. Len(w) - h : w[h + j] = ByteAt(s, lay, in + j)
    <2>1. Len(<< >>) = 0
      OBVIOUS
    <2> QED
      BY <2>1 DEF Content
  <1> HIDE DEF new, bytes, f, z
  <1>5. ASSUME NEW i \in 1 .. z
        PROVE  bytes[i] = ByteAt(s, new, (out + z) - Len(bytes) + i)
    <2>1. out + i \in out + 1 .. out + z /\ (out + i) - out = i
      BY <1>1
    <2>2. (out + z) - Len(bytes) + i = out + i
      BY <1>1, <1>3
    <2>3. new[out + i] = f
      BY <1>2, <2>1
    <2>4. PlainAt(new[out + i], (out + i) - new[out + i].start) = PlainAt(f, i)
      BY <1>f, <2>1, <2>3
    <2>5. bytes[i] = [v |-> PlainAt(f, i), key |-> Key(s), pos |-> out + i]
      BY <1>3
    <2> QED
      BY <2>2, <2>4, <2>5 DEF ByteAt
  <1>6. ASSUME NEW j \in 1 .. Len(w) - h
        PROVE  w[h + j] = ByteAt(s, new, in + j)
    <2>1. in + (Len(w) - h) + 0 = out
      BY <1>4
    <2>2. in + j \in 1 .. out
      BY <1>1, <2>1
    <2>3. new[in + j] = lay[in + j]
      BY <1>2, <2>2
    <2> QED
      BY <1>4, <2>3 DEF ByteAt
  <1>7. Len(w) >= h /\ in + (Len(w) - h) + Len(bytes) = out + z
    <2>1. Len(w) >= h /\ in + (Len(w) - h) + 0 = out
      BY <1>4
    <2>2. in + (Len(w) - h) + z = out + z
      BY <1>1, <2>1
    <2>3. Len(bytes) = z
      BY <1>3
    <2> QED
      BY <2>1, <2>2, <2>3
  <1>8. Content(s, new, h, out + z, in, w, bytes)
    BY <1>3, <1>5, <1>6, <1>7 DEF Content
  <1> QED
    BY <1>3, <1>8 DEF bytes, new, z

LEMMA WriteReader ==
    ASSUME NEW lay, NEW out \in Nat, NEW in \in 0 .. out, NEW acc \in Nat,
           NEW len \in 1 .. MaxPayloadPerFrame, NEW rd, NEW del,
           Chain(lay, out, acc), ReaderAt(lay, in, rd, del)
    PROVE  ReaderAt(NextLayout(lay, out, acc, len), in, rd, del)
  <1> DEFINE new == NextLayout(lay, out, acc, len)
             z == PaddedFrameSize(2 + len)
             f == NewFrame(out, acc, len)
  <1>1. z \in Nat /\ z >= 1
    <2>1. len \in Nat /\ len >= 1
      BY PayloadRoom
    <2>2. z \in Nat /\ z >= 2 + len
      BY SizeBounds
    <2> HIDE DEF z
    <2> QED
      BY <2>1, <2>2
  <1>f. f.start = out /\ f.base = acc
    BY DEF NewFrame
  <1>2. /\ \A pos \in 1 .. out : new[pos] = lay[pos]
        /\ \A pos \in out + 1 .. out + z : new[pos] = f
    BY WriteChain
  <1> HIDE DEF new, z, f
  <1>3. CASE in < out
    <2>1. in + 1 \in 1 .. out
      BY <1>3
    <2>2. new[in + 1] = lay[in + 1]
      BY <1>2, <2>1
    <2> QED
      BY <2>2 DEF ReaderAt, Reading, new
  <1>4. CASE in = out
    <2>1. in + 1 \in out + 1 .. out + z
      BY <1>1, <1>4
    <2>2. new[in + 1] = f
      BY <1>2, <2>1
    <2>3. lay[in + 1].start = out /\ lay[in + 1].base = acc
      BY <1>4 DEF Chain
    <2>4. in - out = 0
      BY <1>4
    <2>5. rd = StateAt(lay[in + 1], 0) /\ Len(del) = acc + DoneAt(lay[in + 1], 0) /\ Counts(del)
      BY <2>3, <2>4 DEF ReaderAt, Reading
    <2>6. StateAt(lay[in + 1], 0) = StateAt(f, 0) /\ DoneAt(lay[in + 1], 0) = DoneAt(f, 0)
      BY DEF StateAt, DoneAt, RdState, DoneBytes
    <2>7. rd = StateAt(new[in + 1], in - new[in + 1].start)
          /\ Len(del) = new[in + 1].base + DoneAt(new[in + 1], in - new[in + 1].start)
      BY <1>f, <2>2, <2>4, <2>5, <2>6
    <2> QED
      BY <2>5, <2>7 DEF ReaderAt, Reading, new
  <1>5. in < out \/ in = out
    OBVIOUS
  <1> QED
    BY <1>3, <1>4, <1>5

-----------------------------------------------------------------------------
(* The frame f a reader is in, of size z, with off bytes of it behind.     *)
At(lay, out, acc, in, f, off, z) ==
    /\ f = lay[in + 1] /\ z = Size(f) /\ in = f.start + off /\ off < z
    /\ f.len >= 1 /\ f.len <= MaxPayloadPerFrame /\ 2 + f.len <= z /\ z < 2 + f.len + Quantum
    /\ f.start + z <= out /\ f.base + f.len <= acc
    /\ \A i \in 1 .. z - off : lay[in + i] = f
    /\ lay[f.start + z + 1].start = f.start + z
    /\ lay[f.start + z + 1].base = f.base + f.len

LEMMA FrameHere ==
    ASSUME NEW lay, NEW out \in Nat, NEW in \in Nat, in < out, NEW acc \in Nat, Chain(lay, out, acc)
    PROVE  \E f \in FrameRecs, off \in Nat, z \in Nat : At(lay, out, acc, in, f, off, z)
  <1> DEFINE f == lay[in + 1]
             z == Size(f)
             off == in - f.start
  <1>1. in + 1 \in 1 .. out /\ in + 1 \in 1 .. out + 1
    OBVIOUS
  <1>2. f \in FrameRecs /\ FrameAt(lay, out, acc, in + 1)
    BY <1>1 DEF Chain
  <1>3. f.start \in Nat /\ f.base \in Nat /\ f.len \in 1 .. MaxPayloadPerFrame
        /\ f.start < in + 1 /\ in + 1 <= f.start + z /\ f.start + z <= out /\ f.base + f.len <= acc
        /\ (\A j \in f.start + 1 .. f.start + z : lay[j] = f)
        /\ lay[f.start + z + 1].start = f.start + z /\ lay[f.start + z + 1].base = f.base + f.len
    BY <1>2 DEF FrameAt, FrameRecs
  <1>4. f.len \in Nat /\ f.len >= 1 /\ f.len <= MaxPayloadPerFrame
    BY <1>3, PayloadRoom
  <1>5. z \in Nat /\ z >= 2 + f.len /\ z < 2 + f.len + Quantum
    BY <1>3, <1>4, SizeBounds, ScrambleAssumption DEF Size
  <1>d. z = Size(f) /\ f = lay[in + 1]
    OBVIOUS
  <1> HIDE DEF f, z
  <1>6. off \in Nat /\ off < z /\ in = f.start + off
    BY <1>3, <1>5
  <1> HIDE DEF off
  <1>7. \A i \in 1 .. z - off : lay[in + i] = f
    <2> TAKE i \in 1 .. z - off
    <2>1. in + i \in f.start + 1 .. f.start + z
      BY <1>3, <1>5, <1>6
    <2> QED
      BY <1>3, <2>1
  <1>8. At(lay, out, acc, in, f, off, z)
    BY <1>3, <1>4, <1>5, <1>6, <1>7, <1>d DEF At
  <1> QED
    BY <1>2, <1>5, <1>6, <1>8

(* What the reader has after k bytes of frame f.                           *)
Moved(f, k, z, rd, del) ==
    /\ rd = IF k < z THEN StateAt(f, k) ELSE NeedHeader(<< >>)
    /\ Len(del) = f.base + IF k < z THEN DoneAt(f, k) ELSE f.len
    /\ Counts(del)

LEMMA Advance ==
    ASSUME NEW lay, NEW out \in Nat, NEW acc \in Nat, NEW in \in Nat,
           NEW f \in FrameRecs, NEW off \in Nat, NEW z \in Nat,
           At(lay, out, acc, in, f, off, z), NEW n \in 1 .. z - off, NEW rd, NEW del,
           Moved(f, off + n, z, rd, del)
    PROVE  ReaderAt(lay, in + n, rd, del)
  <1> DEFINE g == lay[(in + n) + 1]
             end == lay[f.start + z + 1]
  <1>1. f.start \in Nat /\ f.base \in Nat /\ f.len \in Nat
    BY DEF FrameRecs
  <1>2. in = f.start + off
    BY DEF At
  <1>3. \A i \in 1 .. z - off : lay[in + i] = f
    BY DEF At
  <1>4. end.start = f.start + z /\ end.base = f.base + f.len
    BY DEF At
  <1>5. CASE off + n < z
    <2>1. rd = StateAt(f, off + n) /\ Len(del) = f.base + DoneAt(f, off + n) /\ Counts(del)
      BY <1>5 DEF Moved
    <2>2. n + 1 \in 1 .. z - off /\ in + (n + 1) = (in + n) + 1
      BY <1>5
    <2>3. g = f
      BY <1>3, <2>2
    <2>4. (in + n) - f.start = off + n
      BY <1>1, <1>2
    <2> QED
      BY <2>1, <2>3, <2>4 DEF ReaderAt, Reading
  <1>6. CASE ~(off + n < z)
    <2>1. rd = NeedHeader(<< >>) /\ Len(del) = f.base + f.len /\ Counts(del)
      BY <1>6 DEF Moved
    <2>2. (in + n) = f.start + z
      BY <1>1, <1>2, <1>6
    <2>3. g.start = in + n /\ g.base = f.base + f.len
      BY <1>4, <2>2
    <2>4. (in + n) - g.start = 0
      BY <2>3
    <2>5. StateAt(g, 0) = NeedHeader(<< >>) /\ DoneAt(g, 0) = 0
      BY DEF StateAt, DoneAt, RdState, DoneBytes
    <2>6. Len(del) = g.base + 0
      BY <1>1, <2>1, <2>3
    <2> QED
      BY <2>1, <2>4, <2>5, <2>6 DEF ReaderAt, Reading
  <1> QED
    BY <1>5, <1>6

LEMMA PlainNat ==
    ASSUME NEW f, f.len \in Nat, f.base \in Nat, NEW i \in Nat, i # 0
    PROVE  PlainAt(f, i) \in Nat
  <1>1. f.len \div 256 \in Nat /\ f.len % 256 \in Nat
    OBVIOUS
  <1>2. i # 1 /\ i # 2 => f.base + (i - 2) \in Nat
    OBVIOUS
  <1> QED
    BY <1>1, <1>2 DEF PlainAt, PlainByte

(* What is read off the socket descrambles to what the layout says.        *)
LEMMA Descrambles ==
    ASSUME NEW s \in Sides, NEW lay, NEW out \in Nat, NEW acc \in Nat, NEW in \in Nat,
           NEW w \in Seq(Items), NEW p \in Seq(Items), NEW n \in 1 .. Len(w),
           Content(s, lay, 0, out, in, w, p),
           NEW f \in FrameRecs, NEW off \in Nat, NEW z \in Nat, At(lay, out, acc, in, f, off, z), n <= z - off
    PROVE  LET t == Descrambled(Key(s), in, Prefix(w, n)) IN
           t \in Seq(Nat) /\ Len(t) = n /\ \A i \in 1 .. n : t[i] = PlainAt(f, off + i)
  <1> DEFINE q == Prefix(w, n)
             t == Descrambled(Key(s), in, q)
  <1>1. Len(w) \in Nat /\ Len(p) \in Nat /\ n \in Nat /\ n >= 1 /\ n <= Len(w) /\ n \in 0 .. Len(w)
    OBVIOUS
  <1>2. \A j \in 1 .. Len(w) - 0 : w[0 + j] = ByteAt(s, lay, in + j)
    BY DEF Content
  <1>4. f.start \in Nat /\ f.base \in Nat /\ f.len \in Nat
    BY DEF FrameRecs
  <1>f. in = f.start + off
    BY DEF At
  <1>l. \A i \in 1 .. z - off : lay[in + i] = f
    BY DEF At
  <1>5. q \in Seq(Items) /\ Len(q) = n /\ \A j \in 1 .. n : q[j] = w[j]
    BY <1>1, Split
  <1> HIDE DEF q
  <1>6. ASSUME NEW i \in 1 .. n
        PROVE  q[i] = [v |-> PlainAt(f, off + i), key |-> Key(s), pos |-> in + i] /\ PlainAt(f, off + i) \in Nat
    <2>1. i \in 1 .. Len(w) - 0 /\ i \in 1 .. z - off /\ 0 + i = i
      BY <1>1
    <2>2. q[i] = ByteAt(s, lay, in + i) /\ lay[in + i] = f
      BY <1>2, <1>l, <1>5, <2>1
    <2>3. (in + i) - f.start = off + i /\ off + i \in Nat
      <3> DEFINE st == f.start
      <3>1. st \in Nat /\ in = st + off /\ i \in Nat
        BY <1>1, <1>4, <1>f
      <3> HIDE DEF st
      <3>2. (in + i) - st = off + i /\ off + i \in Nat
        BY ONLY <3>1, in \in Nat, off \in Nat
      <3> QED
        BY <3>2 DEF st
    <2>4. PlainAt(f, off + i) \in Nat
      <3>1. f.len \in Nat /\ f.base \in Nat /\ off + i \in Nat /\ off + i # 0
        BY <1>4
      <3> QED
        BY <3>1, PlainNat
    <2> QED
      BY <2>2, <2>3, <2>4 DEF ByteAt
  <1>7. DOMAIN q = 1 .. n
    BY <1>1, <1>5
  <1>8. t = [i \in 1 .. n |-> IF q[i].key = Key(s) /\ q[i].pos = in + i THEN q[i].v ELSE (q[i].v + 1) % 256]
    BY <1>7 DEF Descrambled
  <1> HIDE DEF t
  <1>9. ASSUME NEW i \in 1 .. n
        PROVE  t[i] = PlainAt(f, off + i) /\ t[i] \in Nat
    <2>1. t[i] = IF q[i].key = Key(s) /\ q[i].pos = in + i THEN q[i].v ELSE (q[i].v + 1) % 256
      BY <1>8
    <2> DEFINE b == [v |-> PlainAt(f, off + i), key |-> Key(s), pos |-> in + i]
    <2>b. b.key = Key(s) /\ b.pos = in + i /\ b.v = PlainAt(f, off + i)
      OBVIOUS
    <2>c. q[i] = b
      BY <1>6
    <2> HIDE DEF b
    <2>2. q[i].key = Key(s) /\ q[i].pos = in + i /\ q[i].v = PlainAt(f, off + i)
      BY <2>b, <2>c
    <2> QED
      BY <1>6, <2>1, <2>2
  <1>10. t \in Seq(Nat) /\ Len(t) = n
    <2>1. DOMAIN t = 1 .. n /\ t = [i \in 1 .. n |-> t[i]]
      BY <1>8
    <2>2. t \in [1 .. n -> Nat]
      BY <1>9, <2>1
    <2> QED
      BY <1>1, <2>2
  <1> QED
    BY <1>9, <1>10 DEF t, q

-----------------------------------------------------------------------------
(* The ReadState at every offset of a frame with payload l and size z.     *)
Fits(l, z, off) == l >= 1 /\ 2 + l <= z /\ off < z

LEMMA RdFields ==
    ASSUME NEW l, NEW z, NEW off
    PROVE  /\ off = 0 => RdState(l, z, off) = NeedHeader(<< >>)
           /\ off = 1 => RdState(l, z, off) = NeedHeader(<< l \div 256 >>)
           /\ off # 0 /\ off # 1 =>
                RdState(l, z, off) =
                    [partial |-> << >>,
                     payload |-> IF off - 2 < l THEN l - (off - 2) ELSE 0,
                     pad |-> IF off <= 2 + l THEN z - (2 + l) ELSE z - off]
  BY DEF RdState

LEMMA RdInHeader ==
    ASSUME NEW l \in Nat, NEW z \in Nat, NEW off \in Nat, Fits(l, z, off), off < 2
    PROVE  LET rd == RdState(l, z, off) IN
           /\ rd.payload = 0 /\ rd.pad = 0 /\ Len(rd.partial) = off
           /\ off = 0 => rd.partial = << >>
           /\ off = 1 => rd.partial = << l \div 256 >>
  <1>1. off = 0 \/ off = 1
    OBVIOUS
  <1>2. CASE off = 0
    BY <1>2, RdFields DEF NeedHeader
  <1>3. CASE off = 1
    BY <1>3, RdFields DEF NeedHeader
  <1> QED
    BY <1>1, <1>2, <1>3

LEMMA RdInPayload ==
    ASSUME NEW l \in Nat, NEW z \in Nat, NEW off \in Nat, Fits(l, z, off), off >= 2, off < 2 + l
    PROVE  RdState(l, z, off) = [partial |-> << >>, payload |-> 2 + l - off, pad |-> z - (2 + l)]
  <1>1. off # 0 /\ off # 1 /\ off - 2 < l /\ l - (off - 2) = 2 + l - off /\ off <= 2 + l
    OBVIOUS
  <1> QED
    BY <1>1, RdFields

LEMMA RdInPad ==
    ASSUME NEW l \in Nat, NEW z \in Nat, NEW off \in Nat, Fits(l, z, off), off >= 2 + l
    PROVE  RdState(l, z, off) = [partial |-> << >>, payload |-> 0, pad |-> z - off]
  <1>1. off # 0 /\ off # 1
    OBVIOUS
  <1> DEFINE x == IF off - 2 < l THEN l - (off - 2) ELSE 0
             y == IF off <= 2 + l THEN z - (2 + l) ELSE z - off
  <1>2. x = 0
    OBVIOUS
  <1>3. y = z - off
    OBVIOUS
  <1>4. RdState(l, z, off) = [partial |-> << >>, payload |-> x, pad |-> y]
    BY <1>1, RdFields
  <1> HIDE DEF x, y
  <1> QED
    BY <1>2, <1>3, <1>4

(* Which arm of poll_read runs tells where the reader is.                  *)
LEMMA RdArm ==
    ASSUME NEW l \in Nat, NEW z \in Nat, NEW off \in Nat, Fits(l, z, off)
    PROVE  LET rd == RdState(l, z, off) IN
           /\ rd.payload = 0 /\ rd.pad = 0 => off < 2
           /\ rd.payload # 0 => off >= 2 /\ off < 2 + l
           /\ rd.payload = 0 /\ rd.pad # 0 => off >= 2 + l
           /\ rd.payload \in 0 .. l /\ rd.pad \in Nat /\ rd.pad <= z - (2 + l)
           /\ Len(rd.partial) <= 1
  <1>1. l \in Nat /\ z \in Nat /\ off \in Nat /\ l >= 1 /\ 2 + l <= z /\ off < z
    BY DEF Fits
  <1> DEFINE rd == RdState(l, z, off)
  <1>2. CASE off < 2
    <2>1. rd.payload = 0 /\ rd.pad = 0 /\ Len(rd.partial) = off
      BY <1>2, RdInHeader
    <2> HIDE DEF rd
    <2> QED
      BY <1>1, <1>2, <2>1 DEF rd
  <1>3. CASE off >= 2 /\ off < 2 + l
    <2>1. rd.partial = << >> /\ rd.payload = 2 + l - off /\ rd.pad = z - (2 + l)
      BY <1>3, RdInPayload
    <2>2. 2 + l - off # 0 /\ 2 + l - off \in 0 .. l /\ z - (2 + l) \in Nat
      BY <1>1, <1>3
    <2> HIDE DEF rd
    <2> QED
      BY <1>1, <1>3, <2>1, <2>2 DEF rd
  <1>4. CASE off >= 2 + l
    <2>1. rd.partial = << >> /\ rd.payload = 0 /\ rd.pad = z - off
      BY <1>4, RdInPad
    <2>2. z - off # 0 /\ z - off \in Nat /\ z - off <= z - (2 + l)
      BY <1>1, <1>4
    <2> HIDE DEF rd
    <2> QED
      BY <1>1, <1>4, <2>1, <2>2 DEF rd
  <1> QED
    BY <1>1, <1>2, <1>3, <1>4

-----------------------------------------------------------------------------
(* The header arm.                                                         *)
AfterHeader(partial) ==
    IF Len(partial) = 2 THEN InBody(256 * partial[1] + partial[2]) ELSE NeedHeader(partial)

LEMMA BodyState ==
    ASSUME NEW l \in Nat, l >= 1
    PROVE  RdState(l, PaddedFrameSize(2 + l), 2) = InBody(l)
  <1> DEFINE z == PaddedFrameSize(2 + l)
  <1>1. 2 # 0 /\ 2 # 1 /\ 2 - 2 < l /\ l - (2 - 2) = l /\ 2 <= 2 + l
    OBVIOUS
  <1>2. InBody(l) = [partial |-> << >>, payload |-> l, pad |-> z - (2 + l)]
    BY DEF InBody
  <1> HIDE DEF z
  <1>3. RdState(l, z, 2) = [partial |-> << >>, payload |-> l, pad |-> z - (2 + l)]
    BY <1>1 DEF RdState
  <1> QED
    BY <1>2, <1>3 DEF z

LEMMA HeaderPair ==
    ASSUME NEW l \in Nat, NEW q, q = << l \div 256, l % 256 >>
    PROVE  AfterHeader(q) = InBody(l)
  <1> DEFINE d == l \div 256
             m == l % 256
  <1>1. d \in Nat /\ m \in Nat /\ 256 * d + m = l
    OBVIOUS
  <1> HIDE DEF d, m
  <1>2. q = << d, m >>
    BY DEF d, m
  <1>3. Len(q) = 2 /\ q[1] = d /\ q[2] = m
    BY <1>2
  <1> QED
    BY <1>1, <1>3 DEF AfterHeader

LEMMA HeaderSingle ==
    ASSUME NEW d
    PROVE  AfterHeader(<< d >>) = NeedHeader(<< d >>)
  BY DEF AfterHeader

LEMMA SmallSeqs ==
    /\ \A t \in Seq(Nat) : Len(t) = 1 => t = << t[1] >>
    /\ \A t \in Seq(Nat) : Len(t) = 2 => t = << t[1], t[2] >>
    /\ \A t \in Seq(Nat) : << >> \o t = t
    /\ \A x, y \in Nat : << x >> \o << y >> = << x, y >>
  <1>1. \A t \in Seq(Nat) : Len(t) = 1 => t = << t[1] >>
    OBVIOUS
  <1>2. \A t \in Seq(Nat) : Len(t) = 2 => t = << t[1], t[2] >>
    OBVIOUS
  <1>3. \A t \in Seq(Nat) : << >> \o t = t
    BY ConcatEmptySeq
  <1>4. \A x, y \in Nat : << x >> \o << y >> = << x, y >>
    <2> TAKE x, y \in Nat
    <2> DEFINE a == << x >>
               b == << y >>
    <2>1. a \in Seq(Nat) /\ b \in Seq(Nat) /\ Len(a) = 1 /\ Len(b) = 1 /\ a[1] = x /\ b[1] = y
      OBVIOUS
    <2> HIDE DEF a, b
    <2>2. /\ a \o b \in Seq(Nat) /\ Len(a \o b) = Len(a) + Len(b)
          /\ \A i \in 1 .. Len(a) + Len(b) : (a \o b)[i] = IF i <= Len(a) THEN a[i] ELSE b[i - Len(a)]
      BY <2>1, ConcatProperties
    <2>3. Len(a \o b) = 2 /\ (a \o b)[1] = x /\ (a \o b)[2] = y
      BY <2>1, <2>2
    <2> QED
      BY <1>2, <2>2, <2>3 DEF a, b
  <1> QED
    BY <1>1, <1>2, <1>3, <1>4

Took(t, n, l, b, off) ==
    t \in Seq(Nat) /\ Len(t) = n /\ \A i \in 1 .. n : t[i] = PlainByte(l, b, off + i)

LEMMA HeaderState ==
    ASSUME NEW l \in Nat, NEW b \in Nat, NEW off \in {0, 1}, l >= 1,
           NEW t, NEW n \in 1 .. 2 - off, Took(t, n, l, b, off)
    PROVE  LET z == PaddedFrameSize(2 + l) IN
           AfterHeader(RdState(l, z, off).partial \o t) = RdState(l, z, off + n)
  <1> DEFINE z == PaddedFrameSize(2 + l)
             d == l \div 256
             m == l % 256
             q == RdState(l, z, off).partial
  <1>1. PlainByte(l, b, 1) = d /\ PlainByte(l, b, 2) = m
    BY DEF PlainByte
  <1>2. d \in Nat /\ m \in Nat
    OBVIOUS
  <1>b. RdState(l, z, 2) = InBody(l)
    BY BodyState
  <1>3. RdState(l, z, 2) = InBody(l) /\ RdState(l, z, 1) = NeedHeader(<< d >>)
    BY <1>b DEF RdState
  <1>4. (off = 0 => q = << >>) /\ (off = 1 => q = << d >>)
    BY RdFields DEF NeedHeader
  <1>5. AfterHeader(<< d, m >>) = InBody(l) /\ AfterHeader(<< d >>) = NeedHeader(<< d >>)
    BY HeaderPair, HeaderSingle
  <1>t. t \in Seq(Nat) /\ Len(t) = n /\ \A i \in 1 .. n : t[i] = PlainByte(l, b, off + i)
    BY DEF Took
  <1> HIDE DEF d, m, q, z
  <1> SUFFICES AfterHeader(q \o t) = RdState(l, z, off + n)
    BY DEF q, z
  <1>6. CASE off = 0 /\ n = 1
    <2>1. t[1] = d
      BY <1>1, <1>t, <1>6
    <2>2. t = << d >>
      BY <1>t, <1>6, <2>1, SmallSeqs
    <2>3. q \o t = << d >>
      BY <1>4, <1>6, <2>2, SmallSeqs
    <2> QED
      BY <1>3, <1>5, <1>6, <2>3
  <1>7. CASE off = 0 /\ n = 2
    <2>1. t[1] = d /\ t[2] = m
      BY <1>1, <1>t, <1>7
    <2>2. t = << d, m >>
      BY <1>t, <1>7, <2>1, SmallSeqs
    <2>3. q \o t = << d, m >>
      BY <1>4, <1>7, <2>2, SmallSeqs
    <2> QED
      BY <1>3, <1>5, <1>7, <2>3
  <1>8. CASE off = 1 /\ n = 1
    <2>1. t[1] = m
      BY <1>1, <1>t, <1>8
    <2>2. t = << m >>
      BY <1>t, <1>8, <2>1, SmallSeqs
    <2>3. q \o t = << d, m >>
      BY <1>2, <1>4, <1>8, <2>2, SmallSeqs
    <2> QED
      BY <1>3, <1>5, <1>8, <2>3
  <1>9. (off = 0 /\ n = 1) \/ (off = 0 /\ n = 2) \/ (off = 1 /\ n = 1)
    OBVIOUS
  <1> QED
    BY <1>6, <1>7, <1>8, <1>9

(* The payload arm.                                                        *)

LEMMA PayloadState ==
    ASSUME NEW l \in Nat, NEW z \in Nat, NEW off \in Nat, Fits(l, z, off), off >= 2, off < 2 + l,
           NEW n \in Nat, n >= 1, n <= 2 + l - off
    PROVE  [RdState(l, z, off) EXCEPT !.payload = @ - n] =
                IF off + n < z THEN RdState(l, z, off + n) ELSE NeedHeader(<< >>)
  <1> DEFINE k == off + n
             p == 2 + l - k
  <1>1. l >= 1 /\ 2 + l <= z /\ off < z
    BY DEF Fits
  <1>2. k \in Nat /\ k >= 2 /\ k <= 2 + l /\ (2 + l - off) - n = p
    BY <1>1
  <1>3. [RdState(l, z, off) EXCEPT !.payload = @ - n] = [partial |-> << >>, payload |-> p, pad |-> z - (2 + l)]
    <2>1. RdState(l, z, off) = [partial |-> << >>, payload |-> 2 + l - off, pad |-> z - (2 + l)]
      BY RdInPayload
    <2>2. [RdState(l, z, off) EXCEPT !.payload = @ - n] =
            [partial |-> << >>, payload |-> (2 + l - off) - n, pad |-> z - (2 + l)]
      BY <2>1
    <2> QED
      BY <1>2, <2>2
  <1>4. CASE k < 2 + l
    <2>1. k < z
      BY <1>1, <1>2, <1>4
    <2>2. Fits(l, z, k)
      BY <1>1, <2>1 DEF Fits
    <2>3. RdState(l, z, k) = [partial |-> << >>, payload |-> p, pad |-> z - (2 + l)]
      BY <1>2, <1>4, <2>2, RdInPayload
    <2> QED
      BY <1>3, <2>1, <2>3
  <1>5. CASE k = 2 + l /\ k < z
    <2>1. Fits(l, z, k)
      BY <1>1, <1>5 DEF Fits
    <2>2. RdState(l, z, k) = [partial |-> << >>, payload |-> 0, pad |-> z - k]
      BY <1>2, <1>5, <2>1, RdInPad
    <2>3. p = 0 /\ z - (2 + l) = z - k
      BY <1>2, <1>5
    <2> QED
      BY <1>3, <1>5, <2>2, <2>3
  <1>6. CASE ~(k < z)
    <2>1. p = 0 /\ z - (2 + l) = 0
      BY <1>1, <1>2, <1>6
    <2> QED
      BY <1>3, <1>6, <2>1 DEF NeedHeader
  <1>7. (k < 2 + l) \/ (k = 2 + l /\ k < z) \/ ~(k < z)
    BY <1>2
  <1> QED
    BY <1>4, <1>5, <1>6, <1>7

LEMMA DoneHeader == ASSUME NEW l \in Nat, NEW off \in Nat, off <= 2 PROVE DoneBytes(l, off) = 0
  BY DEF DoneBytes

LEMMA DonePayload ==
    ASSUME NEW l \in Nat, NEW off \in Nat, off >= 2, off <= 2 + l
    PROVE  DoneBytes(l, off) = off - 2
  <1>1. (off <= 2 => off - 2 = 0) /\ (~(off - 2 < l) => off - 2 = l)
    OBVIOUS
  <1> QED
    BY <1>1 DEF DoneBytes

LEMMA DonePad ==
    ASSUME NEW l \in Nat, NEW off \in Nat, off >= 2 + l, l >= 1
    PROVE  DoneBytes(l, off) = l
  <1>1. ~(off <= 2) /\ ~(off - 2 < l)
    OBVIOUS
  <1> QED
    BY <1>1 DEF DoneBytes

LEMMA PayloadBytes ==
    ASSUME NEW l \in Nat, NEW b \in Nat, NEW off \in Nat, off >= 2, NEW del \in Seq(Nat),
           NEW c \in Nat, c = b + (off - 2), Len(del) = c, Counts(del),
           NEW t, NEW n \in Nat, n <= 2 + l - off, Took(t, n, l, b, off)
    PROVE  del \o t \in Seq(Nat) /\ Len(del \o t) = c + n /\ Counts(del \o t)
  <1>1. /\ del \o t \in Seq(Nat) /\ Len(del \o t) = c + n
        /\ \A i \in 1 .. c + n : (del \o t)[i] = IF i <= c THEN del[i] ELSE t[i - c]
    <2>t. t \in Seq(Nat)
      BY DEF Took
    <2>1. /\ del \o t \in Seq(Nat) /\ Len(del \o t) = Len(del) + Len(t)
          /\ \A i \in 1 .. Len(del) + Len(t) :
                (del \o t)[i] = IF i <= Len(del) THEN del[i] ELSE t[i - Len(del)]
      BY <2>t, ConcatProperties
    <2>2. Len(del) = c /\ Len(t) = n
      BY DEF Took
    <2> QED
      BY ONLY <2>1, <2>2
  <1>2. \A i \in 1 .. c : del[i] = i
    BY DEF Counts
  <1>3. \A i \in 1 .. n : t[i] = PlainByte(l, b, off + i)
    BY DEF Took
  <1>4. ASSUME NEW i \in 1 .. c + n
        PROVE  (del \o t)[i] = i
    <2>1. CASE i <= c
      BY <1>1, <1>2, <2>1
    <2>2. CASE ~(i <= c)
      <3> DEFINE j == i - c
      <3>1. j \in 1 .. n /\ off + j # 1 /\ off + j # 2 /\ off + j <= 2 + l /\ b + ((off + j) - 2) = i
        BY <2>2
      <3>2. (del \o t)[i] = t[j]
        BY <1>1, <2>2
      <3> HIDE DEF j
      <3>3. t[j] = PlainByte(l, b, off + j)
        BY <1>3, <3>1
      <3>4. PlainByte(l, b, off + j) = b + ((off + j) - 2)
        BY <3>1 DEF PlainByte
      <3> QED
        BY <3>1, <3>2, <3>3, <3>4
    <2> QED
      BY <2>1, <2>2
  <1> QED
    BY <1>1, <1>4 DEF Counts

(* The pad arm.                                                            *)
LEMMA PadState ==
    ASSUME NEW l \in Nat, NEW z \in Nat, NEW off \in Nat, Fits(l, z, off), off >= 2 + l,
           NEW n \in Nat, n >= 1, n <= z - off
    PROVE  [RdState(l, z, off) EXCEPT !.pad = @ - n] =
                IF off + n < z THEN RdState(l, z, off + n) ELSE NeedHeader(<< >>)
  <1> DEFINE k == off + n
  <1>1. l >= 1 /\ 2 + l <= z /\ off < z
    BY DEF Fits
  <1>2. k \in Nat /\ k >= 2 + l /\ k <= z /\ (z - off) - n = z - k
    BY <1>1
  <1>3. [RdState(l, z, off) EXCEPT !.pad = @ - n] = [partial |-> << >>, payload |-> 0, pad |-> z - k]
    <2>1. RdState(l, z, off) = [partial |-> << >>, payload |-> 0, pad |-> z - off]
      BY RdInPad
    <2>2. [RdState(l, z, off) EXCEPT !.pad = @ - n] = [partial |-> << >>, payload |-> 0, pad |-> (z - off) - n]
      BY <2>1
    <2> QED
      BY <1>2, <2>2
  <1>4. CASE k < z
    <2>1. Fits(l, z, k)
      BY <1>1, <1>4 DEF Fits
    <2>2. RdState(l, z, k) = [partial |-> << >>, payload |-> 0, pad |-> z - k]
      BY <1>2, <2>1, RdInPad
    <2> QED
      BY <1>3, <1>4, <2>2
  <1>5. CASE ~(k < z)
    <2>1. z - k = 0
      BY <1>2, <1>5
    <2> QED
      BY <1>3, <1>5, <2>1 DEF NeedHeader
  <1> QED
    BY <1>4, <1>5

-----------------------------------------------------------------------------
(* A byte in the socket means that the reader is inside a frame.           *)
Inside(lay, out, acc, in, f, off, z, rd, del) ==
    /\ At(lay, out, acc, in, f, off, z) /\ Reading(f, off, rd, del)
    /\ Fits(f.len, z, off) /\ z = PaddedFrameSize(2 + f.len) /\ f.len \in Nat /\ f.base \in Nat

LEMMA InsideAt ==
    ASSUME NEW lay, NEW out \in Nat, NEW acc \in Nat, NEW in \in Nat, in < out, NEW rd, NEW del,
           Chain(lay, out, acc), ReaderAt(lay, in, rd, del)
    PROVE  \E f \in FrameRecs, off \in Nat, z \in Nat : Inside(lay, out, acc, in, f, off, z, rd, del)
  <1>1. PICK f \in FrameRecs, off \in Nat, z \in Nat : At(lay, out, acc, in, f, off, z)
    BY FrameHere
  <1>2. f.len \in Nat /\ f.base \in Nat /\ f.start \in Nat
    BY DEF FrameRecs
  <1>3. f = lay[in + 1] /\ in = f.start + off /\ z = PaddedFrameSize(2 + f.len)
    BY <1>1 DEF At, Size
  <1>4. in - f.start = off
    BY <1>2, <1>3
  <1>5. Reading(f, off, rd, del)
    BY <1>3, <1>4 DEF ReaderAt
  <1>6. Fits(f.len, z, off)
    BY <1>1 DEF At, Fits
  <1> QED
    BY <1>1, <1>2, <1>3, <1>5, <1>6 DEF Inside

LEMMA InsideFacts ==
    ASSUME NEW lay, NEW out \in Nat, NEW acc \in Nat, NEW in \in Nat,
           NEW f \in FrameRecs, NEW off \in Nat, NEW z \in Nat, NEW rd, NEW del,
           Inside(lay, out, acc, in, f, off, z, rd, del)
    PROVE  /\ rd = RdState(f.len, z, off) /\ Len(del) = f.base + DoneBytes(f.len, off) /\ Counts(del)
           /\ f.len >= 1 /\ 2 + f.len <= z /\ off < z /\ z < 2 + f.len + Quantum
           /\ f.len <= MaxPayloadPerFrame /\ f.base + f.len <= acc
           /\ f.start + z <= out /\ in = f.start + off
  <1>1. rd = RdState(f.len, z, off) /\ Len(del) = f.base + DoneBytes(f.len, off) /\ Counts(del)
    BY DEF Inside, Reading, StateAt, DoneAt, At
  <1> QED
    BY <1>1 DEF Inside, At

LEMMA HeaderGood ==
    ASSUME NEW s \in Sides, NEW lay, NEW out \in Nat, NEW acc \in Nat, NEW in \in Nat,
           NEW w \in Seq(Items), NEW p \in Seq(Items), NEW n \in 1 .. Len(w),
           Content(s, lay, 0, out, in, w, p), NEW rd, NEW del,
           NEW f \in FrameRecs, NEW off \in Nat, NEW z \in Nat, Inside(lay, out, acc, in, f, off, z, rd, del),
           rd.payload = 0 /\ rd.pad = 0, n <= 2 - Len(rd.partial)
    PROVE  ReaderAt(lay, in + n, AfterHeader(rd.partial \o Descrambled(Key(s), in, Prefix(w, n))), del)
  <1> DEFINE l == f.len
             b == f.base
             t == Descrambled(Key(s), in, Prefix(w, n))
  <1>1. /\ rd = RdState(l, z, off) /\ Len(del) = b + DoneBytes(l, off) /\ Counts(del)
        /\ l >= 1 /\ 2 + l <= z /\ off < z
    BY InsideFacts
  <1>2. l \in Nat /\ b \in Nat /\ z = PaddedFrameSize(2 + l) /\ Fits(l, z, off) /\ At(lay, out, acc, in, f, off, z)
    BY DEF Inside
  <1>3. off < 2
    <2>1. RdState(l, z, off).payload = 0 /\ RdState(l, z, off).pad = 0
      BY <1>1
    <2> HIDE DEF l
    <2> QED
      BY <1>2, <2>1, RdArm
  <1>4. Len(rd.partial) = off
    <2> HIDE DEF l
    <2>1. Len(RdState(l, z, off).partial) = off
      BY <1>2, <1>3, RdInHeader
    <2> QED
      BY <1>1, <2>1
  <1>5. n \in Nat /\ n >= 1 /\ n <= 2 - off /\ Len(w) \in Nat
    BY <1>4
  <1>6. off \in {0, 1} /\ n \in 1 .. 2 - off
    BY <1>3, <1>5
  <1>7. 2 < z /\ n <= z - off /\ off + n < z /\ off + n <= 2 /\ off + n \in Nat
    <2> HIDE DEF l
    <2>1. l >= 1 /\ 2 + l <= z /\ l \in Nat
      BY <1>1, <1>2
    <2>2. 2 < z
      BY <2>1
    <2> QED
      BY <1>3, <1>5, <2>2
  <1>8. t \in Seq(Nat) /\ Len(t) = n /\ \A i \in 1 .. n : t[i] = PlainAt(f, off + i)
    BY <1>2, <1>7, Descrambles
  <1>9. Took(t, n, l, b, off)
    BY <1>8 DEF Took, PlainAt
  <1> HIDE DEF t, l, b
  <1>10. AfterHeader(RdState(l, z, off).partial \o t) = RdState(l, z, off + n)
    <2>1. l \in Nat /\ b \in Nat /\ l >= 1
      BY <1>1, <1>2
    <2>2. AfterHeader(RdState(l, PaddedFrameSize(2 + l), off).partial \o t)
            = RdState(l, PaddedFrameSize(2 + l), off + n)
      BY <1>6, <1>9, <2>1, HeaderState
    <2> QED
      BY <1>2, <2>2
  <1>11. DoneBytes(l, off) = 0 /\ DoneBytes(l, off + n) = 0
    BY <1>2, <1>3, <1>7, DoneHeader
  <1>12. Moved(f, off + n, z, AfterHeader(rd.partial \o t), del)
    <2>1. StateAt(f, off + n) = RdState(l, z, off + n) /\ DoneAt(f, off + n) = DoneBytes(l, off + n)
      BY <1>2 DEF StateAt, DoneAt, Size, l
    <2>2. Len(del) = b + DoneBytes(l, off + n)
      BY <1>1, <1>11
    <2> QED
      BY <1>1, <1>7, <1>10, <2>1, <2>2 DEF Moved, b
  <1>13. n \in 1 .. z - off
    BY <1>5, <1>7
  <1> QED
    BY <1>2, <1>12, <1>13, Advance DEF t

LEMMA PayloadGood ==
    ASSUME NEW s \in Sides, NEW lay, NEW out \in Nat, NEW acc \in Nat, NEW in \in Nat,
           NEW w \in Seq(Items), NEW p \in Seq(Items), NEW n \in 1 .. Len(w),
           Content(s, lay, 0, out, in, w, p), NEW rd, NEW del \in Seq(Nat),
           NEW f \in FrameRecs, NEW off \in Nat, NEW z \in Nat, Inside(lay, out, acc, in, f, off, z, rd, del),
           n <= rd.payload
    PROVE  LET t == Descrambled(Key(s), in, Prefix(w, n)) IN
           /\ del \o t \in Seq(Nat) /\ Len(del \o t) = Len(del) + n /\ Len(del) + n <= acc
           /\ Counts(del \o t)
           /\ ReaderAt(lay, in + n, [rd EXCEPT !.payload = @ - n], del \o t)
  <1> DEFINE l == f.len
             b == f.base
             t == Descrambled(Key(s), in, Prefix(w, n))
  <1>1. /\ rd = RdState(l, z, off) /\ Len(del) = b + DoneBytes(l, off) /\ Counts(del)
        /\ l >= 1 /\ 2 + l <= z /\ off < z /\ b + l <= acc
    BY InsideFacts
  <1>2. l \in Nat /\ b \in Nat /\ z = PaddedFrameSize(2 + l) /\ Fits(l, z, off) /\ At(lay, out, acc, in, f, off, z)
    BY DEF Inside
  <1>3. n \in Nat /\ n >= 1 /\ n <= Len(w) /\ Len(w) \in Nat /\ Len(del) \in Nat
    OBVIOUS
  <1> HIDE DEF l, b
  <1>4. off >= 2 /\ off < 2 + l
    <2>1. RdState(l, z, off).payload \in 0 .. l
      BY <1>2, RdArm
    <2>2. RdState(l, z, off).payload # 0
      <3>1. n <= RdState(l, z, off).payload
        BY <1>1
      <3> QED
        BY <1>2, <1>3, <2>1, <3>1
    <2> QED
      BY <1>2, <2>2, RdArm
  <1>5. n <= 2 + l - off
    <2>1. RdState(l, z, off).payload = 2 + l - off
      BY <1>2, <1>4, RdInPayload
    <2> QED
      BY <1>1, <2>1
  <1>6. n <= z - off /\ off + n \in Nat /\ off + n >= 2 /\ off + n <= 2 + l /\ (~(off + n < z) => off + n - 2 = l)
    <2>1. l \in Nat /\ l >= 1 /\ 2 + l <= z /\ off < z
      BY <1>1, <1>2
    <2> QED
      BY <1>3, <1>4, <1>5, <2>1
  <1>7. t \in Seq(Nat) /\ Len(t) = n /\ \A i \in 1 .. n : t[i] = PlainAt(f, off + i)
    BY <1>2, <1>6, Descrambles
  <1>8. Took(t, n, l, b, off)
    BY <1>7 DEF Took, PlainAt, l, b
  <1> HIDE DEF t
  <1> DEFINE c == b + (off - 2)
  <1>9. DoneBytes(l, off) = off - 2 /\ DoneBytes(l, off + n) = off + n - 2
    BY <1>2, <1>4, <1>6, DonePayload
  <1>10. c \in Nat /\ Len(del) = c
    <2>1. c \in Nat
      BY <1>2, <1>4
    <2> QED
      BY <1>1, <1>9, <2>1
  <1>11. del \o t \in Seq(Nat) /\ Len(del \o t) = c + n /\ Counts(del \o t)
    <2>1. c = b + (off - 2)
      OBVIOUS
    <2> HIDE DEF c
    <2>2. l \in Nat /\ b \in Nat /\ off >= 2 /\ c \in Nat /\ n \in Nat /\ n <= 2 + l - off
      BY <1>2, <1>3, <1>4, <1>5, <1>10
    <2>3. Len(del) = c /\ Counts(del)
      BY <1>1, <1>10
    <2> QED
      BY <1>8, <2>1, <2>2, <2>3, PayloadBytes
  <1>12. [RdState(l, z, off) EXCEPT !.payload = @ - n] =
            IF off + n < z THEN RdState(l, z, off + n) ELSE NeedHeader(<< >>)
    BY <1>2, <1>3, <1>4, <1>5, PayloadState
  <1>13. Moved(f, off + n, z, [rd EXCEPT !.payload = @ - n], del \o t)
    <2>1. StateAt(f, off + n) = RdState(l, z, off + n) /\ DoneAt(f, off + n) = DoneBytes(l, off + n)
      BY <1>2 DEF StateAt, DoneAt, Size, l
    <2>2. c + n = b + (off + n - 2) /\ (~(off + n < z) => c + n = b + l)
      <3>1. ~(off + n < z) => off + n - 2 = l
        BY <1>6
      <3> QED
        BY <1>2, <1>3, <3>1
    <2>3. Len(del \o t) = b + IF off + n < z THEN DoneAt(f, off + n) ELSE l
      BY <1>9, <1>11, <2>1, <2>2
    <2>4. [rd EXCEPT !.payload = @ - n] = IF off + n < z THEN StateAt(f, off + n) ELSE NeedHeader(<< >>)
      BY <1>1, <1>12, <2>1
    <2> QED
      BY <1>11, <2>3, <2>4 DEF Moved, b, l
  <1>14. n \in 1 .. z - off
    BY <1>3, <1>6
  <1>15. ReaderAt(lay, in + n, [rd EXCEPT !.payload = @ - n], del \o t)
    BY <1>2, <1>13, <1>14, Advance
  <1>16. Len(del) + n <= acc
    <2>1. b + l <= acc /\ off + n <= 2 + l
      BY <1>1, <1>6
    <2> QED
      BY <1>2, <1>3, <1>10, <2>1
  <1>17. Len(del \o t) = Len(del) + n
    BY <1>10, <1>11
  <1> QED
    BY <1>11, <1>15, <1>16, <1>17 DEF t

LEMMA PadGood ==
    ASSUME NEW s \in Sides, NEW lay, NEW out \in Nat, NEW acc \in Nat, NEW in \in Nat,
           NEW n \in Nat, n >= 1, NEW rd, NEW del,
           NEW f \in FrameRecs, NEW off \in Nat, NEW z \in Nat, Inside(lay, out, acc, in, f, off, z, rd, del),
           rd.payload = 0, n <= rd.pad
    PROVE  ReaderAt(lay, in + n, [rd EXCEPT !.pad = @ - n], del)
  <1> DEFINE l == f.len
             b == f.base
  <1>1. /\ rd = RdState(l, z, off) /\ Len(del) = b + DoneBytes(l, off) /\ Counts(del)
        /\ l >= 1 /\ 2 + l <= z /\ off < z
    BY InsideFacts
  <1>2. l \in Nat /\ b \in Nat /\ z = PaddedFrameSize(2 + l) /\ Fits(l, z, off) /\ At(lay, out, acc, in, f, off, z)
    BY DEF Inside
  <1> HIDE DEF l, b
  <1>3. off >= 2 + l
    <2>1. RdState(l, z, off).pad \in Nat /\ n <= RdState(l, z, off).pad /\ RdState(l, z, off).payload = 0
      BY <1>1, <1>2, RdArm
    <2>2. RdState(l, z, off).pad # 0
      BY <2>1
    <2> QED
      BY <1>2, <2>1, <2>2, RdArm
  <1>4. n <= z - off
    <2>1. RdState(l, z, off).pad = z - off
      BY <1>2, <1>3, RdInPad
    <2> QED
      BY <1>1, <2>1
  <1>5. n \in 1 .. z - off /\ off + n \in Nat /\ off + n >= 2 + l
    <2>1. l \in Nat /\ off < z
      BY <1>1, <1>2
    <2> QED
      BY <1>3, <1>4, <2>1
  <1>6. DoneBytes(l, off) = l /\ DoneBytes(l, off + n) = l
    BY <1>1, <1>2, <1>3, <1>5, DonePad
  <1>7. [RdState(l, z, off) EXCEPT !.pad = @ - n] =
            IF off + n < z THEN RdState(l, z, off + n) ELSE NeedHeader(<< >>)
    BY <1>2, <1>3, <1>4, PadState
  <1>8. Moved(f, off + n, z, [rd EXCEPT !.pad = @ - n], del)
    <2>1. StateAt(f, off + n) = RdState(l, z, off + n) /\ DoneAt(f, off + n) = DoneBytes(l, off + n)
      BY <1>2 DEF StateAt, DoneAt, Size, l
    <2>2. Len(del) = b + IF off + n < z THEN DoneAt(f, off + n) ELSE l
      BY <1>1, <1>6, <2>1
    <2>3. [rd EXCEPT !.pad = @ - n] = IF off + n < z THEN StateAt(f, off + n) ELSE NeedHeader(<< >>)
      BY <1>1, <1>7, <2>1
    <2> QED
      BY <1>1, <2>2, <2>3 DEF Moved, b, l
  <1> QED
    BY <1>2, <1>5, <1>8, Advance

-----------------------------------------------------------------------------
(* One direction: the writer s, the socket and the reader of the other     *)
(* end.  h is 1 while a representative stands before the frames.           *)
Stream(s, h, out, in, w, p, rd, acc, del) ==
    /\ out \in Nat /\ in \in Nat /\ acc \in Nat
    /\ w \in Seq(Items) /\ p \in Seq(Items) /\ del \in Seq(Nat)
    /\ Len(w) <= Capacity /\ Len(p) <= MaxPendingBytes /\ acc <= MaxBytes[s]
    /\ \E lay : Good(s, lay, h, out, in, w, p, rd, acc, del)

LEMMA StreamTypes ==
    ASSUME NEW s, NEW h, NEW out, NEW in, NEW w, NEW p, NEW rd, NEW acc, NEW del,
           Stream(s, h, out, in, w, p, rd, acc, del)
    PROVE  /\ out \in Nat /\ in \in Nat /\ acc \in Nat
           /\ w \in Seq(Items) /\ p \in Seq(Items) /\ del \in Seq(Nat)
           /\ Len(w) <= Capacity /\ Len(p) <= MaxPendingBytes /\ acc <= MaxBytes[s]
  BY DEF Stream

(* What is taken, in the socket and parked adds up to what was scrambled.  *)
LEMMA StreamAccount ==
    ASSUME NEW s, NEW h \in {0, 1}, NEW out, NEW in, NEW w, NEW p, NEW rd, NEW acc, NEW del,
           Stream(s, h, out, in, w, p, rd, acc, del)
    PROVE  Len(w) >= h /\ in + (Len(w) - h) + Len(p) = out /\ in <= out
  <1>1. out \in Nat /\ in \in Nat /\ Len(w) \in Nat /\ Len(p) \in Nat
    BY StreamTypes
  <1>2. PICK lay : Good(s, lay, h, out, in, w, p, rd, acc, del)
    BY DEF Stream
  <1>3. Len(w) >= h /\ in + (Len(w) - h) + Len(p) = out
    BY <1>2 DEF Good, Content
  <1> QED
    BY <1>1, <1>3

(* A reader that has taken everything is between frames.                   *)
LEMMA StreamEnd ==
    ASSUME NEW s, NEW h, NEW out, NEW in, NEW w, NEW p, NEW rd, NEW acc, NEW del,
           Stream(s, h, out, in, w, p, rd, acc, del), in = out
    PROVE  rd = NeedHeader(<< >>) /\ Len(del) = acc /\ Counts(del) /\ Aligned(in)
  <1>1. out \in Nat /\ acc \in Nat
    BY StreamTypes
  <1>2. PICK lay : Good(s, lay, h, out, in, w, p, rd, acc, del)
    BY DEF Stream
  <1>3. Chain(lay, out, acc) /\ ReaderAt(lay, out, rd, del)
    BY <1>2 DEF Good
  <1>4. lay[out + 1].start = out /\ lay[out + 1].base = acc
    BY <1>3 DEF Chain
  <1>5. out + 1 \in 1 .. out + 1
    BY <1>1
  <1>6. Aligned(lay[out + 1].start)
    BY <1>3, <1>5 DEF Chain
  <1> DEFINE f == lay[out + 1]
  <1>7. Reading(f, out - f.start, rd, del)
    BY <1>3 DEF ReaderAt
  <1>8. out - f.start = 0
    BY <1>1, <1>4
  <1>9. Reading(f, 0, rd, del)
    BY <1>7, <1>8
  <1> HIDE DEF f
  <1>10. rd = NeedHeader(<< >>) /\ Len(del) = f.base + 0 /\ Counts(del)
    BY <1>9 DEF Reading, StateAt, RdState, DoneAt, DoneBytes
  <1>11. Len(del) = acc
    BY <1>1, <1>4, <1>10 DEF f
  <1> QED
    BY <1>4, <1>6, <1>10, <1>11

(* A reader that has not is inside a frame.                                *)
LEMMA StreamInside ==
    ASSUME NEW s, NEW h, NEW out, NEW in, NEW w, NEW p, NEW rd, NEW acc, NEW del,
           Stream(s, h, out, in, w, p, rd, acc, del), in < out
    PROVE  \E lay : \E f \in FrameRecs, off \in Nat, z \in Nat :
               /\ Good(s, lay, h, out, in, w, p, rd, acc, del)
               /\ Inside(lay, out, acc, in, f, off, z, rd, del)
  <1>1. out \in Nat /\ acc \in Nat /\ in \in Nat
    BY StreamTypes
  <1>2. PICK lay : Good(s, lay, h, out, in, w, p, rd, acc, del)
    BY DEF Stream
  <1>3. Chain(lay, out, acc) /\ ReaderAt(lay, in, rd, del)
    BY <1>2 DEF Good
  <1>4. \E f \in FrameRecs, off \in Nat, z \in Nat : Inside(lay, out, acc, in, f, off, z, rd, del)
    BY <1>1, <1>3, InsideAt
  <1> QED
    BY <1>2, <1>4

(* The reader's state and what it has delivered.                           *)
Tidy(in, rd, acc, del) ==
    /\ rd.payload \in 0 .. MaxPayloadPerFrame /\ rd.pad \in 0 .. Quantum - 1 /\ Len(rd.partial) <= 1
    /\ rd.payload = 0 /\ rd.pad = 0 => (in - Len(rd.partial)) % Quantum = 0
    /\ Len(del) <= acc /\ Counts(del)

LEMMA TidyAtEnd ==
    ASSUME NEW in \in Nat, NEW acc \in Nat, NEW del, Aligned(in), Len(del) = acc, Counts(del)
    PROVE  Tidy(in, NeedHeader(<< >>), acc, del)
  <1>1. in % Quantum = 0
    BY AlignedMod
  <1>2. MaxPayloadPerFrame \in Nat /\ Quantum \in Nat /\ Quantum > 2
    BY PayloadRoom, ScrambleAssumption
  <1>3. 0 \in 0 .. MaxPayloadPerFrame /\ 0 \in 0 .. Quantum - 1 /\ in - 0 = in
    BY <1>2
  <1>4. Len(<< >>) = 0
    OBVIOUS
  <1> QED
    BY <1>1, <1>3, <1>4 DEF Tidy, NeedHeader

LEMMA TidyInside ==
    ASSUME NEW lay, NEW out \in Nat, NEW acc \in Nat, NEW in \in Nat,
           NEW f \in FrameRecs, NEW off \in Nat, NEW z \in Nat, NEW rd, NEW del \in Seq(Nat),
           Inside(lay, out, acc, in, f, off, z, rd, del), Aligned(f.start)
    PROVE  Tidy(in, rd, acc, del)
  <1> DEFINE l == f.len
             b == f.base
  <1>1. /\ rd = RdState(l, z, off) /\ Len(del) = b + DoneBytes(l, off) /\ Counts(del)
        /\ l >= 1 /\ 2 + l <= z /\ off < z /\ z < 2 + l + Quantum
        /\ l <= MaxPayloadPerFrame /\ b + l <= acc /\ in = f.start + off
    BY InsideFacts
  <1>2. l \in Nat /\ b \in Nat /\ Fits(l, z, off) /\ f.start \in Nat
    BY DEF Inside, FrameRecs
  <1>3. f.start % Quantum = 0
    BY <1>2, AlignedMod
  <1> HIDE DEF l, b
  <1>4. MaxPayloadPerFrame \in Nat /\ Quantum \in Nat /\ Quantum > 2 /\ Len(del) \in Nat
    BY PayloadRoom, ScrambleAssumption
  <1> DEFINE y == RdState(l, z, off)
             pay == y.payload
             pad == y.pad
  <1>5. pay \in 0 .. l /\ pad \in Nat /\ pad <= z - (2 + l) /\ Len(y.partial) <= 1
    BY <1>2, RdArm
  <1>6. pay = 0 /\ pad = 0 => off < 2
    BY <1>2, RdArm
  <1>7. ASSUME off < 2 PROVE Len(y.partial) = off
    BY <1>2, <1>7, RdInHeader
  <1>8. DoneBytes(l, off) \in Nat /\ DoneBytes(l, off) <= l
    <2>1. l \in Nat /\ l >= 1
      BY <1>1, <1>2
    <2>2. CASE off <= 2
      BY <2>1, <2>2, DoneHeader
    <2>3. CASE off >= 2 /\ off <= 2 + l
      BY <2>1, <2>3, DonePayload
    <2>4. CASE off >= 2 + l
      BY <2>1, <2>4, DonePad
    <2> QED
      BY <2>1, <2>2, <2>3, <2>4
  <1> HIDE DEF y, pay, pad
  <1>9. pay \in 0 .. MaxPayloadPerFrame /\ pad \in 0 .. Quantum - 1
    <2>1. l <= MaxPayloadPerFrame /\ z < 2 + l + Quantum
      BY <1>1
    <2> QED
      BY <1>2, <1>4, <1>5, <2>1
  <1>10. Len(del) <= acc
    <2> DEFINE d == DoneBytes(l, off)
    <2>1. Len(del) = b + d /\ b + l <= acc /\ d \in Nat /\ d <= l
      BY <1>1, <1>8
    <2> HIDE DEF d
    <2> QED
      BY <1>2, <2>1
  <1>11. ASSUME pay = 0, pad = 0 PROVE (in - Len(y.partial)) % Quantum = 0
    <2>1. Len(y.partial) = off
      BY <1>6, <1>7, <1>11
    <2>2. in - off = f.start
      BY <1>1, <1>2
    <2> QED
      BY <1>3, <2>1, <2>2
  <1> QED
    BY <1>1, <1>5, <1>9, <1>10, <1>11 DEF Tidy, y, pay, pad

LEMMA StreamTidy ==
    ASSUME NEW s, NEW h \in {0, 1}, NEW out, NEW in, NEW w, NEW p, NEW rd, NEW acc, NEW del,
           Stream(s, h, out, in, w, p, rd, acc, del)
    PROVE  Tidy(in, rd, acc, del)
  <1>1. out \in Nat /\ in \in Nat /\ acc \in Nat /\ in <= out /\ del \in Seq(Nat)
    BY StreamTypes, StreamAccount
  <1>2. CASE in = out
    BY <1>1, <1>2, StreamEnd, TidyAtEnd
  <1>3. CASE in < out
    <2>1. PICK lay : \E f \in FrameRecs, off \in Nat, z \in Nat :
               /\ Good(s, lay, h, out, in, w, p, rd, acc, del)
               /\ Inside(lay, out, acc, in, f, off, z, rd, del)
      BY <1>3, StreamInside
    <2>2. PICK f \in FrameRecs, off \in Nat, z \in Nat :
               /\ Good(s, lay, h, out, in, w, p, rd, acc, del)
               /\ Inside(lay, out, acc, in, f, off, z, rd, del)
      BY <2>1
    <2>3. f = lay[in + 1]
      BY <2>2 DEF Inside, At
    <2>4. in + 1 \in 1 .. out + 1
      BY <1>1
    <2>5. Aligned(f.start)
      BY <2>2, <2>3, <2>4 DEF Good, Chain
    <2> QED
      BY <1>1, <2>2, <2>5, TidyInside
  <1> QED
    BY <1>1, <1>2, <1>3

-----------------------------------------------------------------------------
(* What each action does to a direction.  The representative is written    *)
(* before the first frame, and read before it.                             *)
LEMMA StreamSend ==
    ASSUME NEW s \in Sides, NEW in, NEW w, NEW p, NEW rd, NEW acc, NEW del,
           Stream(s, 0, 0, in, w, p, rd, acc, del)
    PROVE  Stream(s, 1, 0, in, Append(w, Representative(s)), p, rd, acc, del)
           /\ Append(w, Representative(s))[1] = Representative(s) /\ w = << >>
  <1> DEFINE v == Append(w, Representative(s))
  <1>1. /\ in \in Nat /\ acc \in Nat /\ w \in Seq(Items) /\ p \in Seq(Items) /\ del \in Seq(Nat)
        /\ Len(p) <= MaxPendingBytes /\ acc <= MaxBytes[s]
    BY StreamTypes
  <1>a. in + (Len(w) - 0) + Len(p) = 0
    BY StreamAccount
  <1>2. in + (Len(w) - 0) + Len(p) = 0 /\ Len(w) \in Nat /\ Len(p) \in Nat
    BY <1>1, <1>a
  <1>3. in = 0 /\ Len(w) = 0 /\ Len(p) = 0
    BY <1>1, <1>2
  <1>4. w = << >>
    BY <1>1, <1>3, EmptySeq
  <1>5. Representative(s) \in Items
    BY DEF Representative, Items
  <1>6. v \in Seq(Items) /\ Len(v) = 1 /\ v[1] = Representative(s)
    BY <1>1, <1>3, <1>4, <1>5
  <1> HIDE DEF v
  <1>7. Capacity \in Nat /\ 1 <= Capacity
    BY ScrambleAssumption
  <1>8. PICK lay : Good(s, lay, 0, 0, in, w, p, rd, acc, del)
    BY DEF Stream
  <1>9. Content(s, lay, 1, 0, in, v, p)
    <2>1. Len(v) >= 1 /\ in + (Len(v) - 1) + Len(p) = 0
      BY <1>3, <1>6
    <2>2. \A j \in 1 .. Len(v) - 1 : v[1 + j] = ByteAt(s, lay, in + j)
      BY <1>6
    <2>3. \A j \in 1 .. Len(p) : p[j] = ByteAt(s, lay, 0 - Len(p) + j)
      BY <1>3
    <2> QED
      BY <2>1, <2>2, <2>3 DEF Content
  <1>10. Good(s, lay, 1, 0, in, v, p, rd, acc, del)
    BY <1>8, <1>9 DEF Good
  <1>11. Stream(s, 1, 0, in, v, p, rd, acc, del)
    BY <1>1, <1>6, <1>7, <1>10 DEF Stream
  <1> QED
    BY <1>4, <1>6, <1>11 DEF v

LEMMA StreamTail ==
    ASSUME NEW s \in Sides, NEW out, NEW in, NEW w, NEW p, NEW rd, NEW acc, NEW del,
           Stream(s, 1, out, in, w, p, rd, acc, del)
    PROVE  Stream(s, 0, out, in, Tail(w), p, rd, acc, del)
  <1> DEFINE v == Tail(w)
  <1>1. /\ out \in Nat /\ in \in Nat /\ acc \in Nat /\ w \in Seq(Items) /\ p \in Seq(Items) /\ del \in Seq(Nat)
        /\ Len(w) <= Capacity /\ Len(p) <= MaxPendingBytes /\ acc <= MaxBytes[s]
    BY StreamTypes
  <1>a. Len(w) >= 1
    BY StreamAccount
  <1>2. Len(w) \in Nat /\ Len(p) \in Nat /\ Len(w) >= 1
    BY <1>1, <1>a
  <1>3. w # << >>
    BY <1>2
  <1>4. v \in Seq(Items) /\ Len(v) = Len(w) - 1 /\ \A j \in 1 .. Len(v) : v[j] = w[j + 1]
    BY <1>1, <1>3, HeadTailProperties
  <1> HIDE DEF v
  <1>5. PICK lay : Good(s, lay, 1, out, in, w, p, rd, acc, del)
    BY DEF Stream
  <1>6. Content(s, lay, 1, out, in, w, p)
    BY <1>5 DEF Good
  <1>7. Content(s, lay, 0, out, in, v, p)
    <2>1. /\ in + (Len(w) - 1) + Len(p) = out
          /\ \A j \in 1 .. Len(w) - 1 : w[1 + j] = ByteAt(s, lay, in + j)
          /\ \A j \in 1 .. Len(p) : p[j] = ByteAt(s, lay, out - Len(p) + j)
      BY <1>6 DEF Content
    <2>2. Len(v) >= 0 /\ in + (Len(v) - 0) + Len(p) = out
      <3>1. in + (Len(w) - 1) + Len(p) = out /\ Len(v) = Len(w) - 1
        BY <1>4, <2>1
      <3> QED
        BY <1>1, <1>2, <3>1
    <2>3. ASSUME NEW j \in 1 .. Len(v) - 0 PROVE v[0 + j] = ByteAt(s, lay, in + j)
      <3>1. j \in 1 .. Len(v) /\ j \in 1 .. Len(w) - 1 /\ 0 + j = j /\ j + 1 = 1 + j
        BY <1>2, <1>4
      <3> QED
        BY <1>4, <2>1, <3>1
    <2> QED
      BY <2>1, <2>2, <2>3 DEF Content
  <1>8. Good(s, lay, 0, out, in, v, p, rd, acc, del)
    BY <1>5, <1>7 DEF Good
  <1>9. Len(v) <= Capacity
    <2>1. Len(v) = Len(w) - 1 /\ Len(w) <= Capacity /\ Capacity \in Nat
      BY <1>1, <1>4, ScrambleAssumption
    <2> QED
      BY <1>2, <2>1
  <1>10. Stream(s, 0, out, in, v, p, rd, acc, del)
    BY <1>1, <1>4, <1>8, <1>9 DEF Stream
  <1> QED
    BY <1>10 DEF v

(* The socket, holding w, takes the first n of the bytes p.                *)
Takes(w, p, n) == n \in Nat /\ n <= Len(p) /\ n <= Capacity - Len(w)

LEMMA SocketTakes ==
    ASSUME NEW w \in Seq(Items), NEW p \in Seq(Items), NEW n \in Nat,
           n <= LeastOf(Len(p), Capacity - Len(w))
    PROVE  Takes(w, p, n)
  <1>1. Len(w) \in Nat /\ Len(p) \in Nat /\ Capacity \in Nat
    BY ScrambleAssumption
  <1> QED
    BY <1>1 DEF Takes, LeastOf

LEMMA HeadKept ==
    ASSUME NEW w \in Seq(Items), NEW p \in Seq(Items), NEW n, Takes(w, p, n), Len(w) >= 1
    PROVE  (w \o Prefix(p, n))[1] = w[1]
  <1> DEFINE a == Prefix(p, n)
  <1>1. n \in 0 .. Len(p) /\ Len(w) \in Nat
    BY DEF Takes
  <1>2. a \in Seq(Items) /\ Len(a) \in Nat
    BY <1>1, Split
  <1> HIDE DEF a
  <1>3. \A j \in 1 .. Len(w) + Len(a) : (w \o a)[j] = IF j <= Len(w) THEN w[j] ELSE a[j - Len(w)]
    BY <1>2, ConcatProperties
  <1>4. 1 \in 1 .. Len(w) + Len(a) /\ 1 <= Len(w)
    BY <1>1, <1>2
  <1> QED
    BY <1>3, <1>4 DEF a

(* drain_pending.                                                          *)
LEMMA StreamDrain ==
    ASSUME NEW s \in Sides, NEW h \in {0, 1}, NEW out, NEW in, NEW w, NEW p, NEW rd, NEW acc, NEW del,
           Stream(s, h, out, in, w, p, rd, acc, del),
           NEW n, Takes(w, p, n)
    PROVE  Stream(s, h, out, in, w \o Prefix(p, n), Rest(p, n), rd, acc, del)
  <1> DEFINE a == Prefix(p, n)
             r == Rest(p, n)
             v == w \o a
  <1>1. /\ out \in Nat /\ in \in Nat /\ acc \in Nat /\ w \in Seq(Items) /\ p \in Seq(Items) /\ del \in Seq(Nat)
        /\ Len(w) <= Capacity /\ Len(p) <= MaxPendingBytes /\ acc <= MaxBytes[s]
    BY StreamTypes
  <1>a. Len(w) >= h
    BY StreamAccount
  <1>n. n \in Nat /\ n <= Len(p) /\ n <= Capacity - Len(w)
    BY DEF Takes
  <1>2. Len(w) \in Nat /\ Len(p) \in Nat /\ Len(w) >= h /\ n \in 0 .. Len(p)
    BY <1>1, <1>a, <1>n
  <1>3. a \in Seq(Items) /\ Len(a) = n /\ r \in Seq(Items) /\ Len(r) = Len(p) - n
    BY <1>1, <1>2, Split
  <1> HIDE DEF a, r
  <1>4. /\ v \in Seq(Items) /\ Len(v) = Len(w) + Len(a)
        /\ \A j \in 1 .. Len(w) + Len(a) : v[j] = IF j <= Len(w) THEN w[j] ELSE a[j - Len(w)]
    BY <1>1, <1>3, ConcatProperties
  <1> HIDE DEF v
  <1>5. Len(v) <= Capacity /\ Len(r) <= MaxPendingBytes
    <2>1. Len(v) = Len(w) + n /\ Len(r) = Len(p) - n /\ Len(p) <= MaxPendingBytes
          /\ Capacity \in Nat /\ MaxPendingBytes \in Nat
      BY <1>1, <1>3, <1>4, ScrambleAssumption, PayloadRoom
    <2> QED
      BY <1>2, <1>n, <2>1
  <1>7. PICK lay : Good(s, lay, h, out, in, w, p, rd, acc, del)
    BY DEF Stream
  <1>8. Content(s, lay, h, out, in, w, p)
    BY <1>7 DEF Good
  <1>9. h \in Nat
    OBVIOUS
  <1>10. Content(s, lay, h, out, in, v, r)
    BY <1>1, <1>2, <1>8, <1>9, DrainContent DEF v, a, r
  <1>11. Good(s, lay, h, out, in, v, r, rd, acc, del)
    BY <1>7, <1>10 DEF Good
  <1>12. Stream(s, h, out, in, v, r, rd, acc, del)
    BY <1>1, <1>3, <1>4, <1>5, <1>11 DEF Stream
  <1> QED
    BY <1>12 DEF v, a, r

(* poll_write, seen as parking the whole frame and draining what the       *)
(* socket takes of it.                                                     *)
LEMMA StreamWrite ==
    ASSUME NEW s \in Sides, NEW h \in {0, 1}, NEW out, NEW in, NEW w, NEW rd, NEW acc, NEW del,
           Stream(s, h, out, in, w, << >>, rd, acc, del),
           NEW len \in 1 .. MaxPayloadPerFrame, acc + len <= MaxBytes[s],
           NEW plain \in Seq(Nat), IsFrame(plain, NewFrame(out, acc, len), PaddedFrameSize(2 + len)),
           NEW n, Takes(w, Scrambled(Key(s), out, plain), n)
    PROVE  LET bytes == Scrambled(Key(s), out, plain)
               v == w \o Prefix(bytes, n)
           IN  /\ bytes \in Seq(Items) /\ Len(bytes) \in Nat
               /\ Stream(s, h, out + Len(bytes), in, v, Rest(bytes, n), rd, acc + len, del)
  <1> DEFINE bytes == Scrambled(Key(s), out, plain)
             z == PaddedFrameSize(2 + len)
             new(lay) == NextLayout(lay, out, acc, len)
  <1>1. /\ out \in Nat /\ in \in Nat /\ acc \in Nat /\ w \in Seq(Items) /\ del \in Seq(Nat)
        /\ Len(w) <= Capacity
    BY StreamTypes
  <1>a. in <= out
    BY StreamAccount
  <1>2. in \in 0 .. out /\ h \in Nat
    BY <1>1, <1>a
  <1>3. PICK lay : Good(s, lay, h, out, in, w, << >>, rd, acc, del)
    BY DEF Stream
  <1>4. Chain(lay, out, acc) /\ Content(s, lay, h, out, in, w, << >>) /\ ReaderAt(lay, in, rd, del)
    BY <1>3 DEF Good
  <1>5. z \in Nat /\ z <= MaxPendingBytes
    BY SizeBounds
  <1>6. Chain(new(lay), out + z, acc + len)
    BY <1>1, <1>4, WriteChain
  <1>7. bytes \in Seq(Items) /\ Len(bytes) = z /\ Content(s, new(lay), h, out + z, in, w, bytes)
    BY <1>1, <1>2, <1>4, WriteContent
  <1>8. ReaderAt(new(lay), in, rd, del)
    BY <1>1, <1>2, <1>4, WriteReader
  <1>l. len \in Nat
    BY PayloadRoom
  <1> HIDE DEF bytes, z, new
  <1>9. Good(s, new(lay), h, out + z, in, w, bytes, rd, acc + len, del)
    BY <1>6, <1>7, <1>8 DEF Good
  <1>10. out + z \in Nat /\ acc + len \in Nat
    BY <1>1, <1>5, <1>l
  <1>11. Stream(s, h, out + z, in, w, bytes, rd, acc + len, del)
    BY <1>1, <1>5, <1>7, <1>9, <1>10 DEF Stream
  <1>12. Takes(w, bytes, n)
    BY DEF bytes
  <1>13. Stream(s, h, out + z, in, w \o Prefix(bytes, n), Rest(bytes, n), rd, acc + len, del)
    BY <1>11, <1>12, StreamDrain
  <1> QED
    BY <1>5, <1>7, <1>13 DEF bytes

(* The three arms of poll_read.                                            *)
LEMMA TakeStream ==
    ASSUME NEW s \in Sides, NEW lay, NEW out, NEW in, NEW w, NEW p, NEW rd, NEW acc, NEW del,
           Stream(s, 0, out, in, w, p, rd, acc, del), Good(s, lay, 0, out, in, w, p, rd, acc, del),
           NEW n \in 1 .. Len(w), NEW new, NEW got \in Seq(Nat), ReaderAt(lay, in + n, new, got)
    PROVE  Stream(s, 0, out, in + n, Rest(w, n), p, new, acc, got)
  <1> DEFINE v == Rest(w, n)
  <1>1. /\ out \in Nat /\ in \in Nat /\ acc \in Nat /\ w \in Seq(Items) /\ p \in Seq(Items)
        /\ Len(w) <= Capacity /\ Len(p) <= MaxPendingBytes /\ acc <= MaxBytes[s]
    BY StreamTypes
  <1>2. Len(w) \in Nat /\ n \in Nat /\ n \in 0 .. Len(w)
    BY <1>1
  <1>3. v \in Seq(Items) /\ Len(v) = Len(w) - n
    BY <1>1, <1>2, Split
  <1>4. Content(s, lay, 0, out, in + n, v, p)
    <2>1. Content(s, lay, 0, out, in, w, p)
      BY DEF Good
    <2> QED
      BY <1>1, <1>2, <2>1, TakeContent
  <1> HIDE DEF v
  <1>5. Good(s, lay, 0, out, in + n, v, p, new, acc, got)
    BY <1>4 DEF Good
  <1>6. Len(v) <= Capacity /\ in + n \in Nat
    <2>1. Capacity \in Nat /\ Len(v) = Len(w) - n /\ Len(w) <= Capacity
      BY <1>1, <1>3, ScrambleAssumption
    <2> QED
      BY <1>1, <1>2, <2>1
  <1>7. Stream(s, 0, out, in + n, v, p, new, acc, got)
    BY <1>1, <1>3, <1>5, <1>6 DEF Stream
  <1> QED
    BY <1>7 DEF v

LEMMA StreamByte ==
    ASSUME NEW s \in Sides, NEW out, NEW in, NEW w, NEW p, NEW rd, NEW acc, NEW del,
           Stream(s, 0, out, in, w, p, rd, acc, del), NEW n \in Nat, 1 <= n, n <= Len(w)
    PROVE  n \in 1 .. Len(w) /\ in < out
  <1>1. /\ out \in Nat /\ in \in Nat /\ Len(w) \in Nat /\ Len(p) \in Nat
    BY StreamTypes
  <1>2. in + (Len(w) - 0) + Len(p) = out
    BY StreamAccount
  <1> QED
    BY <1>1, <1>2

LEMMA StreamHeader ==
    ASSUME NEW s \in Sides, NEW out, NEW in, NEW w, NEW p, NEW rd, NEW acc, NEW del,
           Stream(s, 0, out, in, w, p, rd, acc, del), NEW n \in Nat, 1 <= n, n <= Len(w),
           rd.payload = 0 /\ rd.pad = 0, n <= 2 - Len(rd.partial)
    PROVE  Stream(s, 0, out, in + n, Rest(w, n), p,
                  AfterHeader(rd.partial \o Descrambled(Key(s), in, Prefix(w, n))), acc, del)
  <1>1. /\ out \in Nat /\ in \in Nat /\ acc \in Nat /\ w \in Seq(Items) /\ p \in Seq(Items) /\ del \in Seq(Nat)
    BY StreamTypes
  <1>2. n \in 1 .. Len(w) /\ in < out
    BY StreamByte
  <1>3. PICK lay : \E f \in FrameRecs, off \in Nat, z \in Nat :
               /\ Good(s, lay, 0, out, in, w, p, rd, acc, del)
               /\ Inside(lay, out, acc, in, f, off, z, rd, del)
    BY <1>2, StreamInside
  <1>4. PICK f \in FrameRecs, off \in Nat, z \in Nat :
               /\ Good(s, lay, 0, out, in, w, p, rd, acc, del)
               /\ Inside(lay, out, acc, in, f, off, z, rd, del)
    BY <1>3
  <1>5. Content(s, lay, 0, out, in, w, p)
    BY <1>4 DEF Good
  <1>6. ReaderAt(lay, in + n, AfterHeader(rd.partial \o Descrambled(Key(s), in, Prefix(w, n))), del)
    BY <1>1, <1>2, <1>4, <1>5, HeaderGood
  <1> QED
    BY <1>1, <1>2, <1>4, <1>6, TakeStream

LEMMA StreamPayload ==
    ASSUME NEW s \in Sides, NEW out, NEW in, NEW w, NEW p, NEW rd, NEW acc, NEW del,
           Stream(s, 0, out, in, w, p, rd, acc, del), NEW n \in Nat, 1 <= n, n <= Len(w), n <= rd.payload
    PROVE  LET got == del \o Descrambled(Key(s), in, Prefix(w, n)) IN
           /\ Stream(s, 0, out, in + n, Rest(w, n), p, [rd EXCEPT !.payload = @ - n], acc, got)
           /\ Len(got) = Len(del) + n /\ Len(del) + n <= acc /\ Counts(got)
  <1> DEFINE got == del \o Descrambled(Key(s), in, Prefix(w, n))
             new == [rd EXCEPT !.payload = @ - n]
  <1>1. /\ out \in Nat /\ in \in Nat /\ acc \in Nat /\ w \in Seq(Items) /\ p \in Seq(Items) /\ del \in Seq(Nat)
    BY StreamTypes
  <1>2. n \in 1 .. Len(w) /\ in < out
    BY StreamByte
  <1>3. PICK lay : \E f \in FrameRecs, off \in Nat, z \in Nat :
               /\ Good(s, lay, 0, out, in, w, p, rd, acc, del)
               /\ Inside(lay, out, acc, in, f, off, z, rd, del)
    BY <1>2, StreamInside
  <1>4. PICK f \in FrameRecs, off \in Nat, z \in Nat :
               /\ Good(s, lay, 0, out, in, w, p, rd, acc, del)
               /\ Inside(lay, out, acc, in, f, off, z, rd, del)
    BY <1>3
  <1>5. Content(s, lay, 0, out, in, w, p)
    BY <1>4 DEF Good
  <1>6. /\ got \in Seq(Nat) /\ Len(got) = Len(del) + n /\ Len(del) + n <= acc
        /\ Counts(got) /\ ReaderAt(lay, in + n, new, got)
    BY <1>1, <1>2, <1>4, <1>5, PayloadGood
  <1> HIDE DEF got, new
  <1>7. Stream(s, 0, out, in + n, Rest(w, n), p, new, acc, got)
    BY <1>1, <1>2, <1>4, <1>6, TakeStream
  <1> QED
    BY <1>6, <1>7 DEF got, new

LEMMA StreamPad ==
    ASSUME NEW s \in Sides, NEW out, NEW in, NEW w, NEW p, NEW rd, NEW acc, NEW del,
           Stream(s, 0, out, in, w, p, rd, acc, del), NEW n \in Nat, 1 <= n, n <= Len(w),
           rd.payload = 0, n <= rd.pad
    PROVE  Stream(s, 0, out, in + n, Rest(w, n), p, [rd EXCEPT !.pad = @ - n], acc, del)
  <1> DEFINE new == [rd EXCEPT !.pad = @ - n]
  <1>1. /\ out \in Nat /\ in \in Nat /\ acc \in Nat /\ w \in Seq(Items) /\ p \in Seq(Items) /\ del \in Seq(Nat)
    BY StreamTypes
  <1>2. n \in 1 .. Len(w) /\ in < out
    BY StreamByte
  <1>3. PICK lay : \E f \in FrameRecs, off \in Nat, z \in Nat :
               /\ Good(s, lay, 0, out, in, w, p, rd, acc, del)
               /\ Inside(lay, out, acc, in, f, off, z, rd, del)
    BY <1>2, StreamInside
  <1>4. PICK f \in FrameRecs, off \in Nat, z \in Nat :
               /\ Good(s, lay, 0, out, in, w, p, rd, acc, del)
               /\ Inside(lay, out, acc, in, f, off, z, rd, del)
    BY <1>3
  <1>5. n >= 1
    OBVIOUS
  <1>6. ReaderAt(lay, in + n, new, del)
    BY <1>1, <1>4, <1>5, PadGood
  <1> HIDE DEF new
  <1>7. Stream(s, 0, out, in + n, Rest(w, n), p, new, acc, del)
    BY <1>1, <1>2, <1>4, <1>6, TakeStream
  <1> QED
    BY <1>7 DEF new

-----------------------------------------------------------------------------
(* The inductive invariant.  Rep(s): the representative of s has been      *)
(* written and not yet read.                                               *)
Rep(s) ==
    /\ phase["dialer"] = "half"
    /\ phase["listener"] = IF s = "dialer" THEN "start" ELSE "done"
Tokens(s) == IF Rep(s) THEN 1 ELSE 0

Typed ==
    /\ phase \in [Sides -> {"start", "half", "done"}] /\ theirs \in [Sides -> Sides]
    /\ outPos \in [Sides -> Nat] /\ inPos \in [Sides -> Nat] /\ accepted \in [Sides -> Nat]
    /\ pending \in [Sides -> Seq(Items)] /\ wire \in [Sides -> Seq(Items)]
    /\ delivered \in [Sides -> Seq(Nat)] /\ DOMAIN reader = Sides
    /\ writing \in [Sides -> {"open", "closed", "failed"}]
    /\ eof \in [Sides -> {"none", "clean", "truncated"}]

(* scramble_handshake: the ends are at most one step apart, and nobody has *)
(* written a frame before it is done.                                      *)
Steps ==
    \/ phase["dialer"] = "start" /\ phase["listener"] = "start"
    \/ phase["dialer"] = "half" /\ phase["listener"] \in {"start", "half", "done"}
    \/ phase["dialer"] = "done" /\ phase["listener"] = "done"

Handshake ==
    /\ Steps
    /\ phase["listener"] # "start" => theirs["listener"] = "dialer"
    /\ phase["dialer"] = "done" => theirs["dialer"] = "listener"
    /\ \A s \in Sides : phase[s] # "done" => outPos[s] = 0
    /\ \A s \in Sides : Rep(s) => wire[s][1] = Representative(s)

StreamOf(s) ==
    Stream(s, Tokens(s), outPos[s], inPos[Other(s)], wire[s], pending[s],
           reader[Other(s)], accepted[s], delivered[Other(s)])

Streams == \A s \in Sides : StreamOf(s)

(* Every XOR was with a keystream byte that its cipher has gone past.      *)
Passed == \A x \in pads : \E s \in Sides : x[1] = Key(s) /\ x[2] \in 1 .. outPos[s]

(* An end of file comes after the last byte in the socket, and a clean     *)
(* close leaves nothing parked.                                            *)
EndOf(s) ==
    /\ eof[s] # "none" => writing[Other(s)] # "open" /\ wire[Other(s)] = << >> /\ phase[s] = "done"
    /\ writing[s] = "closed" => pending[s] = << >> /\ phase[s] = "done"
    /\ eof[s] = "truncated" => writing[Other(s)] = "failed"

Ends == \A s \in Sides : EndOf(s)

IndInv == Typed /\ Handshake /\ Streams /\ KeystreamUsedOnce /\ Passed /\ Ends

LEMMA Others ==
    ASSUME NEW s \in Sides
    PROVE  /\ Other(s) \in Sides /\ Other(s) # s /\ Other(Other(s)) = s
           /\ \A t \in Sides : t = s \/ t = Other(s)
  BY DEF Sides, Other

LEMMA OneOrNone == ASSUME NEW s PROVE Tokens(s) \in {0, 1}
  BY DEF Tokens

(* Both ends derive the same two keys.                                     *)
LEMMA KeysAgree ==
    ASSUME NEW s \in Sides, phase[s] = "done", Typed, Handshake
    PROVE  OutKey(s) = Key(s) /\ InKey(s) = Key(Other(s))
  <1>1. theirs[s] = Other(s)
    BY DEF Sides, Other, Handshake, Steps
  <1>2. {s, Other(s)} = {Other(s), Other(Other(s))}
    BY Others
  <1> QED
    BY <1>1, <1>2 DEF OutKey, InKey, Key, DirectionKey

LEMMA KeysApart ==
    ASSUME NEW s \in Sides, NEW t \in Sides, Key(s) = Key(t) PROVE s = t
  BY DEF Key, DirectionKey

(* A step that leaves a direction alone.                                   *)
LEMMA SameStream ==
    ASSUME NEW s \in Sides, StreamOf(s), Tokens(s)' = Tokens(s), outPos'[s] = outPos[s],
           inPos'[Other(s)] = inPos[Other(s)], wire'[s] = wire[s], pending'[s] = pending[s],
           reader'[Other(s)] = reader[Other(s)], accepted'[s] = accepted[s],
           delivered'[Other(s)] = delivered[Other(s)]
    PROVE  StreamOf(s)'
  BY DEF StreamOf

(* A handshake writer has written nothing yet.                             *)
LEMMA SendRepresentativePreserves ==
    ASSUME IndInv, NEW s \in Sides, SendRepresentative(s) PROVE IndInv'
  <1> DEFINE o == Other(s)
             rep == Representative(s)
  <1>1. /\ WritesNow(s) /\ writing[s] = "open"
        /\ wire' = [wire EXCEPT ![s] = Append(@, rep)] /\ phase' = NextPhase(s)
        /\ UNCHANGED <<theirs, pending, outPos, inPos, reader, writing, accepted, delivered, eof, pads>>
    BY DEF SendRepresentative
  <1>2. o \in Sides /\ o # s /\ Other(o) = s /\ \A t \in Sides : t = s \/ t = o
    BY Others
  <1>3. Typed /\ Handshake /\ Streams /\ KeystreamUsedOnce /\ Passed /\ Ends
    BY DEF IndInv
  <1>4. /\ phase \in [Sides -> {"start", "half", "done"}] /\ wire \in [Sides -> Seq(Items)]
    BY <1>3 DEF Typed
  <1>5. phase'[s] = (IF s = "dialer" THEN "half" ELSE "done") /\ phase'[o] = phase[o]
    BY <1>1, <1>2, <1>4 DEF WritesNow, NextPhase
  <1>6. phase[s] # "done" /\ ~Rep(s) /\ Rep(s)' /\ ~Rep(o) /\ ~Rep(o)'
    BY <1>1, <1>2, <1>3, <1>5 DEF WritesNow, Rep, Handshake, Steps, Sides, Other
  <1>7. outPos[s] = 0
    BY <1>3, <1>6 DEF Handshake
  <1>8. wire'[s] = Append(wire[s], rep) /\ wire'[o] = wire[o]
    BY <1>1, <1>2, <1>4
  <1>9. Stream(s, 0, 0, inPos[o], wire[s], pending[s], reader[o], accepted[s], delivered[o])
    BY <1>3, <1>6, <1>7 DEF Streams, StreamOf, Tokens
  <1> HIDE DEF rep
  <1>10. /\ Stream(s, 1, 0, inPos[o], Append(wire[s], rep), pending[s], reader[o], accepted[s], delivered[o])
         /\ Append(wire[s], rep)[1] = rep /\ wire[s] = << >>
    BY <1>9, StreamSend DEF rep
  <1>11. StreamOf(s)'
    <2>1. Tokens(s)' = 1 /\ outPos'[s] = 0 /\ inPos' = inPos /\ pending' = pending /\ reader' = reader
          /\ accepted' = accepted /\ delivered' = delivered
      BY <1>1, <1>6, <1>7 DEF Tokens
    <2> QED
      BY <1>8, <1>10, <2>1 DEF StreamOf
  <1>12. StreamOf(o)'
    <2>1. StreamOf(o) /\ Tokens(o)' = Tokens(o)
      BY <1>2, <1>3, <1>6 DEF Streams, Tokens
    <2> QED
      BY <1>1, <1>2, <1>8, <2>1, SameStream
  <1>13. Streams'
    BY <1>2, <1>11, <1>12 DEF Streams
  <1>14. Typed'
    <2>1. wire'[s] \in Seq(Items)
      BY <1>8, <1>10, StreamTypes
    <2>2. wire' \in [Sides -> Seq(Items)]
      BY <1>1, <1>2, <1>4, <1>8, <2>1
    <2>3. phase' \in [Sides -> {"start", "half", "done"}]
      BY <1>1, <1>4 DEF NextPhase
    <2> QED
      BY <1>1, <1>3, <2>2, <2>3 DEF Typed
  <1>15. Handshake'
    <2>1. Steps'
      BY <1>1, <1>2, <1>3, <1>5 DEF WritesNow, Handshake, Steps, Sides, Other
    <2>2. /\ phase'["listener"] # "start" => phase["listener"] # "start"
          /\ phase'["dialer"] = "done" => phase["dialer"] = "done"
      BY <1>1, <1>2, <1>5 DEF WritesNow, Sides, Other
    <2>3. \A t \in Sides : phase'[t] # "done" => phase[t] # "done"
      BY <1>2, <1>5, <1>6
    <2>4. Rep(s)' => wire'[s][1] = Representative(s)
      BY <1>8, <1>10 DEF rep
    <2>5. \A t \in Sides : Rep(t)' => wire'[t][1] = Representative(t)
      BY <1>2, <1>6, <2>4
    <2> QED
      BY <1>1, <1>3, <2>1, <2>2, <2>3, <2>5 DEF Handshake
  <1>16. Ends'
    <2>1. EndOf(s) /\ EndOf(o)
      BY <1>2, <1>3 DEF Ends
    <2>2. EndOf(s)'
      BY <1>1, <1>2, <1>6, <1>8, <2>1 DEF EndOf
    <2>3. EndOf(o)'
      BY <1>1, <1>2, <1>5, <1>8, <2>1 DEF EndOf
    <2> QED
      BY <1>2, <2>2, <2>3 DEF Ends
  <1>17. KeystreamUsedOnce' /\ Passed'
    BY <1>1, <1>3 DEF KeystreamUsedOnce, Passed
  <1> QED
    BY <1>13, <1>14, <1>15, <1>16, <1>17 DEF IndInv

LEMMA ReadRepresentativePreserves ==
    ASSUME IndInv, NEW s \in Sides, ReadRepresentative(s) PROVE IndInv'
  <1> DEFINE o == Other(s)
  <1>1. /\ ReadsNow(s) /\ wire[o] # << >> /\ writing[s] = "open"
        /\ theirs' = [theirs EXCEPT ![s] = Head(wire[o]).rep]
        /\ wire' = [wire EXCEPT ![o] = Tail(@)] /\ phase' = NextPhase(s)
        /\ UNCHANGED <<pending, outPos, inPos, reader, writing, accepted, delivered, eof, pads>>
    BY DEF ReadRepresentative
  <1>2. o \in Sides /\ o # s /\ Other(o) = s /\ \A t \in Sides : t = s \/ t = o
    BY Others
  <1>3. Typed /\ Handshake /\ Streams /\ KeystreamUsedOnce /\ Passed /\ Ends
    BY DEF IndInv
  <1>4. /\ phase \in [Sides -> {"start", "half", "done"}] /\ wire \in [Sides -> Seq(Items)]
        /\ theirs \in [Sides -> Sides]
    BY <1>3 DEF Typed
  <1>5. phase'[s] = (IF s = "dialer" THEN "done" ELSE "half") /\ phase'[o] = phase[o]
    BY <1>1, <1>2, <1>4 DEF ReadsNow, NextPhase
  <1>6. Stream(o, Tokens(o), outPos[o], inPos[s], wire[o], pending[o], reader[s], accepted[o], delivered[s])
    BY <1>2, <1>3 DEF Streams, StreamOf
  <1>7. Rep(o)
    <2> SUFFICES ASSUME ~Rep(o) PROVE FALSE
      OBVIOUS
    <2>1. phase[o] # "done"
      BY <1>1, <1>2, <1>3 DEF ReadsNow, Rep, Handshake, Steps, Sides, Other
    <2>2. outPos[o] = 0 /\ Tokens(o) = 0
      BY <1>2, <1>3, <2>1 DEF Handshake, Tokens
    <2>3. Stream(o, 0, 0, inPos[s], wire[o], pending[o], reader[s], accepted[o], delivered[s])
      BY <1>6, <2>2
    <2> QED
      BY <1>1, <1>2, <2>3, StreamSend
  <1>8. phase[s] # "done" /\ ~Rep(s) /\ ~Rep(s)' /\ ~Rep(o)'
    BY <1>1, <1>2, <1>3, <1>5, <1>7 DEF ReadsNow, Rep, Sides, Other
  <1>9. wire'[o] = Tail(wire[o]) /\ wire'[s] = wire[s]
    BY <1>1, <1>2, <1>4
  <1>10. Stream(o, 0, outPos[o], inPos[s], Tail(wire[o]), pending[o], reader[s], accepted[o], delivered[s])
    <2>1. Tokens(o) = 1
      BY <1>7 DEF Tokens
    <2> QED
      BY <1>2, <1>6, <2>1, StreamTail
  <1>11. StreamOf(o)'
    <2>1. Tokens(o)' = 0
      BY <1>8 DEF Tokens
    <2> QED
      BY <1>1, <1>2, <1>9, <1>10, <2>1 DEF StreamOf
  <1>12. StreamOf(s)'
    <2>1. StreamOf(s) /\ Tokens(s)' = Tokens(s)
      BY <1>3, <1>8 DEF Streams, Tokens
    <2> QED
      BY <1>1, <1>9, <2>1, SameStream
  <1>13. Streams'
    BY <1>2, <1>11, <1>12 DEF Streams
  <1>14. theirs'[s] = o /\ theirs'[o] = theirs[o] /\ theirs' \in [Sides -> Sides]
    <2>1. wire[o][1] = Representative(o)
      BY <1>2, <1>3, <1>7 DEF Handshake
    <2>2. Head(wire[o]).rep = o
      BY <2>1 DEF Representative
    <2> QED
      BY <1>1, <1>2, <1>4, <2>2
  <1>15. Typed'
    <2>1. wire'[o] \in Seq(Items)
      BY <1>9, <1>10, StreamTypes
    <2>2. wire' \in [Sides -> Seq(Items)]
      BY <1>1, <1>2, <1>4, <1>9, <2>1
    <2>3. phase' \in [Sides -> {"start", "half", "done"}]
      BY <1>1, <1>4 DEF NextPhase
    <2> QED
      BY <1>1, <1>3, <1>14, <2>2, <2>3 DEF Typed
  <1>16. Handshake'
    <2>1. Steps'
      BY <1>2, <1>5, <1>7 DEF Rep, Steps, Sides, Other
    <2>2. /\ phase'["listener"] # "start" => theirs'["listener"] = "dialer"
          /\ phase'["dialer"] = "done" => theirs'["dialer"] = "listener"
      BY <1>2, <1>3, <1>5, <1>7, <1>14 DEF Handshake, Rep, Sides, Other
    <2>3. \A t \in Sides : phase'[t] # "done" => phase[t] # "done"
      BY <1>2, <1>5, <1>8
    <2>4. \A t \in Sides : Rep(t)' => wire'[t][1] = Representative(t)
      BY <1>2, <1>8
    <2> QED
      BY <1>1, <1>3, <2>1, <2>2, <2>3, <2>4 DEF Handshake
  <1>17. Ends'
    <2>1. EndOf(s) /\ EndOf(o)
      BY <1>2, <1>3 DEF Ends
    <2>2. EndOf(s)'
      BY <1>1, <1>2, <1>8, <1>9, <2>1 DEF EndOf
    <2>3. EndOf(o)'
      BY <1>1, <1>2, <1>5, <1>9, <2>1 DEF EndOf
    <2> QED
      BY <1>2, <2>2, <2>3 DEF Ends
  <1>18. KeystreamUsedOnce' /\ Passed'
    BY <1>1, <1>3 DEF KeystreamUsedOnce, Passed
  <1> QED
    BY <1>13, <1>15, <1>16, <1>17, <1>18 DEF IndInv

(* Steps of the connection leave the phases alone.                         *)
LEMMA SamePhase ==
    ASSUME phase' = phase, NEW s \in Sides
    PROVE  (Rep(s)' <=> Rep(s)) /\ Tokens(s)' = Tokens(s)
  BY DEF Rep, Tokens

LEMMA SameHandshake ==
    ASSUME Handshake, phase' = phase, theirs' = theirs,
           \A s \in Sides : phase[s] # "done" => outPos'[s] = outPos[s],
           \A s \in Sides : Rep(s) => wire'[s][1] = wire[s][1]
    PROVE  Handshake'
  <1>1. Steps'
    BY DEF Handshake, Steps
  <1>2. /\ phase'["listener"] # "start" => theirs'["listener"] = "dialer"
        /\ phase'["dialer"] = "done" => theirs'["dialer"] = "listener"
    BY DEF Handshake
  <1>3. \A s \in Sides : phase'[s] # "done" => outPos'[s] = 0
    BY DEF Handshake
  <1>4. \A s \in Sides : Rep(s)' => wire'[s][1] = Representative(s)
    BY SamePhase DEF Handshake
  <1> QED
    BY <1>1, <1>2, <1>3, <1>4 DEF Handshake

(* A step of the writer's end: wire[s], pending[s], outPos[s] and          *)
(* accepted[s] move.                                                       *)
WriterMoves(s) ==
    /\ phase' = phase /\ theirs' = theirs /\ inPos' = inPos /\ reader' = reader
    /\ writing' = writing /\ delivered' = delivered /\ eof' = eof
    /\ wire'[Other(s)] = wire[Other(s)] /\ pending'[Other(s)] = pending[Other(s)]
    /\ outPos'[Other(s)] = outPos[Other(s)] /\ accepted'[Other(s)] = accepted[Other(s)]
    /\ wire' \in [Sides -> Seq(Items)] /\ pending' \in [Sides -> Seq(Items)]
    /\ outPos' \in [Sides -> Nat] /\ accepted' \in [Sides -> Nat]

LEMMA WriterPreserves ==
    ASSUME IndInv, NEW s \in Sides, CanWrite(s), WriterMoves(s), StreamOf(s)',
           Rep(s) => wire'[s][1] = wire[s][1], KeystreamUsedOnce', Passed'
    PROVE  IndInv'
  <1> DEFINE o == Other(s)
  <1>1. o \in Sides /\ o # s /\ Other(o) = s /\ \A t \in Sides : t = s \/ t = o
    BY Others
  <1>2. Typed /\ Handshake /\ Streams /\ Ends
    BY DEF IndInv
  <1>3. /\ phase' = phase /\ theirs' = theirs /\ inPos' = inPos /\ reader' = reader
        /\ writing' = writing /\ delivered' = delivered /\ eof' = eof
        /\ wire'[o] = wire[o] /\ pending'[o] = pending[o] /\ outPos'[o] = outPos[o] /\ accepted'[o] = accepted[o]
    BY DEF WriterMoves
  <1>4. phase[s] = "done" /\ writing[s] = "open"
    BY DEF CanWrite
  <1>5. Typed'
    BY <1>2 DEF Typed, WriterMoves
  <1>6. StreamOf(o)'
    <2>1. StreamOf(o) /\ Tokens(o)' = Tokens(o)
      BY <1>1, <1>2, <1>3, SamePhase DEF Streams
    <2> QED
      BY <1>1, <1>3, <2>1, SameStream
  <1>7. Streams'
    BY <1>1, <1>6 DEF Streams
  <1>8. Handshake'
    <2>1. \A t \in Sides : phase[t] # "done" => outPos'[t] = outPos[t]
      BY <1>1, <1>3, <1>4
    <2>2. \A t \in Sides : Rep(t) => wire'[t][1] = wire[t][1]
      BY <1>1, <1>3
    <2> QED
      BY <1>2, <1>3, <2>1, <2>2, SameHandshake
  <1>9. Ends'
    <2>1. EndOf(s) /\ EndOf(o)
      BY <1>1, <1>2 DEF Ends
    <2>2. EndOf(s)'
      BY <1>1, <1>3, <1>4, <2>1 DEF EndOf
    <2>3. EndOf(o)'
      BY <1>1, <1>3, <1>4, <2>1 DEF EndOf
    <2> QED
      BY <1>1, <2>2, <2>3 DEF Ends
  <1> QED
    BY <1>5, <1>7, <1>8, <1>9 DEF IndInv

LEMMA DrainPendingPreserves ==
    ASSUME IndInv, NEW s \in Sides, NEW n \in Nat, DrainPending(s, n) PROVE IndInv'
  <1> DEFINE o == Other(s)
             v == wire[s] \o Prefix(pending[s], n)
             r == Rest(pending[s], n)
  <1>1. /\ CanWrite(s) /\ n <= LeastOf(Len(pending[s]), Room(s))
        /\ wire' = [wire EXCEPT ![s] = v] /\ pending' = [pending EXCEPT ![s] = r]
        /\ UNCHANGED <<phase, theirs, outPos, inPos, reader, writing, accepted, delivered, eof, pads>>
    BY DEF DrainPending, Parked
  <1>2. o \in Sides /\ o # s
    BY Others
  <1>3. Typed /\ Handshake /\ Streams /\ KeystreamUsedOnce /\ Passed
    BY DEF IndInv
  <1>4. /\ wire \in [Sides -> Seq(Items)] /\ pending \in [Sides -> Seq(Items)]
        /\ outPos \in [Sides -> Nat] /\ accepted \in [Sides -> Nat]
    BY <1>3 DEF Typed
  <1>5. Takes(wire[s], pending[s], n)
    <2>1. n <= LeastOf(Len(pending[s]), Capacity - Len(wire[s])) /\ wire[s] \in Seq(Items) /\ pending[s] \in Seq(Items)
      BY <1>1, <1>4 DEF Room
    <2> QED
      BY <2>1, SocketTakes
  <1>6. Stream(s, Tokens(s), outPos[s], inPos[o], wire[s], pending[s], reader[o], accepted[s], delivered[o])
    BY <1>3 DEF Streams, StreamOf
  <1>7. Stream(s, Tokens(s), outPos[s], inPos[o], v, r, reader[o], accepted[s], delivered[o])
    BY <1>5, <1>6, OneOrNone, StreamDrain
  <1>8. v \in Seq(Items) /\ r \in Seq(Items)
    BY <1>7, StreamTypes
  <1>9. ASSUME Rep(s) PROVE v[1] = wire[s][1]
    <2>1. Tokens(s) = 1
      BY <1>9 DEF Tokens
    <2>2. Stream(s, 1, outPos[s], inPos[o], wire[s], pending[s], reader[o], accepted[s], delivered[o])
      BY <1>6, <2>1
    <2>3. Len(wire[s]) >= 1
      BY <2>2, StreamAccount
    <2> QED
      BY <1>4, <1>5, <2>3, HeadKept
  <1> HIDE DEF v, r
  <1>10. wire'[s] = v /\ pending'[s] = r /\ wire'[o] = wire[o] /\ pending'[o] = pending[o]
    BY <1>1, <1>2, <1>4
  <1>11. StreamOf(s)'
    <2>1. Tokens(s)' = Tokens(s)
      BY <1>1, SamePhase
    <2> QED
      BY <1>1, <1>7, <1>10, <2>1 DEF StreamOf
  <1>12. WriterMoves(s)
    <2>1. wire' \in [Sides -> Seq(Items)] /\ pending' \in [Sides -> Seq(Items)]
      BY <1>1, <1>4, <1>8
    <2> QED
      BY <1>1, <1>4, <1>10, <2>1 DEF WriterMoves
  <1>13. KeystreamUsedOnce' /\ Passed'
    BY <1>1, <1>3 DEF KeystreamUsedOnce, Passed
  <1> QED
    BY <1>1, <1>9, <1>10, <1>11, <1>12, <1>13, WriterPreserves

(* The keystream bytes of a new frame have not been used before.           *)
NewPads(s, out, z, plain) == {<<Key(s), out + i, <<s, plain[i]>> >> : i \in 1 .. z}

LEMMA FreshPads ==
    ASSUME NEW s \in Sides, NEW z \in Nat, NEW plain, outPos \in [Sides -> Nat],
           KeystreamUsedOnce, Passed, outPos' = [outPos EXCEPT ![s] = outPos[s] + z],
           pads' = pads \cup NewPads(s, outPos[s], z, plain)
    PROVE  KeystreamUsedOnce' /\ Passed'
  <1> DEFINE out == outPos[s]
  <1>o. out \in Nat /\ outPos' = [outPos EXCEPT ![s] = out + z]
        /\ pads' = pads \cup {<<Key(s), out + i, <<s, plain[i]>> >> : i \in 1 .. z}
    BY DEF NewPads
  <1>q. out = outPos[s]
    OBVIOUS
  <1> HIDE DEF out
  <1> DEFINE new(i) == <<Key(s), out + i, <<s, plain[i]>> >>
  <1>1. ASSUME NEW x \in pads PROVE \E t \in Sides : x[1] = Key(t) /\ x[2] \in 1 .. outPos'[t]
    <2>1. PICK t \in Sides : x[1] = Key(t) /\ x[2] \in 1 .. outPos[t]
      BY DEF Passed
    <2>2. outPos[t] \in Nat /\ outPos'[t] \in Nat /\ outPos[t] <= outPos'[t]
      BY <1>o, <1>q, <2>1
    <2>3. x[2] \in 1 .. outPos'[t]
      BY <2>1, <2>2
    <2> QED
      BY <2>1, <2>3
  <1>2. ASSUME NEW i \in 1 .. z PROVE new(i)[1] = Key(s) /\ new(i)[2] \in 1 .. outPos'[s] /\ new(i)[2] > out
    BY <1>2, <1>o
  <1>3. ASSUME NEW x \in pads' PROVE x \in pads \/ \E i \in 1 .. z : x = new(i)
    BY <1>3, <1>o
  <1>4. Passed'
    BY <1>1, <1>2, <1>3 DEF Passed
  <1>5. ASSUME NEW x \in pads, NEW i \in 1 .. z, x[1] = new(i)[1], x[2] = new(i)[2] PROVE FALSE
    <2>1. PICK t \in Sides : x[1] = Key(t) /\ x[2] \in 1 .. outPos[t]
      BY DEF Passed
    <2>2. t = s
      BY <1>2, <1>5, <2>1, KeysApart
    <2>3. x[2] \in 1 .. out /\ x[2] > out
      BY <1>q, <1>2, <1>5, <2>1, <2>2
    <2> QED
      BY <1>o, <2>3
  <1>6. ASSUME NEW i \in 1 .. z, NEW j \in 1 .. z, new(i)[2] = new(j)[2] PROVE new(i) = new(j)
    <2>1. out + i = out + j
      BY <1>6
    <2>2. i = j
      BY <1>o, <2>1
    <2> QED
      BY <2>2
  <1> HIDE DEF new
  <1>7. ASSUME NEW x \in pads', NEW y \in pads', x[1] = y[1], x[2] = y[2] PROVE x = y
    <2>1. CASE x \in pads /\ y \in pads
      BY <1>7, <2>1 DEF KeystreamUsedOnce
    <2>2. CASE x \in pads /\ \E i \in 1 .. z : y = new(i)
      BY <1>5, <1>7, <2>2
    <2>3. CASE y \in pads /\ \E i \in 1 .. z : x = new(i)
      BY <1>5, <1>7, <2>3
    <2>4. CASE (\E i \in 1 .. z : x = new(i)) /\ (\E i \in 1 .. z : y = new(i))
      BY <1>6, <1>7, <2>4
    <2> QED
      BY <1>3, <1>7, <2>1, <2>2, <2>3, <2>4
  <1> QED
    BY <1>4, <1>7 DEF KeystreamUsedOnce

LEMMA Payload ==
    ASSUME NEW buf \in Nat, buf >= 1
    PROVE  LET len == LeastOf(buf, MaxPayloadPerFrame) IN len \in 1 .. MaxPayloadPerFrame /\ len <= buf
  BY PayloadRoom DEF LeastOf

LEMMA FrameFits ==
    ASSUME NEW s \in Sides, accepted[s] \in Nat, NEW out \in Nat, NEW len \in 1 .. MaxPayloadPerFrame
    PROVE  /\ Frame(s, len) \in Seq(Nat)
           /\ IsFrame(Frame(s, len), NewFrame(out, accepted[s], len), PaddedFrameSize(2 + len))
  <1>1. Frame(s, len) = FramePlain(accepted[s], len)
    BY DEF Frame, FramePlain
  <1> QED
    BY <1>1, FrameBytes

LEMMA WriteFramePreserves ==
    ASSUME IndInv, NEW s \in Sides, NEW buf \in Nat, buf >= 1, NEW n \in Nat, WriteFrame(s, buf, n)
    PROVE  IndInv'
  <1> DEFINE o == Other(s)
             len == LeastOf(buf, MaxPayloadPerFrame)
             plain == Frame(s, len)
             bytes == Scrambled(OutKey(s), outPos[s], plain)
             v == wire[s] \o Prefix(bytes, n)
             r == Rest(bytes, n)
             z == PaddedFrameSize(2 + len)
  <1>1. /\ Drained(s) /\ accepted[s] + buf <= MaxBytes[s]
        /\ n <= LeastOf(Len(bytes), Room(s))
        /\ outPos' = [outPos EXCEPT ![s] = @ + Len(bytes)]
        /\ wire' = [wire EXCEPT ![s] = v] /\ pending' = [pending EXCEPT ![s] = r]
        /\ accepted' = [accepted EXCEPT ![s] = @ + len]
        /\ pads' = pads \cup {<<bytes[i].key, bytes[i].pos, <<s, plain[i]>> >> : i \in DOMAIN bytes}
        /\ UNCHANGED <<phase, theirs, inPos, reader, writing, delivered, eof>>
    BY DEF WriteFrame, Parked
  <1>2. o \in Sides /\ o # s
    BY Others
  <1>3. Typed /\ Handshake /\ Streams /\ KeystreamUsedOnce /\ Passed
    BY DEF IndInv
  <1>4. /\ wire \in [Sides -> Seq(Items)] /\ pending \in [Sides -> Seq(Items)]
        /\ outPos \in [Sides -> Nat] /\ accepted \in [Sides -> Nat]
    BY <1>3 DEF Typed
  <1>5. CanWrite(s) /\ pending[s] = << >> /\ phase[s] = "done"
    BY <1>1 DEF Drained, CanWrite
  <1>6. OutKey(s) = Key(s)
    BY <1>3, <1>5, KeysAgree
  <1>7. len \in 1 .. MaxPayloadPerFrame /\ len <= buf /\ len \in Nat /\ len >= 1
    <2>1. len \in 1 .. MaxPayloadPerFrame /\ len <= buf
      BY Payload
    <2> QED
      BY <2>1, PayloadRoom
  <1> HIDE DEF len
  <1>8. accepted[s] + len <= MaxBytes[s]
    <2>1. accepted[s] \in Nat /\ MaxBytes[s] \in Nat /\ accepted[s] + buf <= MaxBytes[s]
      BY <1>1, <1>4, ScrambleAssumption
    <2> QED
      BY <1>7, <2>1
  <1>9. plain \in Seq(Nat) /\ IsFrame(plain, NewFrame(outPos[s], accepted[s], len), z)
    <2>1. outPos[s] \in Nat /\ accepted[s] \in Nat
      BY <1>4
    <2> QED
      BY <1>7, <2>1, FrameFits
  <1> HIDE DEF plain
  <1>10. bytes = Scrambled(Key(s), outPos[s], plain)
    BY <1>6
  <1> HIDE DEF bytes
  <1>11. /\ bytes \in Seq(Items) /\ Len(bytes) = z /\ z \in Nat
         /\ \A i \in 1 .. z : bytes[i].key = Key(s) /\ bytes[i].pos = outPos[s] + i
    <2> DEFINE f == NewFrame(outPos[s], accepted[s], len)
    <2>1. outPos[s] \in Nat /\ z \in Nat
      BY <1>4, <1>7, SizeBounds
    <2> HIDE DEF z
    <2>2. IsFrame(plain, f, z) /\ plain \in Seq(Nat)
      BY <1>9
    <2> HIDE DEF f
    <2>3. /\ bytes \in Seq(Items) /\ Len(bytes) = z
          /\ \A i \in 1 .. z : bytes[i] = [v |-> PlainAt(f, i), key |-> Key(s), pos |-> outPos[s] + i]
      BY <1>10, <2>1, <2>2, Cipher
    <2>4. ASSUME NEW i \in 1 .. z PROVE bytes[i].key = Key(s) /\ bytes[i].pos = outPos[s] + i
      BY <2>3
    <2> QED
      BY <2>1, <2>3, <2>4
  <1> HIDE DEF z
  <1>12. Takes(wire[s], bytes, n)
    <2>1. n <= LeastOf(Len(bytes), Capacity - Len(wire[s])) /\ wire[s] \in Seq(Items)
      BY <1>1, <1>4 DEF Room
    <2> QED
      BY <1>11, <2>1, SocketTakes
  <1>13. Stream(s, Tokens(s), outPos[s], inPos[o], wire[s], << >>, reader[o], accepted[s], delivered[o])
    BY <1>3, <1>5 DEF Streams, StreamOf
  <1>14. Stream(s, Tokens(s), outPos[s] + Len(bytes), inPos[o], v, r, reader[o], accepted[s] + len, delivered[o])
    <2>1. Takes(wire[s], Scrambled(Key(s), outPos[s], plain), n)
      BY <1>10, <1>12
    <2>2. IsFrame(plain, NewFrame(outPos[s], accepted[s], len), PaddedFrameSize(2 + len))
      BY <1>9 DEF z
    <2> HIDE DEF v, r
    <2>3. LET b == Scrambled(Key(s), outPos[s], plain) IN
          Stream(s, Tokens(s), outPos[s] + Len(b), inPos[o], wire[s] \o Prefix(b, n), Rest(b, n),
                 reader[o], accepted[s] + len, delivered[o])
      BY <1>7, <1>8, <1>9, <1>13, <2>1, <2>2, OneOrNone, StreamWrite
    <2> QED
      BY <1>10, <2>3 DEF v, r
  <1>15. v \in Seq(Items) /\ r \in Seq(Items)
    BY <1>14, StreamTypes
  <1>16. ASSUME Rep(s) PROVE v[1] = wire[s][1]
    <2>1. Tokens(s) = 1
      BY <1>16 DEF Tokens
    <2>2. Stream(s, 1, outPos[s], inPos[o], wire[s], << >>, reader[o], accepted[s], delivered[o])
      BY <1>13, <2>1
    <2>3. Len(wire[s]) >= 1
      BY <2>2, StreamAccount
    <2> QED
      BY <1>4, <1>11, <1>12, <2>3, HeadKept
  <1> HIDE DEF v, r
  <1>17. /\ wire'[s] = v /\ pending'[s] = r /\ wire'[o] = wire[o] /\ pending'[o] = pending[o]
         /\ outPos'[s] = outPos[s] + Len(bytes) /\ outPos'[o] = outPos[o]
         /\ accepted'[s] = accepted[s] + len /\ accepted'[o] = accepted[o]
    BY <1>1, <1>2, <1>4
  <1>18. StreamOf(s)'
    <2>1. Tokens(s)' = Tokens(s)
      BY <1>1, SamePhase
    <2> QED
      BY <1>1, <1>14, <1>17, <2>1 DEF StreamOf
  <1>19. WriterMoves(s)
    <2>1. wire' \in [Sides -> Seq(Items)] /\ pending' \in [Sides -> Seq(Items)]
      BY <1>1, <1>4, <1>15
    <2>2. outPos' \in [Sides -> Nat] /\ accepted' \in [Sides -> Nat]
      BY <1>1, <1>4, <1>7, <1>11
    <2> QED
      BY <1>1, <1>17, <2>1, <2>2 DEF WriterMoves
  <1>20. KeystreamUsedOnce' /\ Passed'
    <2>1. DOMAIN bytes = 1 .. z
      BY <1>11
    <2>2. pads' = pads \cup NewPads(s, outPos[s], z, plain)
      BY <1>1, <1>11, <2>1 DEF NewPads
    <2>3. outPos' = [outPos EXCEPT ![s] = outPos[s] + z] /\ z \in Nat
      BY <1>1, <1>4, <1>11
    <2> QED
      BY <1>3, <1>4, <2>2, <2>3, FreshPads
  <1> QED
    BY <1>5, <1>16, <1>17, <1>18, <1>19, <1>20, WriterPreserves

(* Steps that move no byte.                                                *)
LEMMA QuietPreserves ==
    ASSUME IndInv, Typed', Ends',
           UNCHANGED <<phase, theirs, pending, outPos, inPos, reader, wire, accepted, delivered, pads>>
    PROVE  IndInv'
  <1>1. Handshake /\ Streams /\ KeystreamUsedOnce /\ Passed
    BY DEF IndInv
  <1>2. Handshake'
    BY <1>1, SameHandshake
  <1>3. ASSUME NEW s \in Sides PROVE StreamOf(s)'
    <2>1. StreamOf(s) /\ Tokens(s)' = Tokens(s)
      BY <1>1, SamePhase DEF Streams
    <2> QED
      BY <2>1, SameStream
  <1>4. KeystreamUsedOnce' /\ Passed'
    BY <1>1 DEF KeystreamUsedOnce, Passed
  <1> QED
    BY <1>2, <1>3, <1>4 DEF IndInv, Streams

LEMMA StartJitterPreserves ==
    ASSUME IndInv, NEW s \in Sides, StartJitter(s) PROVE IndInv'
  <1>1. UNCHANGED <<phase, theirs, pending, outPos, inPos, reader, wire, writing, accepted, delivered, eof, pads>>
    BY DEF StartJitter
  <1>2. Typed' /\ Ends'
    BY <1>1 DEF IndInv, Typed, Ends, EndOf
  <1> QED
    BY <1>1, <1>2, QuietPreserves

LEMMA ClosePreserves ==
    ASSUME IndInv, NEW s \in Sides, Close(s) PROVE IndInv'
  <1> DEFINE o == Other(s)
  <1>1. /\ Drained(s) /\ writing' = [writing EXCEPT ![s] = "closed"]
        /\ UNCHANGED <<phase, theirs, pending, outPos, inPos, reader, wire, accepted, delivered, eof, pads>>
    BY DEF Close
  <1>2. o \in Sides /\ o # s /\ Other(o) = s /\ \A t \in Sides : t = s \/ t = o
    BY Others
  <1>3. Typed /\ EndOf(s) /\ EndOf(o)
    BY <1>2 DEF IndInv, Ends
  <1>4. writing \in [Sides -> {"open", "closed", "failed"}]
    BY <1>3 DEF Typed
  <1>5. writing'[s] = "closed" /\ writing'[o] = writing[o] /\ writing' \in [Sides -> {"open", "closed", "failed"}]
    BY <1>1, <1>2, <1>4
  <1>6. writing[s] = "open" /\ phase[s] = "done" /\ pending[s] = << >>
    BY <1>1 DEF Drained, CanWrite
  <1>7. Typed'
    BY <1>1, <1>3, <1>5 DEF Typed
  <1>8. EndOf(s)' /\ EndOf(o)'
    BY <1>1, <1>2, <1>3, <1>5, <1>6 DEF EndOf
  <1>9. Ends'
    BY <1>2, <1>8 DEF Ends
  <1> QED
    BY <1>1, <1>7, <1>9, QuietPreserves

LEMMA FailPreserves ==
    ASSUME IndInv, NEW s \in Sides, Fail(s) PROVE IndInv'
  <1> DEFINE o == Other(s)
  <1>1. /\ writing[s] = "open" /\ writing' = [writing EXCEPT ![s] = "failed"]
        /\ UNCHANGED <<phase, theirs, pending, outPos, inPos, reader, wire, accepted, delivered, eof, pads>>
    BY DEF Fail
  <1>2. o \in Sides /\ o # s /\ Other(o) = s /\ \A t \in Sides : t = s \/ t = o
    BY Others
  <1>3. Typed /\ EndOf(s) /\ EndOf(o)
    BY <1>2 DEF IndInv, Ends
  <1>4. writing \in [Sides -> {"open", "closed", "failed"}]
    BY <1>3 DEF Typed
  <1>5. writing'[s] = "failed" /\ writing'[o] = writing[o] /\ writing' \in [Sides -> {"open", "closed", "failed"}]
    BY <1>1, <1>2, <1>4
  <1>6. Typed'
    BY <1>1, <1>3, <1>5 DEF Typed
  <1>7. EndOf(s)' /\ EndOf(o)'
    BY <1>1, <1>2, <1>3, <1>5 DEF EndOf
  <1>8. Ends'
    BY <1>2, <1>7 DEF Ends
  <1> QED
    BY <1>1, <1>6, <1>8, QuietPreserves

(* The direction that s, done with the handshake, reads from.              *)
LEMMA ReadsFrom ==
    ASSUME IndInv, NEW s \in Sides, phase[s] = "done"
    PROVE  LET o == Other(s) IN
           Stream(o, 0, outPos[o], inPos[s], wire[o], pending[o], reader[s], accepted[o], delivered[s])
  <1> DEFINE o == Other(s)
  <1>1. o \in Sides /\ Other(o) = s
    BY Others
  <1>2. Stream(o, Tokens(o), outPos[o], inPos[s], wire[o], pending[o], reader[s], accepted[o], delivered[s])
    BY <1>1 DEF IndInv, Streams, StreamOf
  <1>3. ~Rep(o)
    BY DEF Rep, Sides, Other
  <1>4. Tokens(o) = 0
    BY <1>3 DEF Tokens
  <1> QED
    BY <1>2, <1>4

(* The writer closed and the socket is empty: everything was read.         *)
LEMMA AllRead ==
    ASSUME IndInv, NEW s \in Sides, phase[s] = "done", wire[Other(s)] = << >>, writing[Other(s)] = "closed"
    PROVE  reader[s] = NeedHeader(<< >>) /\ Len(delivered[s]) = accepted[Other(s)]
  <1> DEFINE o == Other(s)
  <1>1. o \in Sides
    BY Others
  <1>2. pending[o] = << >>
    BY <1>1 DEF IndInv, Ends, EndOf
  <1>3. Stream(o, 0, outPos[o], inPos[s], << >>, << >>, reader[s], accepted[o], delivered[s])
    BY <1>2, ReadsFrom
  <1>4. inPos[s] \in Nat /\ outPos[o] \in Nat
    BY <1>3, StreamTypes
  <1>5. inPos[s] + (Len(<< >>) - 0) + Len(<< >>) = outPos[o]
    BY <1>3, StreamAccount
  <1>6. inPos[s] = outPos[o]
    BY <1>4, <1>5
  <1> QED
    BY <1>3, <1>6, StreamEnd

LEMMA ReadEofPreserves ==
    ASSUME IndInv, NEW s \in Sides, ReadEof(s) PROVE IndInv'
  <1> DEFINE o == Other(s)
  <1>1. /\ CanRead(s) /\ wire[o] = << >> /\ writing[o] # "open"
        /\ eof' = [eof EXCEPT ![s] =
                     IF InHeader(s) /\ reader[s].partial = << >> THEN "clean" ELSE "truncated"]
        /\ UNCHANGED <<phase, theirs, pending, outPos, inPos, reader, wire, writing, accepted, delivered, pads>>
    BY DEF ReadEof
  <1>2. o \in Sides /\ o # s /\ Other(o) = s /\ \A t \in Sides : t = s \/ t = o
    BY Others
  <1>3. Typed /\ EndOf(s) /\ EndOf(o)
    BY <1>2 DEF IndInv, Ends
  <1>4. eof \in [Sides -> {"none", "clean", "truncated"}] /\ writing \in [Sides -> {"open", "closed", "failed"}]
    BY <1>3 DEF Typed
  <1>5. eof'[o] = eof[o] /\ eof' \in [Sides -> {"none", "clean", "truncated"}]
    BY <1>1, <1>2, <1>4
  <1>6. phase[s] = "done"
    BY <1>1 DEF CanRead
  <1>7. ASSUME eof'[s] = "truncated" PROVE writing[o] = "failed"
    <2>1. ~(InHeader(s) /\ reader[s].partial = << >>)
      BY <1>1, <1>4, <1>7
    <2>2. writing[o] # "closed"
      BY <1>1, <1>6, <2>1, AllRead DEF InHeader, NeedHeader
    <2> QED
      BY <1>1, <1>2, <1>4, <2>2
  <1>8. Typed'
    BY <1>1, <1>3, <1>5 DEF Typed
  <1>9. EndOf(s)'
    BY <1>1, <1>2, <1>3, <1>6, <1>7 DEF EndOf
  <1>10. EndOf(o)'
    BY <1>1, <1>2, <1>3, <1>5 DEF EndOf
  <1>11. Ends'
    BY <1>2, <1>9, <1>10 DEF Ends
  <1> QED
    BY <1>1, <1>8, <1>11, QuietPreserves

(* A step of the reader's end.                                             *)
ReaderMoves(s) ==
    /\ UNCHANGED <<phase, theirs, pending, outPos, writing, accepted, eof, pads>>
    /\ DOMAIN reader' = Sides /\ reader'[Other(s)] = reader[Other(s)]
    /\ delivered' \in [Sides -> Seq(Nat)] /\ delivered'[Other(s)] = delivered[Other(s)]

LEMMA TakeMoves ==
    ASSUME Typed, NEW s \in Sides, NEW n \in Nat, Take(s, n)
    PROVE  LET o == Other(s) IN
           /\ n <= Len(wire[o]) /\ wire'[o] = Rest(wire[o], n) /\ wire'[s] = wire[s]
           /\ inPos'[s] = inPos[s] + n /\ inPos'[o] = inPos[o]
           /\ inPos' \in [Sides -> Nat] /\ wire' \in [Sides -> Seq(Items)]
  <1> DEFINE o == Other(s)
  <1>1. o \in Sides /\ o # s
    BY Others
  <1>2. inPos \in [Sides -> Nat] /\ wire \in [Sides -> Seq(Items)]
    BY DEF Typed
  <1>3. n <= Len(wire[o]) /\ wire' = [wire EXCEPT ![o] = Rest(@, n)] /\ inPos' = [inPos EXCEPT ![s] = @ + n]
    BY DEF Take
  <1>4. wire'[o] = Rest(wire[o], n) /\ wire'[s] = wire[s] /\ inPos'[s] = inPos[s] + n /\ inPos'[o] = inPos[o]
        /\ inPos' \in [Sides -> Nat]
    BY <1>1, <1>2, <1>3
  <1>5. Rest(wire[o], n) \in Seq(Items)
    <2>1. wire[o] \in Seq(Items)
      BY <1>1, <1>2
    <2>2. n \in 0 .. Len(wire[o])
      BY <1>3, <2>1
    <2> QED
      BY <2>1, <2>2, Split
  <1>6. wire' \in [Sides -> Seq(Items)]
    BY <1>2, <1>3, <1>5
  <1> QED
    BY <1>3, <1>4, <1>6

LEMMA ReaderPreserves ==
    ASSUME IndInv, NEW s \in Sides, CanRead(s), NEW n \in Nat, Take(s, n), ReaderMoves(s),
           StreamOf(Other(s))'
    PROVE  IndInv'
  <1> DEFINE o == Other(s)
  <1>1. o \in Sides /\ o # s /\ Other(o) = s /\ \A t \in Sides : t = s \/ t = o
    BY Others
  <1>2. Typed /\ Handshake /\ Streams /\ KeystreamUsedOnce /\ Passed /\ Ends
    BY DEF IndInv
  <1>3. /\ phase' = phase /\ theirs' = theirs /\ pending' = pending /\ outPos' = outPos /\ writing' = writing
        /\ accepted' = accepted /\ eof' = eof /\ pads' = pads
        /\ reader'[o] = reader[o] /\ delivered'[o] = delivered[o]
    BY DEF ReaderMoves
  <1>4. /\ wire'[s] = wire[s] /\ inPos'[o] = inPos[o]
        /\ inPos' \in [Sides -> Nat] /\ wire' \in [Sides -> Seq(Items)]
    BY <1>2, TakeMoves
  <1>5. phase[s] = "done" /\ eof[s] = "none"
    BY DEF CanRead
  <1>6. Typed'
    BY <1>2, <1>3, <1>4 DEF Typed, ReaderMoves
  <1>7. StreamOf(s)'
    <2>1. StreamOf(s) /\ Tokens(s)' = Tokens(s)
      BY <1>2, <1>3, SamePhase DEF Streams
    <2> QED
      BY <1>3, <1>4, <2>1, SameStream
  <1>8. Streams'
    BY <1>1, <1>7 DEF Streams
  <1>9. ~Rep(o)
    BY <1>5 DEF Rep, Sides, Other
  <1>10. Handshake'
    <2>1. \A t \in Sides : Rep(t) => wire'[t][1] = wire[t][1]
      BY <1>1, <1>4, <1>9
    <2> QED
      BY <1>2, <1>3, <2>1, SameHandshake
  <1>11. Ends'
    <2>1. EndOf(s) /\ EndOf(o)
      BY <1>1, <1>2 DEF Ends
    <2>2. EndOf(s)' /\ EndOf(o)'
      BY <1>1, <1>3, <1>4, <1>5, <2>1 DEF EndOf
    <2> QED
      BY <1>1, <2>2 DEF Ends
  <1>12. KeystreamUsedOnce' /\ Passed'
    BY <1>2, <1>3 DEF KeystreamUsedOnce, Passed
  <1> QED
    BY <1>6, <1>8, <1>10, <1>11, <1>12 DEF IndInv

(* Where a reading step leaves the direction it reads from.                *)
LEMMA ReaderStream ==
    ASSUME IndInv, NEW s \in Sides, phase[s] = "done", NEW n \in Nat, Take(s, n), ReaderMoves(s),
           NEW rd, reader'[s] = rd, NEW got, delivered'[s] = got,
           Stream(Other(s), 0, outPos[Other(s)], inPos[s] + n, Rest(wire[Other(s)], n), pending[Other(s)],
                  rd, accepted[Other(s)], got)
    PROVE  StreamOf(Other(s))'
  <1> DEFINE o == Other(s)
  <1>1. o \in Sides /\ Other(o) = s
    BY Others
  <1>2. wire'[o] = Rest(wire[o], n) /\ inPos'[s] = inPos[s] + n
    BY TakeMoves DEF IndInv
  <1>3. phase' = phase /\ pending' = pending /\ outPos' = outPos /\ accepted' = accepted
    BY DEF ReaderMoves
  <1>4. ~Rep(o)'
    BY <1>3 DEF Rep, Sides, Other
  <1>5. Tokens(o)' = 0
    BY <1>4 DEF Tokens
  <1> QED
    BY <1>1, <1>2, <1>3, <1>5 DEF StreamOf

LEMMA ReadHeaderPreserves ==
    ASSUME IndInv, NEW s \in Sides, NEW n \in Nat, 1 <= n, ReadHeader(s, n) PROVE IndInv'
  <1> DEFINE o == Other(s)
             rd == reader[s]
             new == AfterHeader(rd.partial \o Descrambled(Key(o), inPos[s], Prefix(wire[o], n)))
  <1>1. CanRead(s) /\ phase[s] = "done" /\ o \in Sides /\ o # s
    BY Others DEF ReadHeader, CanRead
  <1>2. InKey(s) = Key(o)
    BY <1>1, KeysAgree DEF IndInv
  <1>3. /\ InHeader(s) /\ n <= 2 - Len(rd.partial) /\ Take(s, n)
        /\ reader' = [reader EXCEPT ![s] = new]
        /\ UNCHANGED <<phase, theirs, pending, outPos, writing, accepted, delivered, eof, pads>>
    BY <1>2 DEF ReadHeader, Taken, AfterHeader
  <1>4. Typed
    BY DEF IndInv
  <1>5. Stream(o, 0, outPos[o], inPos[s], wire[o], pending[o], rd, accepted[o], delivered[s])
    BY <1>1, ReadsFrom
  <1>6. n <= Len(wire[o]) /\ rd.payload = 0 /\ rd.pad = 0
    BY <1>3, <1>4, TakeMoves DEF InHeader
  <1>7. Stream(o, 0, outPos[o], inPos[s] + n, Rest(wire[o], n), pending[o], new, accepted[o], delivered[s])
    BY <1>1, <1>3, <1>5, <1>6, StreamHeader
  <1> HIDE DEF new
  <1>8. reader'[s] = new /\ reader'[o] = reader[o] /\ DOMAIN reader' = Sides
    BY <1>1, <1>3, <1>4 DEF Typed
  <1>9. ReaderMoves(s)
    BY <1>3, <1>4, <1>8 DEF ReaderMoves, Typed
  <1>10. StreamOf(o)'
    BY <1>1, <1>3, <1>7, <1>8, <1>9, ReaderStream
  <1> QED
    BY <1>1, <1>3, <1>9, <1>10, ReaderPreserves

(* Payload reaches the caller in order, and never ahead of the writer.     *)
LEMMA ReadPayloadMoves ==
    ASSUME IndInv, NEW s \in Sides, NEW buf \in Nat, NEW n \in Nat, 1 <= n, ReadPayload(s, buf, n)
    PROVE  /\ IndInv'
           /\ delivered'[Other(s)] = delivered[Other(s)]
           /\ Len(delivered'[s]) = Len(delivered[s]) + n /\ Len(delivered[s]) + n <= accepted[Other(s)]
           /\ UNCHANGED <<accepted, writing, eof>>
  <1> DEFINE o == Other(s)
             rd == reader[s]
             new == [rd EXCEPT !.payload = @ - n]
             got == delivered[s] \o Descrambled(Key(o), inPos[s], Prefix(wire[o], n))
  <1>1. CanRead(s) /\ phase[s] = "done" /\ o \in Sides /\ o # s
    BY Others DEF ReadPayload, CanRead
  <1>2. InKey(s) = Key(o)
    BY <1>1, KeysAgree DEF IndInv
  <1>3. /\ n <= LeastOf(buf, rd.payload) /\ Take(s, n)
        /\ delivered' = [delivered EXCEPT ![s] = got]
        /\ reader' = [reader EXCEPT ![s] = new]
        /\ UNCHANGED <<phase, theirs, pending, outPos, writing, accepted, eof, pads>>
    BY <1>2 DEF ReadPayload, Taken
  <1>4. Typed
    BY DEF IndInv
  <1>5. Stream(o, 0, outPos[o], inPos[s], wire[o], pending[o], rd, accepted[o], delivered[s])
    BY <1>1, ReadsFrom
  <1>6. n <= Len(wire[o])
    BY <1>3, <1>4, TakeMoves
  <1>7. rd.payload \in Nat
    <2>1. Tidy(inPos[s], rd, accepted[o], delivered[s])
      BY <1>5, StreamTidy
    <2> QED
      BY <2>1, PayloadRoom DEF Tidy
  <1>8. n <= rd.payload
    <2> DEFINE pay == rd.payload
    <2>1. n <= LeastOf(buf, pay) /\ pay \in Nat
      BY <1>3, <1>7
    <2> HIDE DEF pay
    <2>2. n <= pay
      BY <2>1 DEF LeastOf
    <2> QED
      BY <2>2 DEF pay
  <1>9. /\ Stream(o, 0, outPos[o], inPos[s] + n, Rest(wire[o], n), pending[o], new, accepted[o], got)
        /\ Len(got) = Len(delivered[s]) + n /\ Len(delivered[s]) + n <= accepted[o]
    <2> DEFINE out == outPos[o]
               in == inPos[s]
               w == wire[o]
               p == pending[o]
               acc == accepted[o]
               del == delivered[s]
    <2>1. o \in Sides /\ n <= Len(w) /\ n <= rd.payload /\ Stream(o, 0, out, in, w, p, rd, acc, del)
      BY <1>1, <1>5, <1>6, <1>8
    <2> HIDE DEF o, rd, out, in, w, p, acc, del
    <2>2. LET g == del \o Descrambled(Key(o), in, Prefix(w, n)) IN
          /\ Stream(o, 0, out, in + n, Rest(w, n), p, [rd EXCEPT !.payload = @ - n], acc, g)
          /\ Len(g) = Len(del) + n /\ Len(del) + n <= acc
      BY <2>1, StreamPayload
    <2> QED
      BY <2>2 DEF out, in, w, p, acc, del
  <1>10. got \in Seq(Nat)
    BY <1>9, StreamTypes
  <1> HIDE DEF new, got
  <1>11. /\ reader'[s] = new /\ reader'[o] = reader[o] /\ DOMAIN reader' = Sides
         /\ delivered'[s] = got /\ delivered'[o] = delivered[o] /\ delivered' \in [Sides -> Seq(Nat)]
    BY <1>1, <1>3, <1>4, <1>10 DEF Typed
  <1>12. ReaderMoves(s)
    BY <1>3, <1>11 DEF ReaderMoves
  <1>13. StreamOf(o)'
    BY <1>1, <1>3, <1>9, <1>11, <1>12, ReaderStream
  <1>14. IndInv'
    BY <1>1, <1>3, <1>12, <1>13, ReaderPreserves
  <1> QED
    BY <1>3, <1>9, <1>11, <1>14

LEMMA ReadPadPreserves ==
    ASSUME IndInv, NEW s \in Sides, NEW n \in Nat, 1 <= n, ReadPad(s, n) PROVE IndInv'
  <1> DEFINE o == Other(s)
             rd == reader[s]
             new == [rd EXCEPT !.pad = @ - n]
  <1>1. CanRead(s) /\ phase[s] = "done" /\ o \in Sides /\ o # s
    BY Others DEF ReadPad, CanRead
  <1>2. /\ rd.payload = 0 /\ n <= rd.pad /\ Take(s, n)
        /\ reader' = [reader EXCEPT ![s] = new]
        /\ UNCHANGED <<phase, theirs, pending, outPos, writing, accepted, delivered, eof, pads>>
    BY DEF ReadPad
  <1>3. Typed
    BY DEF IndInv
  <1>4. Stream(o, 0, outPos[o], inPos[s], wire[o], pending[o], rd, accepted[o], delivered[s])
    BY <1>1, ReadsFrom
  <1>5. n <= Len(wire[o])
    BY <1>2, <1>3, TakeMoves
  <1>6. Stream(o, 0, outPos[o], inPos[s] + n, Rest(wire[o], n), pending[o], new, accepted[o], delivered[s])
    BY <1>1, <1>2, <1>4, <1>5, StreamPad
  <1> HIDE DEF new
  <1>7. reader'[s] = new /\ reader'[o] = reader[o] /\ DOMAIN reader' = Sides
    BY <1>1, <1>2, <1>3 DEF Typed
  <1>8. ReaderMoves(s)
    BY <1>2, <1>3, <1>7 DEF ReaderMoves, Typed
  <1>9. StreamOf(o)'
    BY <1>1, <1>2, <1>6, <1>7, <1>8, ReaderStream
  <1> QED
    BY <1>1, <1>2, <1>8, <1>9, ReaderPreserves

-----------------------------------------------------------------------------
LEMMA InitHolds == Init => IndInv
  <1> SUFFICES ASSUME Init PROVE IndInv
    OBVIOUS
  <1>1. Typed
    BY EmptySeq DEF Init, Typed, Sides
  <1>2. ASSUME NEW s \in Sides PROVE ~Rep(s)
    BY DEF Init, Rep, Sides
  <1>3. Handshake
    BY <1>2 DEF Init, Handshake, Steps, Sides
  <1>4. Ends
    BY Others DEF Init, Ends, EndOf
  <1>5. KeystreamUsedOnce /\ Passed
    BY DEF Init, KeystreamUsedOnce, Passed
  <1>6. ASSUME NEW s \in Sides PROVE StreamOf(s)
    <2> DEFINE f == [start |-> 0, len |-> 0, base |-> 0]
               lay == [i \in 1 .. 0 + 1 |-> f]
    <2>1. f \in FrameRecs /\ f.start = 0 /\ f.base = 0
      BY DEF FrameRecs
    <2> HIDE DEF f
    <2>2. lay \in [1 .. 0 + 1 -> FrameRecs] /\ lay[0 + 1] = f /\ \A i \in 1 .. 0 + 1 : lay[i] = f
      BY <2>1
    <2> HIDE DEF lay
    <2>3. Aligned(0)
      BY ScrambleAssumption DEF Aligned
    <2>4. Chain(lay, 0, 0)
      BY <2>1, <2>2, <2>3 DEF Chain
    <2>5. Content(s, lay, 0, 0, 0, << >>, << >>)
      BY DEF Content
    <2>6. Reading(f, 0, NeedHeader(<< >>), << >>)
      BY <2>1 DEF Reading, StateAt, RdState, DoneAt, DoneBytes, Counts
    <2>7. ReaderAt(lay, 0, NeedHeader(<< >>), << >>)
      BY <2>1, <2>2, <2>6 DEF ReaderAt
    <2>8. Good(s, lay, 0, 0, 0, << >>, << >>, NeedHeader(<< >>), 0, << >>)
      BY <2>4, <2>5, <2>7 DEF Good
    <2>9. 0 <= Capacity /\ 0 <= MaxPendingBytes /\ 0 <= MaxBytes[s]
      BY ScrambleAssumption, PayloadRoom
    <2>10. Stream(s, 0, 0, 0, << >>, << >>, NeedHeader(<< >>), 0, << >>)
      BY <2>8, <2>9, EmptySeq DEF Stream
    <2>11. Tokens(s) = 0
      BY <1>2 DEF Tokens
    <2> QED
      BY <2>10, <2>11, Others DEF Init, StreamOf
  <1> QED
    BY <1>1, <1>3, <1>4, <1>5, <1>6 DEF IndInv, Streams

(* n of a poll loop, and the buffer of a poll_write.                       *)
LEMMA Amounts ==
    /\ \A n \in 1 .. MaxPendingBytes : n \in Nat /\ 1 <= n
    /\ \A n \in 0 .. MaxPendingBytes : n \in Nat
    /\ \A s \in Sides : \A buf \in 1 .. MaxBytes[s] : buf \in Nat /\ buf >= 1
  BY PayloadRoom, ScrambleAssumption

LEMMA NextPreserves == IndInv /\ [Next]_vars => IndInv'
  <1> SUFFICES ASSUME IndInv, [Next]_vars PROVE IndInv'
    OBVIOUS
  <1>1. ASSUME NEW s \in Sides, Next,
               \/ SendRepresentative(s) \/ ReadRepresentative(s)
               \/ \E buf \in 1 .. MaxBytes[s], n \in 0 .. MaxPendingBytes : WriteFrame(s, buf, n)
               \/ StartJitter(s) \/ Drains(s) \/ Close(s) \/ Fail(s) \/ Reads(s) \/ ReadEof(s)
        PROVE  IndInv'
    <2>1. ASSUME NEW buf \in 1 .. MaxBytes[s], NEW n \in 0 .. MaxPendingBytes, WriteFrame(s, buf, n)
          PROVE  IndInv'
      <3>1. buf \in Nat /\ buf >= 1 /\ n \in Nat
        BY Amounts
      <3> QED
        BY <2>1, <3>1, WriteFramePreserves
    <2>2. ASSUME NEW n \in 1 .. MaxPendingBytes, DrainPending(s, n) PROVE IndInv'
      <3>1. n \in Nat
        BY Amounts
      <3> QED
        BY <2>2, <3>1, DrainPendingPreserves
    <2>3. ASSUME NEW n \in 1 .. MaxPendingBytes,
                 ReadHeader(s, n) \/ ReadPayload(s, MaxPendingBytes, n) \/ ReadPad(s, n)
          PROVE  IndInv'
      <3>1. n \in Nat /\ 1 <= n /\ MaxPendingBytes \in Nat
        BY Amounts, PayloadRoom
      <3> QED
        BY <2>3, <3>1, ReadHeaderPreserves, ReadPayloadMoves, ReadPadPreserves
    <2> QED
      BY <1>1, <2>1, <2>2, <2>3, SendRepresentativePreserves, ReadRepresentativePreserves,
         StartJitterPreserves, ClosePreserves, FailPreserves, ReadEofPreserves DEF Drains, Reads
  <1>2. ASSUME UNCHANGED vars PROVE IndInv'
    <2>1. UNCHANGED <<phase, theirs, pending, outPos, inPos, reader, wire, writing, accepted, delivered, eof, pads>>
      BY <1>2 DEF vars
    <2>2. Typed' /\ Ends'
      BY <2>1 DEF IndInv, Typed, Ends, EndOf
    <2> QED
      BY <2>1, <2>2, QuietPreserves
  <1> QED
    BY <1>1, <1>2 DEF Next

(* The invariant of the framing holds along every behaviour.               *)
THEOREM Invariance == Spec => []IndInv
  BY InitHolds, NextPreserves, PTL DEF Spec

-----------------------------------------------------------------------------
(* What the invariant says of a direction.                                 *)
LEMMA Direction ==
    ASSUME IndInv, NEW s \in Sides
    PROVE  LET o == Other(s) IN
           /\ Tidy(inPos[o], reader[o], accepted[s], delivered[o])
           /\ inPos[o] + (Len(wire[s]) - Tokens(s)) + Len(pending[s]) = outPos[s]
           /\ inPos[o] <= outPos[s] /\ Len(wire[s]) \in Nat
           /\ Len(wire[s]) <= Capacity /\ Len(pending[s]) <= MaxPendingBytes
           /\ accepted[s] \in 0 .. MaxBytes[s] /\ Len(delivered[o]) \in Nat
  <1> DEFINE o == Other(s)
  <1>1. Stream(s, Tokens(s), outPos[s], inPos[o], wire[s], pending[s], reader[o], accepted[s], delivered[o])
    BY DEF IndInv, Streams, StreamOf
  <1>2. Tokens(s) \in {0, 1}
    BY OneOrNone
  <1>3. Tidy(inPos[o], reader[o], accepted[s], delivered[o])
    BY <1>1, <1>2, StreamTidy
  <1>4. inPos[o] + (Len(wire[s]) - Tokens(s)) + Len(pending[s]) = outPos[s] /\ inPos[o] <= outPos[s]
    BY <1>1, <1>2, StreamAccount
  <1>5. /\ Len(wire[s]) <= Capacity /\ Len(pending[s]) <= MaxPendingBytes
        /\ accepted[s] \in Nat /\ accepted[s] <= MaxBytes[s]
        /\ delivered[o] \in Seq(Nat) /\ wire[s] \in Seq(Items)
    BY <1>1, StreamTypes
  <1>6. Len(delivered[o]) \in Nat /\ Len(wire[s]) \in Nat
    BY <1>5
  <1>7. accepted[s] \in 0 .. MaxBytes[s]
    <2>1. accepted[s] \in Nat /\ MaxBytes[s] \in Nat /\ accepted[s] <= MaxBytes[s]
      BY <1>5, ScrambleAssumption
    <2> QED
      BY <2>1
  <1> QED
    BY <1>3, <1>4, <1>5, <1>6, <1>7

(* poll_write and poll_read: pending never outgrows MAX_PENDING_BYTES, the *)
(* read state stays within a frame, and an UnexpectedEof is only reported  *)
(* after the writer failed.                                                *)
THEOREM FramesStaySound == Spec => []FramesSound
  <1>1. IndInv => FramesSound
    <2> SUFFICES ASSUME IndInv PROVE FramesSound
      OBVIOUS
    <2>1. Typed /\ Ends
      BY DEF IndInv
    <2>2. ASSUME NEW s \in Sides
          PROVE  /\ phase[s] \in {"start", "half", "done"}
                 /\ reader[s].payload \in 0 .. MaxPayloadPerFrame
                 /\ reader[s].pad \in 0 .. Quantum - 1
                 /\ Len(reader[s].partial) <= 1
                 /\ Len(wire[s]) <= Capacity
                 /\ accepted[s] \in 0 .. MaxBytes[s]
                 /\ inPos[s] <= outPos[Other(s)]
                 /\ writing[s] \in {"open", "closed", "failed"}
                 /\ eof[s] \in {"none", "clean", "truncated"}
      <3> DEFINE o == Other(s)
      <3>1. o \in Sides /\ Other(o) = s
        BY Others
      <3>2. Len(wire[s]) <= Capacity /\ accepted[s] \in 0 .. MaxBytes[s]
        BY Direction
      <3>3. Tidy(inPos[s], reader[s], accepted[o], delivered[s]) /\ inPos[s] <= outPos[o]
        <4> HIDE DEF o
        <4>1. LET q == Other(o) IN Tidy(inPos[q], reader[q], accepted[o], delivered[q]) /\ inPos[q] <= outPos[o]
          BY <3>1, Direction
        <4> QED
          BY <3>1, <4>1
      <3>4. phase[s] \in {"start", "half", "done"} /\ writing[s] \in {"open", "closed", "failed"}
            /\ eof[s] \in {"none", "clean", "truncated"}
        BY <2>1 DEF Typed
      <3> QED
        BY <3>2, <3>3, <3>4 DEF Tidy
    <2>3. TypeOK
      BY <2>2 DEF TypeOK
    <2>4. PendingBounded
      BY Direction DEF PendingBounded
    <2>5. TruncationMeansFailure
      BY <2>1 DEF TruncationMeansFailure, Ends, EndOf
    <2> QED
      BY <2>3, <2>4, <2>5 DEF FramesSound
  <1> QED
    BY <1>1, Invariance, PTL

(* The two ciphers: no keystream byte is used twice, no direction uses the *)
(* other's, and the reader's position is the writer's less what is under   *)
(* way, at a frame boundary whenever it waits for a header.                *)
THEOREM KeystreamsStaySound == Spec => []KeystreamsSound
  <1>1. IndInv => KeystreamsSound
    <2> SUFFICES ASSUME IndInv PROVE KeystreamsSound
      OBVIOUS
    <2>1. KeystreamUsedOnce
      BY DEF IndInv
    <2>2. ASSUME NEW s \in Sides, phase["dialer"] = "done", phase["listener"] = "done"
          PROVE  /\ inPos[Other(s)] + Len(wire[s]) + Len(pending[s]) = outPos[s]
                 /\ InHeader(Other(s)) => (inPos[Other(s)] - Len(reader[Other(s)].partial)) % Quantum = 0
      <3> DEFINE o == Other(s)
      <3>1. Tokens(s) = 0
        BY <2>2 DEF Tokens, Rep
      <3>2. /\ Tidy(inPos[o], reader[o], accepted[s], delivered[o]) /\ Len(wire[s]) \in Nat
            /\ inPos[o] + (Len(wire[s]) - Tokens(s)) + Len(pending[s]) = outPos[s]
        BY Direction
      <3>3. Len(wire[s]) - Tokens(s) = Len(wire[s])
        BY <3>1, <3>2
      <3>4. inPos[o] + Len(wire[s]) + Len(pending[s]) = outPos[s]
        BY <3>2, <3>3
      <3>5. InHeader(o) => (inPos[o] - Len(reader[o].partial)) % Quantum = 0
        BY <3>2 DEF Tidy, InHeader
      <3> QED
        BY <3>4, <3>5
    <2>3. Lockstep
      BY <2>2 DEF Lockstep
    <2> QED
      BY <2>1, <2>3 DEF KeystreamsSound
  <1> QED
    BY <1>1, Invariance, PTL

-----------------------------------------------------------------------------
(* The refinement.                                                         *)
Got == [s \in Sides |-> IF Garbled(s) THEN -1 ELSE Len(delivered[Other(s)])]
Ended == [s \in Sides |-> eof[Other(s)] = "clean" /\ writing[s] # "failed"]

(* No byte is ever garbled.                                                *)
Lengths == [s \in Sides |-> Len(delivered[Other(s)])]

LEMMA NeverGarbled == IndInv => Got = Lengths
  <1> SUFFICES ASSUME IndInv PROVE Got = Lengths
    OBVIOUS
  <1>1. ASSUME NEW s \in Sides PROVE ~Garbled(s)
    <2> DEFINE d == delivered[Other(s)]
    <2>1. d \in Seq(Nat)
      BY Others DEF IndInv, Typed
    <2>2. Counts(d)
      BY Direction DEF Tidy
    <2> HIDE DEF d
    <2>3. DOMAIN d = 1 .. Len(d)
      BY <2>1
    <2>4. \A i \in DOMAIN d : d[i] = i
      BY <2>2, <2>3 DEF Counts
    <2> QED
      BY <2>4 DEF Garbled, d
  <1> QED
    BY <1>1 DEF Got, Lengths

LEMMA EndedHolds ==
    ASSUME NEW s \in Sides
    PROVE  Ended[s] = (eof[Other(s)] = "clean" /\ writing[s] # "failed")
  BY DEF Ended

(* Steps that neither accept nor deliver a byte, nor end a direction.      *)
LEMMA Stutters ==
    ASSUME accepted' = accepted, delivered' = delivered, Ended' = Ended
    PROVE  [Pipe!Next]_(Pipe!vars)
  <1>1. Got' = Got
    BY DEF Got, Garbled
  <1> QED
    BY <1>1 DEF Pipe!vars, Got, Ended

LEMMA SameEnded == ASSUME eof' = eof, writing' = writing PROVE Ended' = Ended
  BY DEF Ended

LEMMA WriteSimulates ==
    ASSUME IndInv, NEW s \in Sides, NEW buf \in Nat, buf >= 1, NEW n \in Nat, WriteFrame(s, buf, n)
    PROVE  [Pipe!Next]_(Pipe!vars)
  <1> DEFINE len == LeastOf(buf, MaxPayloadPerFrame)
  <1>1. accepted' = [accepted EXCEPT ![s] = @ + len] /\ delivered' = delivered /\ eof' = eof /\ writing' = writing
    BY DEF WriteFrame
  <1>2. len \in Nat /\ len >= 1
    <2>1. len \in 1 .. MaxPayloadPerFrame
      BY Payload
    <2> QED
      BY <2>1, PayloadRoom
  <1>3. accepted \in [Sides -> Nat]
    BY DEF IndInv, Typed
  <1> HIDE DEF len
  <1>4. accepted'[s] \in Nat /\ accepted'[s] > accepted[s] /\ accepted' = [accepted EXCEPT ![s] = accepted'[s]]
    BY <1>1, <1>2, <1>3
  <1>5. Got' = Got /\ Ended' = Ended
    BY <1>1 DEF Got, Garbled, Ended
  <1>6. Pipe!Write(s)
    BY <1>4, <1>5 DEF Pipe!Write, Got, Ended
  <1> QED
    BY <1>6 DEF Pipe!Next

LEMMA ReadSimulates ==
    ASSUME IndInv, NEW s \in Sides, NEW buf \in Nat, NEW n \in Nat, 1 <= n, ReadPayload(s, buf, n)
    PROVE  [Pipe!Next]_(Pipe!vars)
  <1> DEFINE o == Other(s)
  <1>1. o \in Sides /\ Other(o) = s /\ o # s /\ \A t \in Sides : t = s \/ t = o
    BY Others
  <1>2. /\ IndInv' /\ delivered'[o] = delivered[o]
        /\ Len(delivered'[s]) = Len(delivered[s]) + n /\ Len(delivered[s]) + n <= accepted[o]
        /\ accepted' = accepted /\ writing' = writing /\ eof' = eof
    BY ReadPayloadMoves
  <1>3. Got = [t \in Sides |-> Len(delivered[Other(t)])] /\ Got' = [t \in Sides |-> Len(delivered'[Other(t)])]
    <2>1. (Got = Lengths)'
      BY <1>2, NeverGarbled, PTL
    <2> QED
      BY <2>1, NeverGarbled DEF Lengths
  <1>4. Got' = [Got EXCEPT ![o] = Got[o] + n] /\ Got[o] = Len(delivered[s])
    BY <1>1, <1>2, <1>3
  <1>5. n \in 1 .. accepted[o] - Got[o]
    <2>1. delivered \in [Sides -> Seq(Nat)] /\ accepted \in [Sides -> Nat]
      BY DEF IndInv, Typed
    <2>2. Len(delivered[s]) \in Nat /\ accepted[o] \in Nat
      BY <1>1, <2>1
    <2> QED
      BY <1>2, <1>4, <2>2
  <1>6. Ended' = Ended
    BY <1>2, SameEnded
  <1>7. Pipe!Read(o)
    BY <1>2, <1>4, <1>5, <1>6 DEF Pipe!Read, Got, Ended
  <1> QED
    BY <1>1, <1>7 DEF Pipe!Next

(* A clean end of file, from a writer that was told of no error, comes     *)
(* after every byte that was accepted.                                     *)
LEMMA EofSimulates ==
    ASSUME IndInv, NEW s \in Sides, ReadEof(s)
    PROVE  [Pipe!Next]_(Pipe!vars)
  <1> DEFINE o == Other(s)
  <1>1. o \in Sides /\ Other(o) = s /\ o # s /\ \A t \in Sides : t = s \/ t = o
    BY Others
  <1>2. /\ phase[s] = "done" /\ eof[s] = "none" /\ wire[o] = << >> /\ writing[o] # "open"
        /\ accepted' = accepted /\ delivered' = delivered /\ writing' = writing
        /\ \A t \in Sides \ {s} : eof'[t] = eof[t]
    BY DEF ReadEof, CanRead, IndInv, Typed
  <1>3. Ended[o] = FALSE /\ Ended'[s] = Ended[s]
    BY <1>1, <1>2, EndedHolds DEF Ended
  <1>4. CASE Ended'[o] = FALSE
    <2>1. Ended' = Ended
      BY <1>1, <1>3, <1>4 DEF Ended
    <2> QED
      BY <1>2, <2>1, Stutters
  <1>5. CASE Ended'[o] = TRUE
    <2>1. writing[o] # "failed"
      BY <1>1, <1>2, <1>5 DEF Ended
    <2>2. writing[o] = "closed"
      BY <1>1, <1>2, <2>1 DEF IndInv, Typed
    <2>3. Len(delivered[s]) = accepted[o]
      BY <1>2, <2>2, AllRead
    <2>4. Got[o] = accepted[o] /\ Got' = Got
      <3>1. Got[o] = Len(delivered[s])
        BY <1>1, NeverGarbled DEF Lengths
      <3>2. Got' = Got
        BY <1>2 DEF Got, Garbled
      <3> QED
        BY <2>3, <3>1, <3>2
    <2>5. Ended' = [Ended EXCEPT ![o] = TRUE]
      BY <1>1, <1>3, <1>5 DEF Ended
    <2>6. Pipe!End(o)
      BY <1>2, <2>4, <2>5 DEF Pipe!End, Got, Ended
    <2> QED
      BY <1>1, <2>6 DEF Pipe!Next
  <1>6. Ended'[o] \in BOOLEAN
    BY <1>1 DEF Ended
  <1> QED
    BY <1>4, <1>5, <1>6

(* Neither a close nor a failure ends a direction or takes an end back.    *)
LEMMA LeavesEnded ==
    ASSUME IndInv, NEW s \in Sides, Close(s) \/ Fail(s)
    PROVE  accepted' = accepted /\ delivered' = delivered /\ Ended' = Ended
  <1> DEFINE o == Other(s)
  <1>1. o \in Sides /\ Other(o) = s /\ o # s /\ \A t \in Sides : t = s \/ t = o
    BY Others
  <1>2. /\ writing[s] = "open" /\ eof' = eof /\ accepted' = accepted /\ delivered' = delivered
        /\ \A t \in Sides \ {s} : writing'[t] = writing[t]
    BY DEF Close, Fail, Drained, CanWrite, IndInv, Typed
  <1>3. eof[o] = "none"
    BY <1>1, <1>2 DEF IndInv, Ends, EndOf
  <1>4. ASSUME NEW t \in Sides
        PROVE  (eof'[Other(t)] = "clean" /\ writing'[t] # "failed") <=> (eof[Other(t)] = "clean" /\ writing[t] # "failed")
    BY <1>1, <1>2, <1>3
  <1> QED
    BY <1>2, <1>4 DEF Ended

LEMMA StepSimulates == IndInv /\ [Next]_vars => [Pipe!Next]_(Pipe!vars)
  <1> SUFFICES ASSUME IndInv, [Next]_vars PROVE [Pipe!Next]_(Pipe!vars)
    OBVIOUS
  <1>1. ASSUME accepted' = accepted, delivered' = delivered, eof' = eof, writing' = writing
        PROVE  [Pipe!Next]_(Pipe!vars)
    BY <1>1, SameEnded, Stutters
  <1>2. ASSUME NEW s \in Sides,
               \/ SendRepresentative(s) \/ ReadRepresentative(s)
               \/ \E buf \in 1 .. MaxBytes[s], n \in 0 .. MaxPendingBytes : WriteFrame(s, buf, n)
               \/ StartJitter(s) \/ Drains(s) \/ Close(s) \/ Fail(s) \/ Reads(s) \/ ReadEof(s)
        PROVE  [Pipe!Next]_(Pipe!vars)
    <2>1. CASE SendRepresentative(s)
      BY <1>1, <2>1 DEF SendRepresentative
    <2>2. CASE ReadRepresentative(s)
      BY <1>1, <2>2 DEF ReadRepresentative
    <2>3. CASE StartJitter(s)
      BY <1>1, <2>3 DEF StartJitter
    <2>4. ASSUME NEW buf \in 1 .. MaxBytes[s], NEW n \in 0 .. MaxPendingBytes, WriteFrame(s, buf, n)
          PROVE  [Pipe!Next]_(Pipe!vars)
      <3>1. buf \in Nat /\ buf >= 1 /\ n \in Nat
        BY Amounts
      <3> QED
        BY <2>4, <3>1, WriteSimulates
    <2>5. CASE Drains(s)
      BY <1>1, <2>5 DEF Drains, DrainPending
    <2>6. CASE Close(s) \/ Fail(s)
      BY <2>6, LeavesEnded, Stutters
    <2>7. ASSUME NEW n \in 1 .. MaxPendingBytes, ReadPayload(s, MaxPendingBytes, n)
          PROVE  [Pipe!Next]_(Pipe!vars)
      <3>1. n \in Nat /\ 1 <= n /\ MaxPendingBytes \in Nat
        BY Amounts, PayloadRoom
      <3> QED
        BY <2>7, <3>1, ReadSimulates
    <2>8. ASSUME NEW n \in 1 .. MaxPendingBytes, ReadHeader(s, n) \/ ReadPad(s, n)
          PROVE  [Pipe!Next]_(Pipe!vars)
      BY <1>1, <2>8 DEF ReadHeader, ReadPad
    <2>9. CASE ReadEof(s)
      BY <2>9, EofSimulates
    <2> HIDE DEF Pipe!Next, Pipe!vars
    <2> QED
      BY <1>2, <2>1, <2>2, <2>3, <2>4, <2>5, <2>6, <2>7, <2>8, <2>9 DEF Reads
  <1>3. CASE UNCHANGED vars
    BY <1>1, <1>3 DEF vars
  <1> QED
    BY <1>2, <1>3 DEF Next

(* ScrambleStream is a reliable pipe of bytes in each direction: what is   *)
(* read is what was written, in order, and a clean end of file means that  *)
(* nothing is missing.                                                     *)
THEOREM PipeImplemented == Spec => ImplementsBytePipe
  <1>1. Init => Pipe!Init
    <2> SUFFICES ASSUME Init PROVE Pipe!Init
      OBVIOUS
    <2>1. accepted = [s \in Sides |-> 0] /\ delivered = [s \in Sides |-> << >>] /\ eof = [s \in Sides |-> "none"]
      BY DEF Init
    <2>2. \A s \in Sides : delivered[Other(s)] = << >> /\ eof[Other(s)] = "none"
      BY <2>1, Others
    <2>3. Lengths = [s \in Sides |-> 0]
      BY <2>2 DEF Lengths
    <2>4. Got = [s \in Sides |-> 0]
      BY <2>3, InitHolds, NeverGarbled
    <2>5. Ended = [s \in Sides |-> FALSE]
      BY <2>2 DEF Ended
    <2> QED
      BY <2>1, <2>4, <2>5 DEF Pipe!Init, Got, Ended
  <1> QED
    BY <1>1, StepSimulates, Invariance, PTL DEF Spec, ImplementsBytePipe, Pipe!Spec
=============================================================================
