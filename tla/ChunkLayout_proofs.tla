-------------------------- MODULE ChunkLayout_proofs --------------------------
(***************************************************************************)
(* Proofs about ChunkLayout, for every list of tensors, every size of      *)
(* chunk and buffer and any number of ranks: the layout satisfies the      *)
(* contract that the streaming loop assumes, every byte is brought to its  *)
(* place by one chunk inside the buffer, and no internal check fires.      *)
(*                                                                         *)
(* The argument is about the locals s of compute_layout and the chunk that *)
(* is open, which becomes chunk number Num(s).  A chunk carries a tensor   *)
(* if it has bytes of it in the same distance from their place in the file *)
(* as the tensor.  Only the chunks up to last carry a tensor (CarryInv,    *)
(* OpenInv), and no chunk up to the tensor's watermark, or up to now if it *)
(* has none yet, overwrites what a chunk before has brought (LapInv).      *)
(***************************************************************************)
EXTENDS ChunkLayout, DataLemmas

\* The sizes that stay the same during a call.
Geometry == [align |-> WorldChunkAlignment, chunk |-> WorldChunk, room |-> buffer,
             tensors |-> NumTensors]

Num(s)    == Len(s.chunks)
Closed(s) == 0..(Num(s) - 1)
Placed(s) == 0..(s.tensor_id - 1)
Lap(s)    == s.left_most..(s.tensor_id - 1)

\* The open chunk, and any chunk with it.
Current(s) == [size |-> s.size, file |-> s.file, foff |-> s.foff, doff |-> s.doff]
AnyChunk(s, c) == IF c < Num(s) THEN ChunkAt(s, c) ELSE Current(s)

\* r is a chunk or a tensor: where it ends in the file, how far it is moved.
End(r)   == r.foff + r.size
Shift(r) == r.doff - r.foff

\* Chunk ch brings bytes of tensor te, or byte b of it, to their place.
Carries(te, ch) ==
    /\ ch.file = te.file /\ Shift(ch) = Shift(te)
    /\ ch.foff < End(te) /\ te.foff < End(ch)
HasByte(te, b, ch) ==
    /\ ch.file = te.file /\ Shift(ch) = Shift(te)
    /\ ch.foff <= te.foff + b /\ te.foff + b < End(ch)

\* The end of a chunk on the device, with its padding.
Top(ch, g) == ch.doff + RoundUp(ch.size, g.align)

\* Chunk dh overwrites nothing that chunk ch brought of tensor te.
Apart(te, ch, dh, g) == ch.doff + ch.size <= dh.doff \/ Top(dh, g) <= te.doff

ChunkType == [size : Nat \ {0}, file : Nat, foff : Nat, doff : Nat]
TensorType == [size : Nat, file : Nat, foff : Nat, doff : Nat, last : Nat,
               prefetch : Int]
Locals(n) == [file : Nat, foff : Nat, doff : Nat \ {0}, size : Nat,
              tensor_id : Nat, in_buffer : Nat, left_most : Nat,
              left : Nat, place : Nat,
              chunks : Seq(ChunkType), tensors : [0..(n - 1) -> TensorType],
              bad : BOOLEAN]

LocalsInv(s, g) ==
    /\ s \in Locals(g.tensors)
    /\ s.in_buffer <= s.left_most /\ s.left_most <= s.tensor_id
    /\ s.tensor_id <= g.tensors
    /\ s.size <= g.chunk /\ s.foff % RankAlignment = 0
    /\ \A c \in Closed(s) :
          ChunkAt(s, c).foff % RankAlignment = 0 /\ ChunkAt(s, c).size <= g.chunk
    /\ ~s.bad

\* Nothing lies behind the position in the files that has been reached.
FileInv(s) ==
    /\ \A c \in Closed(s) :
          /\ ChunkAt(s, c).file <= s.file
          /\ ChunkAt(s, c).file = s.file => End(ChunkAt(s, c)) <= s.foff + s.size
    /\ \A t \in Placed(s) :
          /\ s.tensors[t].file <= s.file
          /\ s.tensors[t].file = s.file => End(s.tensors[t]) <= s.foff + s.size

\* No chunk behind last carries a tensor.
CarryInv(s) ==
    \A t \in Placed(s), c \in Closed(s) :
        c > s.tensors[t].last => ~Carries(s.tensors[t], ChunkAt(s, c))

\* The open chunk holds bytes of a tensor at their place; or it reads them again,
\* for another place, and then it is the first of its lap.
OpenInv(s) ==
    \A t \in Placed(s) :
        s.tensors[t].file = s.file /\ End(s.tensors[t]) > s.foff =>
            \/ /\ s.tensors[t].last = Num(s)
               /\ Shift(s.tensors[t]) = s.doff - s.foff
            \/ /\ Shift(s.tensors[t]) # s.doff - s.foff
               /\ s.doff <= FirstTensorAlignment
               /\ End(s.tensors[t]) < s.foff + RankAlignment

\* Watermarks are chunks that exist, in order and not before last; a tensor that
\* waits for the open chunk is of this lap, and that chunk is not empty.
MarkInv(s) ==
    /\ \A t \in Placed(s) :
          /\ s.tensors[t].last <= Num(s)
          /\ s.tensors[t].last = Num(s) => s.size > 0 /\ t >= s.left_most
    /\ \A t \in 0..(s.in_buffer - 1) :
          s.tensors[t].last <= s.tensors[t].prefetch /\ s.tensors[t].prefetch < Num(s)
    /\ \A t, u \in 0..(s.in_buffer - 1) :
          t <= u => s.tensors[t].prefetch <= s.tensors[u].prefetch

\* The last chunk that tensor t has to survive so far.
Horizon(s, t) == IF t < s.in_buffer THEN s.tensors[t].prefetch ELSE Num(s) - 1

LapInv(s, g) ==
    /\ \A t, u \in s.in_buffer..(s.left_most - 1) :
          t <= u => s.tensors[t].doff <= s.tensors[u].doff
    /\ \A t, u \in Lap(s) : t <= u => s.tensors[t].doff <= s.tensors[u].doff
    /\ \A t \in Lap(s) : s.tensors[t].doff <= s.doff + s.size
    /\ \A t \in Lap(s), c \in Closed(s) :
          Carries(s.tensors[t], ChunkAt(s, c)) =>
              ChunkAt(s, c).doff + ChunkAt(s, c).size <= s.doff
    /\ \A t \in Placed(s), c, d \in Closed(s) :
          c < d /\ d <= Horizon(s, t) /\ Carries(s.tensors[t], ChunkAt(s, c)) =>
              Apart(s.tensors[t], ChunkAt(s, c), ChunkAt(s, d), g)

\* Every byte of a tensor is in a chunk, the last one in chunk last.
ByteInv(s) ==
    \A t \in Placed(s) :
        /\ \A b \in 0..(s.tensors[t].size - 1) : \E c \in 0..s.tensors[t].last :
              HasByte(s.tensors[t], b, AnyChunk(s, c))
        /\ s.tensors[t].size > 0 =>
              HasByte(s.tensors[t], s.tensors[t].size - 1, AnyChunk(s, s.tensors[t].last))

\* Chunks with tensor bytes are inside the buffer.
RoomInv(s, g) ==
    /\ \A t \in Placed(s), c \in Closed(s) :
          Carries(s.tensors[t], ChunkAt(s, c)) => Top(ChunkAt(s, c), g) <= g.room
    /\ \A t \in Placed(s) : s.tensors[t].last = Num(s) => Top(Current(s), g) <= g.room

\* Place x is aligned, or right behind tensor t - 1.
Follows(s, t, x) ==
    \/ x % FirstTensorAlignment = 0
    \/ t > 0 /\ x - s.tensors[t - 1].doff = s.tensors[t - 1].size
AlignInv(s) == \A t \in Placed(s) : Follows(s, t, s.tensors[t].doff)

StateInv(s, g) ==
    /\ LocalsInv(s, g) /\ FileInv(s) /\ CarryInv(s) /\ MarkInv(s) /\ LapInv(s, g)
    /\ ByteInv(s) /\ RoomInv(s, g) /\ AlignInv(s)

\* Every tensor's chunks are closed.
AllClosed(s) == \A t \in Placed(s) : s.tensors[t].last < Num(s)

\* Between two tensors, at offset number k of o.
TensorInv(s, k, o) ==
    /\ OpenInv(s)
    /\ s.file = o[k][1] /\ s.foff + s.size = o[k][2]
    /\ s.tensor_id = k - 1 - o[k][1]
    /\ Follows(s, s.tensor_id, s.doff + s.size)

\* Chunk ch has bytes of the tensor that begins at offset x.
Holds(s, x, ch) == ch.file = s.file /\ End(ch) > x

\* Within the tensor that begins at offset number k of o.
SplitInv(s, k, o, g) ==
    /\ OpenInv(s)
    /\ k < Len(o) /\ o[k][1] = o[k + 1][1]
    /\ s.file = o[k][1] /\ s.foff + s.size + s.left = o[k + 1][2]
    /\ o[k][2] <= s.foff + s.size /\ s.place - o[k][2] = s.doff - s.foff
    /\ s.tensor_id = k - 1 - o[k][1] /\ s.tensor_id < g.tensors
    /\ s.size + s.left > 0
    /\ \A c \in Closed(s) : Holds(s, o[k][2], ChunkAt(s, c)) =>
          /\ ChunkAt(s, c).doff + ChunkAt(s, c).size <= s.doff
          /\ Top(ChunkAt(s, c), g) <= g.room
          /\ \A d \in (c + 1)..(Num(s) - 1) :
                ChunkAt(s, c).doff + ChunkAt(s, c).size <= ChunkAt(s, d).doff
    /\ \A y \in o[k][2]..(s.foff + s.size - 1) : \E c \in 0..Num(s) :
          /\ AnyChunk(s, c).file = s.file /\ Shift(AnyChunk(s, c)) = s.doff - s.foff
          /\ AnyChunk(s, c).foff <= y /\ y < End(AnyChunk(s, c))
    /\ s.doff + RoundUp(s.size + s.left, g.align) <= g.room
    /\ \A t \in Lap(s) : s.tensors[t].doff <= s.place
    /\ Follows(s, s.tensor_id, s.place)

DoneInv(s, g) ==
    AllClosed(s) /\ s.in_buffer = g.tensors /\ s.tensor_id = g.tensors

IndInv ==
    /\ open_args \in Inputs
    /\ i \in 1..Len(offsets) /\ pc \in {"tensor", "split", "done"}
    /\ StateInv(L, Geometry)
    /\ pc = "tensor" => TensorInv(L, i, offsets)
    /\ pc = "split" => SplitInv(L, i, offsets, Geometry)
    /\ pc = "done" => DoneInv(L, Geometry) /\ L.file = File(Len(offsets))

\* RoundDown splits off the remainder.
LEMMA RoundDownFacts ==
    ASSUME NEW x \in Nat, NEW y \in Nat \ {0}
    PROVE  /\ RoundDown(x, y) \in Nat /\ RoundDown(x, y) % y = 0
           /\ x % y \in Nat /\ x % y < y
           /\ RoundDown(x, y) + (x % y) = x
           /\ x >= y => RoundDown(x, y) >= y
           /\ x < y => RoundDown(x, y) = 0 /\ x % y = x
           /\ x % y = 0 => RoundDown(x, y) = x
  <1> DEFINE q == x \div y
             r == x % y
  <1>1. q \in Nat /\ r \in 0..(y - 1) /\ x = y * q + r BY DivMod
  <1>2. RoundDown(x, y) = y * q BY <1>1 DEF RoundDown
  <1> HIDE DEF q, r
  <1>3. y * q \in Nat /\ (y * q) % y = 0 BY <1>1, MultipleOf
  <1>4. q >= 1 => y * q >= y BY <1>1
  <1>5. q = 0 => y * q = 0 OBVIOUS
  <1>6. q = 0 \/ q >= 1 BY <1>1
  <1>7. x % y = r BY DEF r
  <1> QED BY <1>1, <1>2, <1>3, <1>4, <1>5, <1>6, <1>7

\* RoundUp gives the next multiple.
LEMMA RoundUpFacts ==
    ASSUME NEW x \in Nat, NEW y \in Nat \ {0}
    PROVE  /\ RoundUp(x, y) \in Nat /\ RoundUp(x, y) % y = 0
           /\ x <= RoundUp(x, y) /\ RoundUp(x, y) < x + y
           /\ x % y = 0 => RoundUp(x, y) = x
  <1> DEFINE z == x + y - 1
             q == z \div y
             r == z % y
  <1>1. z \in Nat OBVIOUS
  <1>2. q \in Nat /\ r \in 0..(y - 1) /\ z = y * q + r BY <1>1, DivMod
  <1>3. RoundUp(x, y) = y * q BY <1>2 DEF RoundUp, DivCeil
  <1>4. z = x + y - 1 OBVIOUS
  <1> HIDE DEF q, r, z
  <1>5. y * q \in Nat /\ (y * q) % y = 0 BY <1>2, MultipleOf
  <1>6. x <= y * q /\ y * q < x + y BY <1>2, <1>4, <1>5
  <1>7. ASSUME x % y = 0 PROVE y * q = x
    <2>1. PICK p \in Nat : x = y * p BY <1>7, Multiple
    <2>2. q < p + 1
      <3>1. q >= p + 1 => y * q >= y * (p + 1) BY <1>2
      <3>2. y * (p + 1) = x + y BY <2>1
      <3> QED BY <1>2, <1>6, <3>1, <3>2
    <2>3. q >= p
      <3>1. q <= p - 1 => y * q <= y * (p - 1) BY <1>2
      <3>2. y * (p - 1) = x - y BY <2>1
      <3> QED BY <1>2, <1>6, <3>1, <3>2, <1>5
    <2> QED BY <1>2, <2>1, <2>2, <2>3
  <1> QED BY <1>3, <1>5, <1>6, <1>7

\* A multiple in front of a sum can be taken out of RoundUp.
LEMMA RoundUpShift ==
    ASSUME NEW m \in Nat, NEW x \in Nat, NEW y \in Nat \ {0}, m % y = 0
    PROVE  RoundUp(m + x, y) = m + RoundUp(x, y)
  <1>1. PICK p \in Nat : m = y * p BY Multiple
  <1> DEFINE z == x + y - 1
             q == z \div y
             r == z % y
  <1>2. z \in Nat OBVIOUS
  <1>3. q \in Nat /\ r \in 0..(y - 1) /\ z = y * q + r BY <1>2, DivMod
  <1>4. RoundUp(x, y) = y * q BY <1>3 DEF RoundUp, DivCeil
  <1>5. m + x + y - 1 = m + z OBVIOUS
  <1> HIDE DEF z, q, r
  <1>6. m + z = y * (p + q) + r BY <1>1, <1>3
  <1>7. p + q \in Int BY <1>3
  <1>8. (y * (p + q) + r) \div y = p + q BY <1>3, <1>7, DivUnique
  <1>9. RoundUp(m + x, y) = (p + q) * y BY <1>5, <1>6, <1>8 DEF RoundUp, DivCeil
  <1> QED BY <1>1, <1>3, <1>4, <1>9

\* Rounding the distance to an aligned place.
LEMMA SlotFacts ==
    ASSUME NEW b \in Nat, NEW p \in Nat, FirstTensorAlignment \in Nat \ {0},
           b % FirstTensorAlignment = 0
    PROVE  /\ FirstTensorSlot(b, p) \in Nat
           /\ b < FirstTensorSlot(b, p) /\ FirstTensorSlot(b, p) <= b + FirstTensorAlignment
           /\ (FirstTensorSlot(b, p) + p) % FirstTensorAlignment = 0
  <1> DEFINE F == FirstTensorAlignment
             d == RoundDown(p, F)
             r == p % F
  <1>1. d \in Nat /\ d % F = 0 /\ r \in Nat /\ r < F /\ d + r = p BY RoundDownFacts
  <1>2. FirstTensorSlot(b, p) = b + F - r BY DEF FirstTensorSlot
  <1>3. F % F = 0
    <2>1. (F * 1) % F = 0 BY MultipleOf
    <2> QED BY <2>1
  <1>4. F \in Nat \ {0} OBVIOUS
  <1>5. b % F = 0 OBVIOUS
  <1> HIDE DEF d, r, F
  <1>6. b + F \in Nat BY <1>4
  <1>6a. (b + F) % F = 0 BY <1>3, <1>4, <1>5, SumOfMultiples
  <1>7. ((b + F) + d) % F = 0 BY <1>1, <1>4, <1>6, <1>6a, SumOfMultiples
  <1>8. (b + F - r) + p = (b + F) + d BY <1>1, <1>4
  <1>9. b + F - r \in Nat /\ b < b + F - r /\ b + F - r <= b + F BY <1>1, <1>4
  <1> QED BY <1>2, <1>7, <1>8, <1>9 DEF F

\* RoundUp is monotone.
LEMMA RoundUpMonotone ==
    ASSUME NEW a \in Nat, NEW b \in Nat, a <= b, NEW y \in Nat \ {0}
    PROVE  RoundUp(a, y) <= RoundUp(b, y)
  <1>1. RoundUp(a, y) \in Nat /\ RoundUp(a, y) < a + y /\ RoundUp(a, y) % y = 0 BY RoundUpFacts
  <1>2. RoundUp(b, y) \in Nat /\ RoundUp(b, y) >= b /\ RoundUp(b, y) % y = 0 BY RoundUpFacts
  <1> DEFINE u == RoundUp(a, y)
             v == RoundUp(b, y)
  <1>3. PICK p \in Nat : u = y * p BY <1>1, Multiple
  <1>4. PICK q \in Nat : v = y * q BY <1>2, Multiple
  <1>5. u \in Nat /\ v \in Nat /\ u < v + y BY <1>1, <1>2
  <1> HIDE DEF u, v
  <1>6. p >= q + 1 => y * p >= y * (q + 1) OBVIOUS
  <1>7. y * (q + 1) = v + y BY <1>4
  <1>8. p <= q BY <1>3, <1>5, <1>6, <1>7
  <1>9. y * p <= y * q BY <1>8
  <1> QED BY <1>3, <1>4, <1>9 DEF u, v

\* A product with a positive factor orders the other factors.
LEMMA LessFactor ==
    ASSUME NEW a \in Nat \ {0}, NEW p \in Int, NEW q \in Int
    PROVE  /\ a * p <= a * q => p <= q
           /\ a * p < a * q => p < q
           /\ p <= q => a * p <= a * q
           /\ p < q => a * p + a <= a * q
  <1>1. p <= q => a * p <= a * q OBVIOUS
  <1>2. q + 1 <= p => a * (q + 1) <= a * p OBVIOUS
  <1>3. p + 1 <= q => a * (p + 1) <= a * q OBVIOUS
  <1>4. q <= p => a * q <= a * p OBVIOUS
  <1>5. a * (q + 1) = a * q + a /\ a * (p + 1) = a * p + a OBVIOUS
  <1>6. a * p \in Int /\ a * q \in Int OBVIOUS
  <1> DEFINE u == a * p
             v == a * q
  <1> HIDE DEF u, v
  <1>7. u \in Int /\ v \in Int BY <1>6 DEF u, v
  <1>8. (p <= q => u <= v) /\ (q + 1 <= p => v + a <= u) /\ (p + 1 <= q => u + a <= v)
        /\ (q <= p => v <= u)
    BY <1>1, <1>2, <1>3, <1>4, <1>5 DEF u, v
  <1>9. (u <= v => p <= q) /\ (u < v => p < q) /\ (p <= q => u <= v) /\ (p < q => u + a <= v)
    BY <1>7, <1>8
  <1> QED BY <1>9 DEF u, v

\* The slice of a rank: whole pages, and all slices together hold the chunk.
LEMMA SliceSize ==
    ASSUME NEW R \in Nat \ {0}, NEW W \in Nat \ {0}, NEW S \in Nat \ {0}, NEW K \in Nat,
           K % R = 0, S <= K * W
    PROVE  LET P == RoundUp(S, R * W) \div W
           IN  P \in Nat \ {0} /\ P % R = 0 /\ P <= K /\ S <= P * W
  <1> DEFINE A == R * W
             u == RoundUp(S, A)
  <1>1. A \in Nat \ {0} BY LessFactor
  <1>2. u \in Nat /\ u % A = 0 /\ S <= u BY <1>1, RoundUpFacts
  <1>3. PICK q \in Nat : u = A * q BY <1>1, <1>2, Multiple
  <1>4. PICK k \in Nat : K = R * k BY Multiple
  <1>5. K * W = A * k BY <1>4
  <1> DEFINE P == R * q
  <1>6. u = W * P /\ P \in Nat BY <1>3
  <1>7. u \div W = P
    <2>1. 0 \in 0..(W - 1) /\ W * P + 0 = W * P BY <1>6
    <2>2. (W * P + 0) \div W = P BY <1>6, <2>1, DivUnique
    <2> QED BY <1>6, <2>1, <2>2
  <1>8. P % R = 0 BY MultipleOf
  <1>9. q <= k
    <2> HIDE DEF A
    <2>1. A * k \in Nat /\ (A * k) % A = 0 BY <1>1, MultipleOf
    <2>2. RoundUp(A * k, A) = A * k BY <1>1, <2>1, RoundUpFacts
    <2>3. S <= A * k BY <1>5
    <2>4. u <= A * k BY <1>1, <2>1, <2>2, <2>3, RoundUpMonotone
    <2> QED BY <1>1, <1>3, <2>4, LessFactor
  <1>10. P <= K BY <1>4, <1>9, LessFactor
  <1>11. P # 0 BY <1>2, <1>6
  <1>12. P * W = W * P BY <1>6
  <1> HIDE DEF P, u, A
  <1>13. P \in Nat \ {0} /\ P % R = 0 /\ P <= K /\ S <= P * W
    BY <1>2, <1>6, <1>8, <1>10, <1>11, <1>12
  <1> QED BY <1>7, <1>13 DEF u, A
-----------------------------------------------------------------------------
\* The sizes of a call.
Sizes(g) ==
    /\ FirstTensorAlignment \in Nat \ {0} /\ RankAlignment \in Nat \ {0}
    /\ (RankAlignment % FirstTensorAlignment) = 0
    /\ g.align \in Nat \ {0} /\ (g.align % RankAlignment) = 0
    /\ g.chunk \in Nat \ {0} /\ (g.chunk % g.align) = 0
    /\ g.room \in Nat /\ g.tensors \in Nat

\* The alignments and sizes are multiples of each other, so they are ordered.
LEMMA SizesOrdered ==
    ASSUME NEW g, Sizes(g)
    PROVE  /\ FirstTensorAlignment <= RankAlignment /\ RankAlignment <= g.align
           /\ g.align <= g.chunk /\ (g.chunk % RankAlignment) = 0
           /\ FirstTensorAlignment \in Nat \ {0} /\ RankAlignment \in Nat \ {0}
           /\ g.align \in Nat \ {0} /\ g.chunk \in Nat \ {0}
           /\ g.room \in Nat /\ g.tensors \in Nat
  <1>1. FirstTensorAlignment <= RankAlignment BY MultipleAtLeast DEF Sizes
  <1>2. RankAlignment <= g.align BY MultipleAtLeast DEF Sizes
  <1>3. g.align <= g.chunk BY MultipleAtLeast DEF Sizes
  <1>4. (g.chunk % RankAlignment) = 0 BY MultipleOfMultiple DEF Sizes
  <1> QED BY <1>1, <1>2, <1>3, <1>4 DEF Sizes

\* Files come in order, and between two offsets there are at most as many file
\* boundaries as steps.
LEMMA FileSlope ==
    ASSUME NEW o, NEW z, RankAlignment \in Nat \ {0}, OffsetsAssumption(o, z),
           NEW k \in 1..Len(o)
    PROVE  o[k][1] <= o[Len(o)][1] /\ o[Len(o)][1] - o[k][1] <= Len(o) - k
  <1> DEFINE n == Len(o)
             F(j) == o[j][1]
             Steep == {d \in 0..(n - 1) : F(n) - F(n - d) > d \/ F(n - d) > F(n)}
  <1>1. n \in Nat \ {0} /\ \A j \in 1..n : F(j) \in Nat
    BY ElementOfSeq, LenProperties DEF OffsetsAssumption
  <1>2. \A j \in 1..(n - 1) : F(j + 1) = F(j) + 1 \/ F(j + 1) = F(j)
    BY DEF OffsetsAssumption
  <1>3. k \in 1..n OBVIOUS
  <1> HIDE DEF n, F
  <1>4. Steep = {}
    <2> SUFFICES ASSUME Steep # {} PROVE FALSE OBVIOUS
    <2> DEFINE d == Min(Steep)
    <2>1. Steep \subseteq Nat BY <1>1
    <2>2. d \in Steep /\ \A e \in Steep : d <= e BY <2>1, Least
    <2> HIDE DEF d
    <2>3. d \in 0..(n - 1) /\ (F(n) - F(n - d) > d \/ F(n - d) > F(n)) BY <2>2
    <2>4. d # 0
      <3>1. n - 0 = n /\ F(n) \in Nat BY <1>1
      <3>2. F(n - 0) = F(n) BY <3>1
      <3> QED BY <2>3, <3>1, <3>2
    <2>5. d - 1 \in 0..(n - 1) /\ d - 1 < d BY <1>1, <2>3, <2>4
    <2>6. d - 1 \notin Steep BY <2>2, <2>5
    <2>7. ~ (F(n) - F(n - (d - 1)) > d - 1 \/ F(n - (d - 1)) > F(n)) BY <2>5, <2>6
    <2> DEFINE j == n - d
    <2>8. j \in 1..(n - 1) /\ n - (d - 1) = j + 1 BY <1>1, <2>3, <2>4
    <2>9. F(j + 1) = F(j) + 1 \/ F(j + 1) = F(j) BY <1>2, <2>8
    <2>10. F(j) \in Nat /\ F(j + 1) \in Nat /\ F(n) \in Nat BY <1>1, <2>8
    <2>11. F(n) - F(j) > d \/ F(j) > F(n) BY <2>3
    <2>12. ~ (F(n) - F(j + 1) > d - 1 \/ F(j + 1) > F(n)) BY <2>7, <2>8
    <2> HIDE DEF j
    <2> QED BY <2>3, <2>9, <2>10, <2>11, <2>12
  <1>5. n - k \in 0..(n - 1) /\ n - (n - k) = k BY <1>1, <1>3
  <1>6. ~ (F(n) - F(k) > n - k \/ F(k) > F(n)) BY <1>4, <1>5
  <1>7. F(n) \in Nat /\ F(k) \in Nat BY <1>1, <1>3
  <1>8. F(k) <= F(n) /\ F(n) - F(k) <= n - k BY <1>1, <1>3, <1>6, <1>7
  <1> QED BY <1>8 DEF n, F

\* The sizes computed from open_args, and what init_buffer leaves for paddings.
LEMMA GeometryFacts ==
    ASSUME AlignmentAssumption, InputsAssumption, open_args \in Inputs
    PROVE  /\ Sizes(Geometry)
           /\ OffsetsAssumption(offsets, open_args.buffer_size)
           /\ open_args.buffer_size \in Nat /\ WorldSize \in Nat \ {0}
           /\ Geometry.room >= open_args.buffer_size
                 + 3 * (FirstTensorAlignment + RankAlignment + Geometry.align)
  <1>1. /\ WorldSize \in Nat \ {0} /\ open_args.chunk_size \in Nat \ {0}
        /\ open_args.io_depth \in Nat \ {0} /\ open_args.buffer_size \in Nat
        /\ OffsetsAssumption(offsets, open_args.buffer_size)
    BY DEF InputsAssumption, offsets, WorldSize
  <1>2. /\ RankAlignment \in Nat \ {0} /\ FirstTensorAlignment \in Nat \ {0}
        /\ (RankAlignment % FirstTensorAlignment) = 0
    BY DEF AlignmentAssumption
  <1> DEFINE A == WorldChunkAlignment
  <1>3. A \in Nat \ {0} /\ (A % RankAlignment) = 0
    <2>1. A = RankAlignment * WorldSize BY DEF WorldChunkAlignment
    <2>2. RankAlignment * WorldSize >= 1 BY <1>1, <1>2
    <2> QED BY <1>1, <1>2, <2>1, <2>2, MultipleOf
  <1>4. /\ RankChunk \in Nat \ {0} /\ (RankChunk % RankAlignment) = 0
    BY <1>1, <1>2, RoundUpFacts DEF RankChunk
  <1>5. WorldChunk \in Nat \ {0} /\ (WorldChunk % A) = 0
    <2>1. PICK q \in Nat : RankChunk = RankAlignment * q BY <1>2, <1>4, Multiple
    <2>2. q # 0 BY <1>2, <1>4, <2>1
    <2>3. WorldChunk = A * q
      BY <1>1, <1>2, <2>1 DEF WorldChunk, WorldChunkAlignment
    <2> HIDE DEF A
    <2>4. A * q \in Nat /\ A * q >= A BY <1>3, <2>2
    <2> QED BY <1>3, <2>3, <2>4, MultipleOf
  <1> DEFINE S == {open_args.buffer_size, RankChunk * open_args.io_depth * WorldSize}
  <1>6. Max(S) \in Nat /\ Max(S) >= open_args.buffer_size
    <2> DEFINE b == open_args.buffer_size
               c == RankChunk * open_args.io_depth * WorldSize
    <2>1. b \in Nat BY <1>1
    <2>2. c \in Nat
      <3>1. RankChunk * open_args.io_depth \in Nat BY <1>1, <1>4
      <3> QED BY <1>1, <3>1
    <2>3. S = {b, c} OBVIOUS
    <2> HIDE DEF b, c, S
    <2>4. \E x \in S : \A y \in S : x >= y
      <3>1. b >= c \/ c >= b BY <2>1, <2>2
      <3>2. b >= b /\ c >= c BY <2>1, <2>2
      <3> QED BY <2>3, <3>1, <3>2
    <2>5. Max(S) \in S /\ \A y \in S : Max(S) >= y BY <2>4 DEF Max
    <2> QED BY <2>1, <2>2, <2>3, <2>5 DEF b
  <1>7. buffer = Max(S) + 3 * (FirstTensorAlignment + RankAlignment + A)
    BY DEF buffer, PaddedSize
  <1>8. buffer \in Nat
        /\ buffer >= open_args.buffer_size + 3 * (FirstTensorAlignment + RankAlignment + A)
    <2> HIDE DEF A, S
    <2> QED BY <1>1, <1>2, <1>3, <1>6, <1>7
  <1>9. NumTensors \in Nat
    <2>1. Len(offsets) \in Nat \ {0} /\ 1 \in 1..Len(offsets)
      BY <1>1, LenProperties DEF OffsetsAssumption
    <2>2. offsets[Len(offsets)][1] - offsets[1][1] <= Len(offsets) - 1
      BY <1>1, <1>2, <2>1, FileSlope
    <2>3. offsets[1][1] = 0 /\ offsets[Len(offsets)] \in Nat \X Nat
      BY <1>1, <2>1, ElementOfSeq DEF OffsetsAssumption
    <2>4. NumTensors = Len(offsets) - (offsets[Len(offsets)][1] + 1)
      BY DEF NumTensors, NumFiles, File
    <2> QED BY <2>1, <2>2, <2>3, <2>4
  <1> QED BY <1>1, <1>2, <1>3, <1>5, <1>8, <1>9 DEF Sizes, Geometry

-----------------------------------------------------------------------------
(* What the three lambdas do to the locals, as relations.                    *)

\* The types of the locals, of the closed chunks and of the tensors.
LEMMA Types ==
    ASSUME NEW s, NEW g, LocalsInv(s, g), g.tensors \in Nat
    PROVE  /\ s.file \in Nat /\ s.foff \in Nat /\ s.doff \in Nat \ {0} /\ s.size \in Nat
           /\ s.tensor_id \in Nat /\ s.in_buffer \in Nat /\ s.left_most \in Nat
           /\ s.left \in Nat /\ s.place \in Nat
           /\ s.chunks \in Seq(ChunkType) /\ s.bad \in BOOLEAN
           /\ s.tensors \in [0..(g.tensors - 1) -> TensorType]
           /\ s.in_buffer <= s.left_most /\ s.left_most <= s.tensor_id
           /\ s.tensor_id <= g.tensors
           /\ Num(s) \in Nat
           /\ \A c \in Closed(s) :
                 /\ ChunkAt(s, c).size \in Nat \ {0} /\ ChunkAt(s, c).file \in Nat
                 /\ ChunkAt(s, c).foff \in Nat /\ ChunkAt(s, c).doff \in Nat
           /\ \A t \in 0..(g.tensors - 1) :
                 /\ s.tensors[t].size \in Nat /\ s.tensors[t].file \in Nat
                 /\ s.tensors[t].foff \in Nat /\ s.tensors[t].doff \in Nat
                 /\ s.tensors[t].last \in Nat /\ s.tensors[t].prefetch \in Int
           /\ Placed(s) \subseteq 0..(g.tensors - 1) /\ Lap(s) \subseteq Placed(s)
  <1>1. s \in Locals(g.tensors) BY DEF LocalsInv
  <1>2. /\ s.file \in Nat /\ s.foff \in Nat /\ s.doff \in Nat \ {0} /\ s.size \in Nat
        /\ s.tensor_id \in Nat /\ s.in_buffer \in Nat /\ s.left_most \in Nat
        /\ s.left \in Nat /\ s.place \in Nat
        /\ s.chunks \in Seq(ChunkType) /\ s.bad \in BOOLEAN
        /\ s.tensors \in [0..(g.tensors - 1) -> TensorType]
    BY <1>1 DEF Locals
  <1>3. /\ s.in_buffer <= s.left_most /\ s.left_most <= s.tensor_id
        /\ s.tensor_id <= g.tensors
    BY DEF LocalsInv
  <1>4. Num(s) \in Nat BY <1>2, LenProperties DEF Num
  <1>5. ASSUME NEW c \in Closed(s)
        PROVE  /\ ChunkAt(s, c).size \in Nat \ {0} /\ ChunkAt(s, c).file \in Nat
               /\ ChunkAt(s, c).foff \in Nat /\ ChunkAt(s, c).doff \in Nat
    <2>1. c + 1 \in 1..Len(s.chunks) BY <1>4 DEF Closed, Num
    <2>2. s.chunks[c + 1] \in ChunkType BY <1>2, <2>1, ElementOfSeq
    <2> QED BY <2>2 DEF ChunkAt, ChunkType
  <1>6. ASSUME NEW t \in 0..(g.tensors - 1)
        PROVE  /\ s.tensors[t].size \in Nat /\ s.tensors[t].file \in Nat
               /\ s.tensors[t].foff \in Nat /\ s.tensors[t].doff \in Nat
               /\ s.tensors[t].last \in Nat /\ s.tensors[t].prefetch \in Int
    <2>1. s.tensors[t] \in TensorType BY <1>2
    <2> QED BY <2>1 DEF TensorType
  <1>7. Placed(s) \subseteq 0..(g.tensors - 1) /\ Lap(s) \subseteq Placed(s)
    BY <1>2, <1>3 DEF Placed, Lap
  <1> QED BY <1>2, <1>3, <1>4, <1>5, <1>6, <1>7

\* The same tensor but for its watermark.
Same(a, b) ==
    /\ a.size = b.size /\ a.file = b.file /\ a.foff = b.foff /\ a.doff = b.doff
    /\ a.last = b.last

\* A new watermark changes nothing else about a tensor.
LEMMA SameTensor ==
    ASSUME NEW a, NEW b, Same(a, b)
    PROVE  /\ End(a) = End(b) /\ Shift(a) = Shift(b)
           /\ a.size = b.size /\ a.file = b.file /\ a.foff = b.foff
           /\ a.doff = b.doff /\ a.last = b.last
           /\ \A ch : Carries(a, ch) <=> Carries(b, ch)
           /\ \A x, ch : HasByte(a, x, ch) <=> HasByte(b, x, ch)
           /\ \A ch, dh, g : Apart(a, ch, dh, g) <=> Apart(b, ch, dh, g)
  <1>1. End(a) = End(b) /\ Shift(a) = Shift(b) BY DEF Same, End, Shift
  <1>2. /\ a.size = b.size /\ a.file = b.file /\ a.foff = b.foff
        /\ a.doff = b.doff /\ a.last = b.last
    BY DEF Same
  <1>3. \A ch : Carries(a, ch) <=> Carries(b, ch) BY <1>1, <1>2 DEF Carries
  <1>4. \A x, ch : HasByte(a, x, ch) <=> HasByte(b, x, ch) BY <1>1, <1>2 DEF HasByte
  <1>5. \A ch, dh, g : Apart(a, ch, dh, g) <=> Apart(b, ch, dh, g) BY <1>2 DEF Apart
  <1> QED BY <1>1, <1>2, <1>3, <1>4, <1>5

\* From s to f the tensors in_buffer..upto-1 get watermark m and are dropped.
Drops(s, f, upto, m, g) ==
    /\ f.in_buffer = upto
    /\ f.tensors \in [0..(g.tensors - 1) -> TensorType]
    /\ \A t \in 0..(g.tensors - 1) :
          /\ Same(f.tensors[t], s.tensors[t])
          /\ f.tensors[t].prefetch = IF s.in_buffer <= t /\ t < upto THEN m
                                     ELSE s.tensors[t].prefetch

\* SetPrefetch is the relation Drops.
LEMMA SetPrefetchDrops ==
    ASSUME NEW s, NEW g, NEW n, LocalsInv(s, g), g.tensors \in Nat,
           NEW upto \in Nat, NEW m \in Int,
           n.in_buffer = s.in_buffer /\ n.tensors = s.tensors,
           NEW f, f.in_buffer = upto,
           f.tensors = [t \in DOMAIN n.tensors |->
                 IF n.in_buffer <= t /\ t < upto
                 THEN [n.tensors[t] EXCEPT !.prefetch = m] ELSE n.tensors[t]]
    PROVE  Drops(s, f, upto, m, g)
  <1>1. s.tensors \in [0..(g.tensors - 1) -> TensorType] /\ s.in_buffer \in Nat BY Types
  <1>2. f.tensors = [t \in 0..(g.tensors - 1) |->
                 IF s.in_buffer <= t /\ t < upto
                 THEN [s.tensors[t] EXCEPT !.prefetch = m] ELSE s.tensors[t]]
    BY <1>1
  <1>3. ASSUME NEW t \in 0..(g.tensors - 1)
        PROVE  /\ f.tensors[t] \in TensorType
               /\ Same(f.tensors[t], s.tensors[t])
               /\ f.tensors[t].prefetch = IF s.in_buffer <= t /\ t < upto THEN m
                                          ELSE s.tensors[t].prefetch
    <2>1. s.tensors[t] \in TensorType BY <1>1
    <2>2. CASE s.in_buffer <= t /\ t < upto
      <3>1. f.tensors[t] = [s.tensors[t] EXCEPT !.prefetch = m] BY <1>2, <2>2
      <3> QED BY <2>1, <2>2, <3>1 DEF TensorType, Same
    <2>3. CASE ~ (s.in_buffer <= t /\ t < upto)
      <3>1. f.tensors[t] = s.tensors[t] BY <1>2, <2>3
      <3> QED BY <2>1, <2>3, <3>1 DEF Same
    <2> QED BY <2>2, <2>3
  <1>4. f.tensors \in [0..(g.tensors - 1) -> TensorType] BY <1>2, <1>3
  <1> QED BY <1>3, <1>4 DEF Drops

\* finish_chunk with something to finish.
Closes(s, f, g) ==
    /\ f \in Locals(g.tensors)
    /\ f.file = s.file /\ f.tensor_id = s.tensor_id /\ f.left_most = s.left_most
    /\ f.left = s.left /\ f.place = s.place
    /\ f.foff = s.foff + RoundDown(s.size, RankAlignment)
    /\ f.size = s.size % RankAlignment
    /\ f.doff = Top(Current(s), g)
    /\ f.bad = FALSE
    /\ f.chunks \in Seq(ChunkType) /\ Num(f) = Num(s) + 1
    /\ \A c \in Closed(s) : ChunkAt(f, c) = ChunkAt(s, c)
    /\ ChunkAt(f, Num(s)) = Current(s)
    /\ f.in_buffer \in s.in_buffer..s.left_most
    /\ f.in_buffer < s.left_most => s.tensors[f.in_buffer].doff >= f.doff
    /\ Drops(s, f, f.in_buffer, Num(s) - 1, g)

\* finish_chunk is two updates of the record, the second one by SetPrefetch.
LEMMA FinishCloses ==
    ASSUME NEW s, NEW g, g = Geometry, Sizes(g), LocalsInv(s, g), s.size # 0
    PROVE  Closes(s, finish_chunk(s), g)
  <1> DEFINE end == s.doff + RoundUp(s.size, WorldChunkAlignment)
             S == {t \in s.in_buffer..s.left_most :
                      t = s.left_most \/ s.tensors[t].doff >= end}
             upto == Min(S)
             ch == Append(s.chunks, Current(s))
             fo == s.foff + RoundDown(s.size, RankAlignment)
             z == s.size % RankAlignment
             b == s.bad \/ s.foff % RankAlignment # 0
             n == [s EXCEPT !.chunks = ch, !.foff = fo, !.doff = end, !.size = z, !.bad = b]
             te == [t \in DOMAIN n.tensors |->
                      IF n.in_buffer <= t /\ t < upto
                      THEN [n.tensors[t] EXCEPT !.prefetch = Len(n.chunks) - 2]
                      ELSE n.tensors[t]]
             f == [n EXCEPT !.tensors = te, !.in_buffer = upto]
  <1>1. finish_chunk(s) = f BY DEF finish_chunk, SetPrefetch, Current
  <1>2. s \in Locals(g.tensors) /\ ~s.bad /\ s.foff % RankAlignment = 0 BY DEF LocalsInv
  <1>3. /\ s.file \in Nat /\ s.foff \in Nat /\ s.doff \in Nat \ {0} /\ s.size \in Nat
        /\ s.in_buffer \in Nat /\ s.left_most \in Nat /\ s.in_buffer <= s.left_most
        /\ s.left_most <= s.tensor_id /\ s.tensor_id <= g.tensors /\ g.tensors \in Nat
        /\ s.chunks \in Seq(ChunkType) /\ s.tensors \in [0..(g.tensors - 1) -> TensorType]
        /\ Num(s) \in Nat
    BY Types, SizesOrdered
  <1>4. /\ n.chunks = Append(s.chunks, Current(s))
        /\ n.tensors = s.tensors /\ n.in_buffer = s.in_buffer
        /\ f.file = s.file /\ f.tensor_id = s.tensor_id
        /\ f.left_most = s.left_most /\ f.left = s.left /\ f.place = s.place
        /\ f.chunks = Append(s.chunks, Current(s))
        /\ f.foff = s.foff + RoundDown(s.size, RankAlignment)
        /\ f.doff = end /\ f.size = s.size % RankAlignment
        /\ f.bad = (s.bad \/ s.foff % RankAlignment # 0)
        /\ f.tensors = te /\ f.in_buffer = upto
    <2> HIDE DEF te, upto, end, ch, fo, z, b
    <2>1. f.chunks = ch /\ f.foff = fo /\ f.size = z /\ f.bad = b /\ n.chunks = ch
      BY <1>2 DEF Locals
    <2>2. /\ n.tensors = s.tensors /\ n.in_buffer = s.in_buffer
          /\ f.file = s.file /\ f.tensor_id = s.tensor_id
          /\ f.left_most = s.left_most /\ f.left = s.left /\ f.place = s.place
      BY <1>2 DEF Locals
    <2>3. f.doff = end /\ f.tensors = te /\ f.in_buffer = upto
      BY <1>2 DEF Locals
    <2> HIDE DEF n, f
    <2> QED BY <2>1, <2>2, <2>3 DEF ch, fo, z, b
  <1>5. f.tensors = [t \in DOMAIN n.tensors |->
                      IF n.in_buffer <= t /\ t < upto
                      THEN [n.tensors[t] EXCEPT !.prefetch = Len(n.chunks) - 2]
                      ELSE n.tensors[t]]
    <2> HIDE DEF f, n, upto
    <2> QED BY <1>4
  <1>t. ASSUME ch \in Seq(ChunkType), fo \in Nat, end \in Nat \ {0}, z \in Nat, b \in BOOLEAN,
               te \in [0..(g.tensors - 1) -> TensorType], upto \in Nat
        PROVE  f \in Locals(g.tensors)
    <2> HIDE DEF te, upto, end, ch, fo, z, b
    <2>1. n \in Locals(g.tensors) BY <1>2, <1>t DEF Locals
    <2> HIDE DEF n
    <2> QED BY <2>1, <1>t DEF Locals
  <1> HIDE DEF f, n, te
  <1>6. end = Top(Current(s), g) /\ end \in Nat
    <2>1. g.align = WorldChunkAlignment /\ g.align \in Nat \ {0}
      BY SizesOrdered DEF Geometry
    <2>2. RoundUp(s.size, g.align) \in Nat BY <1>3, <2>1, RoundUpFacts
    <2> QED BY <1>3, <2>1, <2>2 DEF Top, Current
  <1>7. Current(s) \in ChunkType BY <1>3 DEF Current, ChunkType
  <1>8. /\ f.chunks \in Seq(ChunkType) /\ Num(f) = Num(s) + 1
        /\ \A c \in Closed(s) : ChunkAt(f, c) = ChunkAt(s, c)
        /\ ChunkAt(f, Num(s)) = Current(s)
    <2>1. /\ f.chunks \in Seq(ChunkType) /\ Len(f.chunks) = Len(s.chunks) + 1
          /\ \A k \in 1..Len(s.chunks) : f.chunks[k] = s.chunks[k]
          /\ f.chunks[Len(s.chunks) + 1] = Current(s)
      BY <1>3, <1>4, <1>7, AppendProperties
    <2>2. \A c \in Closed(s) : c + 1 \in 1..Len(s.chunks) BY <1>3 DEF Closed, Num
    <2> QED BY <2>1, <2>2 DEF Num, ChunkAt
  <1> HIDE DEF end
  <1>9. upto \in s.in_buffer..s.left_most /\ (upto = s.left_most \/ s.tensors[upto].doff >= end)
    <2>1. S \subseteq Nat BY <1>3
    <2>2. s.left_most \in S BY <1>3
    <2>3. upto \in S BY <2>1, <2>2, Least
    <2> HIDE DEF upto
    <2> QED BY <2>3
  <1> HIDE DEF upto
  <1>10. Len(n.chunks) - 2 = Num(s) - 1 BY <1>3, <1>4, <1>8 DEF Num
  <1>11. upto \in Nat /\ upto <= s.left_most /\ s.in_buffer <= upto BY <1>3, <1>9
  <1>12. Drops(s, f, f.in_buffer, Num(s) - 1, g)
    <2>1. Num(s) - 1 \in Int BY <1>3
    <2>2. f.tensors = [t \in DOMAIN n.tensors |->
                      IF n.in_buffer <= t /\ t < upto
                      THEN [n.tensors[t] EXCEPT !.prefetch = Num(s) - 1]
                      ELSE n.tensors[t]]
      BY <1>5, <1>10
    <2>3. Drops(s, f, upto, Num(s) - 1, g)
      BY <1>3, <1>4, <1>11, <2>1, <2>2, SetPrefetchDrops, ZenonT(60)
    <2> QED BY <1>4, <2>3
  <1>13. f.in_buffer < s.left_most => s.tensors[f.in_buffer].doff >= f.doff
    BY <1>3, <1>4, <1>9, <1>11
  <1>14. f \in Locals(g.tensors)
    <2>1. ch \in Seq(ChunkType) BY <1>4, <1>8
    <2>2. RoundDown(s.size, RankAlignment) \in Nat /\ z \in Nat
      BY <1>3, SizesOrdered, RoundDownFacts
    <2>3. fo \in Nat BY <1>3, <2>2
    <2>4. RoundUp(s.size, g.align) \in Nat BY <1>3, SizesOrdered, RoundUpFacts
    <2>5. end \in Nat \ {0} BY <1>3, <1>6, <2>4 DEF Top, Current
    <2>6. te \in [0..(g.tensors - 1) -> TensorType] BY <1>4, <1>12 DEF Drops
    <2> QED BY <1>2, <1>11, <1>t, <2>1, <2>2, <2>3, <2>5, <2>6
  <1> QED BY <1>1, <1>2, <1>4, <1>6, <1>8, <1>9, <1>12, <1>13, <1>14 DEF Closes

-----------------------------------------------------------------------------
(* Closing a chunk keeps the invariant.                                      *)

\* What two states of the locals with the same tensors but for watermarks agree on.
SameTensors(s, f, g) == \A t \in 0..(g.tensors - 1) : Same(f.tensors[t], s.tensors[t])

\* The same, for the tensors of two states.
LEMMA TensorsAgree ==
    ASSUME NEW s, NEW f, NEW g, SameTensors(s, f, g), NEW t \in 0..(g.tensors - 1)
    PROVE  /\ End(f.tensors[t]) = End(s.tensors[t])
           /\ Shift(f.tensors[t]) = Shift(s.tensors[t])
           /\ f.tensors[t].size = s.tensors[t].size /\ f.tensors[t].file = s.tensors[t].file
           /\ f.tensors[t].foff = s.tensors[t].foff /\ f.tensors[t].doff = s.tensors[t].doff
           /\ f.tensors[t].last = s.tensors[t].last
           /\ \A ch : Carries(f.tensors[t], ch) <=> Carries(s.tensors[t], ch)
           /\ \A x, ch : HasByte(f.tensors[t], x, ch) <=> HasByte(s.tensors[t], x, ch)
           /\ \A ch, dh : Apart(f.tensors[t], ch, dh, g) <=> Apart(s.tensors[t], ch, dh, g)
  <1>1. Same(f.tensors[t], s.tensors[t]) BY DEF SameTensors
  <1> QED BY <1>1, SameTensor

\* What finish_chunk leaves alone, and the chunk it adds.
LEMMA CloseFacts ==
    ASSUME NEW s, NEW f, NEW g, Sizes(g), LocalsInv(s, g), Closes(s, f, g)
    PROVE  /\ f.foff \in Nat /\ f.size \in Nat /\ f.doff \in Nat \ {0}
           /\ f.foff % RankAlignment = 0 /\ f.size < RankAlignment
           /\ f.foff + f.size = s.foff + s.size /\ s.foff <= f.foff
           /\ s.doff + s.size <= f.doff
           /\ \A c \in Closed(f) : c \in Closed(s) \/ c = Num(s)
           /\ Placed(f) = Placed(s) /\ Lap(f) = Lap(s)
           /\ \A c \in 0..Num(s) : AnyChunk(f, c) = AnyChunk(s, c)
           /\ SameTensors(s, f, g)
  <1>1. /\ s.foff \in Nat /\ s.doff \in Nat \ {0} /\ s.size \in Nat /\ Num(s) \in Nat
        /\ s.foff % RankAlignment = 0
    BY SizesOrdered, Types DEF LocalsInv
  <1>2. RankAlignment \in Nat \ {0} /\ g.align \in Nat \ {0} BY SizesOrdered
  <1>3. /\ f.foff = s.foff + RoundDown(s.size, RankAlignment)
        /\ f.size = s.size % RankAlignment
        /\ f.doff = s.doff + RoundUp(s.size, g.align)
    BY DEF Closes, Top, Current
  <1> DEFINE d == RoundDown(s.size, RankAlignment)
             u == RoundUp(s.size, g.align)
  <1>4. d \in Nat /\ d % RankAlignment = 0 /\ f.size \in Nat /\ f.size < RankAlignment
        /\ d + f.size = s.size
    <2>1. /\ d \in Nat /\ d % RankAlignment = 0
          /\ s.size % RankAlignment \in Nat /\ s.size % RankAlignment < RankAlignment
          /\ d + (s.size % RankAlignment) = s.size
      BY <1>1, <1>2, RoundDownFacts
    <2> QED BY <1>3, <2>1
  <1>5. u \in Nat /\ s.size <= u BY <1>1, <1>2, RoundUpFacts
  <1>6. f.foff = s.foff + d /\ f.doff = s.doff + u BY <1>3
  <1> HIDE DEF d, u
  <1>7. f.foff % RankAlignment = 0 BY <1>1, <1>2, <1>4, <1>6, SumOfMultiples
  <1>8. /\ f.foff \in Nat /\ f.doff \in Nat \ {0}
        /\ f.foff + f.size = s.foff + s.size /\ s.foff <= f.foff
        /\ s.doff + s.size <= f.doff
    BY <1>1, <1>4, <1>5, <1>6
  <1>9. Num(f) = Num(s) + 1 BY DEF Closes
  <1>10. \A c \in Closed(f) : c \in Closed(s) \/ c = Num(s)
    BY <1>1, <1>9 DEF Closed
  <1>11. Placed(f) = Placed(s) /\ Lap(f) = Lap(s) BY DEF Closes, Placed, Lap
  <1>12. ASSUME NEW c \in 0..Num(s) PROVE AnyChunk(f, c) = AnyChunk(s, c)
    <2>1. AnyChunk(f, c) = ChunkAt(f, c) BY <1>1, <1>9 DEF AnyChunk
    <2>2. c \in Closed(s) \/ c = Num(s) BY <1>1 DEF Closed
    <2>3. c \in Closed(s) => AnyChunk(s, c) = ChunkAt(s, c) BY <1>1 DEF AnyChunk, Closed
    <2>4. c = Num(s) => AnyChunk(s, c) = Current(s) BY <1>1 DEF AnyChunk
    <2>5. \A x \in Closed(s) : ChunkAt(f, x) = ChunkAt(s, x) BY DEF Closes
    <2>6. ChunkAt(f, Num(s)) = Current(s) BY DEF Closes
    <2> QED BY <2>1, <2>2, <2>3, <2>4, <2>5, <2>6
  <1>13. SameTensors(s, f, g) BY DEF Closes, Drops, SameTensors
  <1> QED BY <1>4, <1>7, <1>8, <1>10, <1>11, <1>12, <1>13

\* A chunk closed now carries only the tensors that end in it.
LEMMA OpenCarries ==
    ASSUME NEW s, OpenInv(s), NEW t \in Placed(s), Carries(s.tensors[t], Current(s))
    PROVE  s.tensors[t].last = Num(s)
  BY DEF OpenInv, Carries, Current, Shift

\* finish_chunk keeps LocalsInv.
LEMMA CloseLocals ==
    ASSUME NEW s, NEW f, NEW g, Sizes(g), LocalsInv(s, g), Closes(s, f, g)
    PROVE  LocalsInv(f, g)
  <1>1. /\ s.in_buffer \in Nat /\ s.left_most \in Nat /\ s.left_most <= s.tensor_id
        /\ s.tensor_id <= g.tensors /\ s.foff % RankAlignment = 0 /\ s.size <= g.chunk
        /\ \A c \in Closed(s) :
              ChunkAt(s, c).foff % RankAlignment = 0 /\ ChunkAt(s, c).size <= g.chunk
    BY SizesOrdered, Types DEF LocalsInv
  <1>2. /\ f.in_buffer \in s.in_buffer..s.left_most /\ f.left_most = s.left_most
        /\ f.tensor_id = s.tensor_id /\ f.bad = FALSE
        /\ \A c \in Closed(s) : ChunkAt(f, c) = ChunkAt(s, c)
        /\ ChunkAt(f, Num(s)) = Current(s)
    BY DEF Closes
  <1>3. /\ f.foff % RankAlignment = 0 /\ f.size \in Nat /\ f.size < RankAlignment
        /\ \A c \in Closed(f) : c \in Closed(s) \/ c = Num(s)
    BY CloseFacts
  <1>4. f.size <= g.chunk BY <1>3, SizesOrdered
  <1>5. Current(s).foff = s.foff /\ Current(s).size = s.size BY DEF Current
  <1>6. \A c \in Closed(f) :
           ChunkAt(f, c).foff % RankAlignment = 0 /\ ChunkAt(f, c).size <= g.chunk
    BY <1>1, <1>2, <1>3, <1>5
  <1>7. f.in_buffer <= f.left_most BY <1>1, <1>2
  <1>8. f \in Locals(g.tensors) BY DEF Closes
  <1> QED BY <1>1, <1>2, <1>3, <1>4, <1>6, <1>7, <1>8 DEF LocalsInv

\* finish_chunk keeps FileInv.
LEMMA CloseFile ==
    ASSUME NEW s, NEW f, NEW g, Sizes(g), LocalsInv(s, g), Closes(s, f, g), FileInv(s)
    PROVE  FileInv(f)
  <1>1. /\ f.file = s.file
        /\ \A c \in Closed(s) : ChunkAt(f, c) = ChunkAt(s, c)
        /\ ChunkAt(f, Num(s)) = Current(s)
    BY DEF Closes
  <1>2. /\ f.foff + f.size = s.foff + s.size
        /\ \A c \in Closed(f) : c \in Closed(s) \/ c = Num(s)
        /\ Placed(f) = Placed(s) /\ SameTensors(s, f, g)
    BY CloseFacts
  <1>3. /\ Placed(s) \subseteq 0..(g.tensors - 1) /\ s.file \in Nat
        /\ s.foff \in Nat /\ s.size \in Nat
    BY SizesOrdered, Types
  <1>4. Current(s).file = s.file /\ End(Current(s)) = s.foff + s.size BY DEF Current, End
  <1>5. ASSUME NEW c \in Closed(f)
        PROVE  /\ ChunkAt(f, c).file <= f.file
               /\ ChunkAt(f, c).file = f.file => End(ChunkAt(f, c)) <= f.foff + f.size
    <2>1. CASE c \in Closed(s) BY <1>1, <1>2, <2>1 DEF FileInv
    <2>2. CASE c = Num(s)
      <3>1. s.file <= s.file /\ s.foff + s.size <= s.foff + s.size BY <1>3
      <3> QED BY <1>1, <1>2, <1>4, <2>2, <3>1
    <2> QED BY <1>2, <2>1, <2>2
  <1>6. ASSUME NEW t \in Placed(f)
        PROVE  /\ f.tensors[t].file <= f.file
               /\ f.tensors[t].file = f.file => End(f.tensors[t]) <= f.foff + f.size
    <2>1. t \in Placed(s) /\ t \in 0..(g.tensors - 1) BY <1>2, <1>3
    <2>2. f.tensors[t].file = s.tensors[t].file /\ End(f.tensors[t]) = End(s.tensors[t])
      BY <1>2, <2>1, TensorsAgree
    <2> QED BY <1>1, <1>2, <2>1, <2>2 DEF FileInv
  <1> QED BY <1>5, <1>6 DEF FileInv

\* finish_chunk keeps CarryInv: OpenInv says what the new chunk carries.
LEMMA CloseCarry ==
    ASSUME NEW s, NEW f, NEW g, Sizes(g), LocalsInv(s, g), Closes(s, f, g), CarryInv(s),
           OpenInv(s)
    PROVE  CarryInv(f)
  <1>1. /\ \A c \in Closed(s) : ChunkAt(f, c) = ChunkAt(s, c)
        /\ ChunkAt(f, Num(s)) = Current(s)
    BY DEF Closes
  <1>2. /\ \A c \in Closed(f) : c \in Closed(s) \/ c = Num(s)
        /\ Placed(f) = Placed(s) /\ SameTensors(s, f, g)
    BY CloseFacts
  <1>3. Placed(s) \subseteq 0..(g.tensors - 1) /\ Num(s) \in Nat BY SizesOrdered, Types
  <1>4. ASSUME NEW t \in Placed(f), NEW c \in Closed(f), c > f.tensors[t].last,
               Carries(f.tensors[t], ChunkAt(f, c))
        PROVE  FALSE
    <2>1. t \in Placed(s) /\ t \in 0..(g.tensors - 1) BY <1>2, <1>3
    <2>2. /\ f.tensors[t].last = s.tensors[t].last
          /\ Carries(s.tensors[t], ChunkAt(f, c))
      BY <1>2, <1>4, <2>1, TensorsAgree
    <2>3. CASE c \in Closed(s) BY <1>1, <1>4, <2>1, <2>2, <2>3 DEF CarryInv
    <2>4. CASE c = Num(s)
      <3>1. s.tensors[t].last = Num(s) BY <1>1, <2>1, <2>2, <2>4, OpenCarries
      <3> QED BY <1>3, <1>4, <2>2, <2>4, <3>1
    <2> QED BY <1>2, <2>3, <2>4
  <1> QED BY <1>4 DEF CarryInv

\* finish_chunk keeps MarkInv.
LEMMA CloseMark ==
    ASSUME NEW s, NEW f, NEW g, Sizes(g), LocalsInv(s, g), Closes(s, f, g), MarkInv(s)
    PROVE  MarkInv(f) /\ AllClosed(f)
  <1>1. /\ Num(f) = Num(s) + 1 /\ f.in_buffer \in s.in_buffer..s.left_most
        /\ \A t \in 0..(g.tensors - 1) : f.tensors[t].prefetch =
              IF s.in_buffer <= t /\ t < f.in_buffer THEN Num(s) - 1 ELSE s.tensors[t].prefetch
    BY DEF Closes, Drops
  <1>2. Placed(f) = Placed(s) /\ SameTensors(s, f, g) BY CloseFacts
  <1>3. /\ Placed(s) \subseteq 0..(g.tensors - 1) /\ Num(s) \in Nat
        /\ s.in_buffer \in Nat /\ s.left_most \in Nat /\ s.tensor_id \in Nat
        /\ s.left_most <= s.tensor_id /\ s.tensor_id <= g.tensors /\ g.tensors \in Nat
        /\ \A t \in 0..(g.tensors - 1) : s.tensors[t].last \in Nat
                                           /\ s.tensors[t].prefetch \in Int
    BY SizesOrdered, Types
  <1>4. \A t \in Placed(s) :
          /\ s.tensors[t].last <= Num(s)
          /\ s.tensors[t].last = Num(s) => t >= s.left_most
    BY DEF MarkInv
  <1>5. \A t \in 0..(s.in_buffer - 1) :
          s.tensors[t].last <= s.tensors[t].prefetch /\ s.tensors[t].prefetch < Num(s)
    BY DEF MarkInv
  <1>6. \A t, u \in 0..(s.in_buffer - 1) :
          t <= u => s.tensors[t].prefetch <= s.tensors[u].prefetch
    BY DEF MarkInv
  <1>7. \A t \in 0..(g.tensors - 1) : f.tensors[t].last = s.tensors[t].last
    BY <1>2, TensorsAgree
  <1>8. \A t \in Placed(f) : f.tensors[t].last < Num(f)
    <2> TAKE t \in Placed(f)
    <2>1. t \in Placed(s) /\ t \in 0..(g.tensors - 1) BY <1>2, <1>3
    <2> QED BY <1>1, <1>3, <1>4, <1>7, <2>1
  <1>9. ASSUME NEW t \in 0..(f.in_buffer - 1)
        PROVE  /\ t \in Placed(s) /\ t \in 0..(g.tensors - 1)
               /\ \/ t \in 0..(s.in_buffer - 1) /\ f.tensors[t].prefetch = s.tensors[t].prefetch
                  \/ ~ (t \in 0..(s.in_buffer - 1)) /\ s.in_buffer <= t
                     /\ f.tensors[t].prefetch = Num(s) - 1
               /\ f.tensors[t].last <= f.tensors[t].prefetch
               /\ f.tensors[t].prefetch < Num(f)
    <2>1. t \in Nat /\ t < f.in_buffer /\ t < s.left_most BY <1>1, <1>3
    <2>2. t \in Placed(s) /\ t \in 0..(g.tensors - 1) BY <1>3, <2>1 DEF Placed
    <2>3. CASE s.in_buffer <= t
      <3>1. f.tensors[t].prefetch = Num(s) - 1 BY <1>1, <2>1, <2>2, <2>3
      <3>2. s.tensors[t].last < Num(s) BY <1>3, <1>4, <2>1, <2>2
      <3> QED BY <1>1, <1>3, <1>7, <2>1, <2>2, <2>3, <3>1, <3>2
    <2>4. CASE t < s.in_buffer
      <3>1. f.tensors[t].prefetch = s.tensors[t].prefetch BY <1>1, <1>3, <2>1, <2>2, <2>4
      <3>2. t \in 0..(s.in_buffer - 1) BY <1>3, <2>1, <2>4
      <3> QED BY <1>1, <1>3, <1>5, <1>7, <2>1, <2>2, <3>1, <3>2
    <2> QED BY <1>3, <2>1, <2>3, <2>4
  <1>10. ASSUME NEW t \in 0..(f.in_buffer - 1), NEW u \in 0..(f.in_buffer - 1), t <= u
         PROVE  f.tensors[t].prefetch <= f.tensors[u].prefetch
    <2>1. u \in 0..(s.in_buffer - 1) => t \in 0..(s.in_buffer - 1) BY <1>1, <1>3, <1>10
    <2>2. CASE u \in 0..(s.in_buffer - 1) BY <1>6, <1>9, <1>10, <2>1, <2>2
    <2>3. CASE ~ (u \in 0..(s.in_buffer - 1))
      <3>1. f.tensors[u].prefetch = Num(s) - 1 BY <1>9, <2>3
      <3>2. f.tensors[t].prefetch = Num(s) - 1 \/ (s.tensors[t].prefetch < Num(s)
              /\ f.tensors[t].prefetch = s.tensors[t].prefetch /\ s.tensors[t].prefetch \in Int)
        BY <1>3, <1>5, <1>9
      <3> QED BY <1>3, <3>1, <3>2
    <2> QED BY <2>2, <2>3
  <1>11. \A t \in Placed(f) : f.tensors[t].last <= Num(f) /\ f.tensors[t].last # Num(f)
    <2> TAKE t \in Placed(f)
    <2>1. t \in Placed(s) /\ t \in 0..(g.tensors - 1) BY <1>2, <1>3
    <2> QED BY <1>1, <1>3, <1>7, <1>8, <2>1
  <1> QED BY <1>8, <1>9, <1>10, <1>11 DEF MarkInv, AllClosed

\* The chunk closed now overwrites nothing that a tensor still needs.
LEMMA CloseLap ==
    ASSUME NEW s, NEW f, NEW g, Sizes(g), LocalsInv(s, g), Closes(s, f, g), LapInv(s, g),
           MarkInv(s)
    PROVE  LapInv(f, g) /\ \A t \in Lap(f) : f.tensors[t].doff <= f.doff
  <1>1. /\ Num(f) = Num(s) + 1 /\ f.in_buffer \in s.in_buffer..s.left_most
        /\ f.left_most = s.left_most /\ f.tensor_id = s.tensor_id
        /\ f.in_buffer < s.left_most => s.tensors[f.in_buffer].doff >= f.doff
        /\ \A c \in Closed(s) : ChunkAt(f, c) = ChunkAt(s, c)
        /\ ChunkAt(f, Num(s)) = Current(s)
        /\ f.doff = Top(Current(s), g)
        /\ \A t \in 0..(g.tensors - 1) : f.tensors[t].prefetch =
              IF s.in_buffer <= t /\ t < f.in_buffer THEN Num(s) - 1 ELSE s.tensors[t].prefetch
    BY DEF Closes, Drops
  <1>2. /\ Placed(f) = Placed(s) /\ Lap(f) = Lap(s) /\ SameTensors(s, f, g)
        /\ \A c \in Closed(f) : c \in Closed(s) \/ c = Num(s)
        /\ f.doff \in Nat /\ f.size \in Nat /\ s.doff + s.size <= f.doff
    BY CloseFacts
  <1>3. /\ Placed(s) \subseteq 0..(g.tensors - 1) /\ Lap(s) \subseteq Placed(s)
        /\ Num(s) \in Nat /\ s.doff \in Nat /\ s.size \in Nat
        /\ s.in_buffer \in Nat /\ s.left_most \in Nat /\ s.tensor_id \in Nat
        /\ s.in_buffer <= s.left_most
        /\ s.left_most <= s.tensor_id /\ s.tensor_id <= g.tensors /\ g.tensors \in Nat
        /\ \A t \in 0..(g.tensors - 1) : s.tensors[t].doff \in Nat
                                           /\ s.tensors[t].prefetch \in Int
        /\ \A c \in Closed(s) : ChunkAt(s, c).doff \in Nat /\ ChunkAt(s, c).size \in Nat
    BY SizesOrdered, Types
  <1>4. \A t \in 0..(g.tensors - 1) : f.tensors[t].doff = s.tensors[t].doff
    BY <1>2, TensorsAgree
  <1>5. Current(s).doff = s.doff /\ Current(s).size = s.size BY DEF Current
  <1>6. \A t, u \in f.in_buffer..(f.left_most - 1) :
          t <= u => f.tensors[t].doff <= f.tensors[u].doff
    <2> TAKE t, u \in f.in_buffer..(f.left_most - 1)
    <2>1. /\ t \in s.in_buffer..(s.left_most - 1) /\ u \in s.in_buffer..(s.left_most - 1)
          /\ t \in 0..(g.tensors - 1) /\ u \in 0..(g.tensors - 1)
      BY <1>1, <1>3
    <2> QED BY <1>4, <2>1 DEF LapInv
  <1>7. \A t, u \in Lap(f) : t <= u => f.tensors[t].doff <= f.tensors[u].doff
    <2> TAKE t, u \in Lap(f)
    <2>1. /\ t \in Lap(s) /\ u \in Lap(s)
          /\ t \in 0..(g.tensors - 1) /\ u \in 0..(g.tensors - 1)
      BY <1>2, <1>3
    <2> QED BY <1>4, <2>1 DEF LapInv
  <1>8. \A t \in Lap(f) : f.tensors[t].doff <= f.doff
    <2> TAKE t \in Lap(f)
    <2>1. t \in Lap(s) /\ t \in 0..(g.tensors - 1) BY <1>2, <1>3
    <2>2. s.tensors[t].doff <= s.doff + s.size BY <2>1 DEF LapInv
    <2> QED BY <1>2, <1>3, <1>4, <2>1, <2>2
  <1>9. \A t \in Lap(f) : f.tensors[t].doff <= f.doff + f.size
    <2> TAKE t \in Lap(f)
    <2>1. t \in 0..(g.tensors - 1) BY <1>2, <1>3
    <2> QED BY <1>2, <1>3, <1>4, <1>8, <2>1
  <1>10. ASSUME NEW t \in Lap(f), NEW c \in Closed(f), Carries(f.tensors[t], ChunkAt(f, c))
         PROVE  ChunkAt(f, c).doff + ChunkAt(f, c).size <= f.doff
    <2>1. t \in Lap(s) /\ t \in 0..(g.tensors - 1) BY <1>2, <1>3
    <2>2. Carries(s.tensors[t], ChunkAt(f, c)) BY <1>2, <1>10, <2>1, TensorsAgree
    <2>3. CASE c \in Closed(s)
      <3>1. ChunkAt(s, c).doff + ChunkAt(s, c).size <= s.doff
        BY <1>1, <2>1, <2>2, <2>3 DEF LapInv
      <3> QED BY <1>1, <1>2, <1>3, <2>3, <3>1
    <2>4. CASE c = Num(s) BY <1>1, <1>2, <1>5, <2>4
    <2> QED BY <1>2, <2>3, <2>4
  <1>11. ASSUME NEW t \in Placed(f), NEW c \in Closed(f), NEW d \in Closed(f),
                c < d, d <= Horizon(f, t), Carries(f.tensors[t], ChunkAt(f, c))
         PROVE  Apart(f.tensors[t], ChunkAt(f, c), ChunkAt(f, d), g)
    <2>1. t \in Placed(s) /\ t \in 0..(g.tensors - 1) /\ t \in Nat
      BY <1>2, <1>3
    <2>2. c \in Closed(s) /\ c \in Nat /\ d \in Nat BY <1>1, <1>2, <1>3, <1>11 DEF Closed
    <2>3. Carries(s.tensors[t], ChunkAt(s, c)) BY <1>1, <1>2, <1>11, <2>1, <2>2, TensorsAgree
    <2>4. ChunkAt(f, c) = ChunkAt(s, c) BY <1>1, <2>2
    <2> SUFFICES Apart(s.tensors[t], ChunkAt(s, c), ChunkAt(f, d), g)
      BY <1>2, <2>1, <2>4, TensorsAgree
    <2>5. CASE d \in Closed(s)
      <3>1. d <= Horizon(s, t)
        <4>1. d < Num(s) BY <1>3, <2>5 DEF Closed
        <4>2. CASE t < s.in_buffer
          <5>1. t < f.in_buffer /\ f.tensors[t].prefetch = s.tensors[t].prefetch
            BY <1>1, <1>3, <2>1, <4>2
          <5> QED BY <1>11, <4>2, <5>1 DEF Horizon
        <4>3. CASE ~ (t < s.in_buffer) BY <1>3, <2>2, <4>1, <4>3 DEF Horizon
        <4> QED BY <4>2, <4>3
      <3>2. Apart(s.tensors[t], ChunkAt(s, c), ChunkAt(s, d), g)
        BY <1>11, <2>1, <2>2, <2>3, <2>5, <3>1 DEF LapInv
      <3> QED BY <1>1, <2>5, <3>2
    <2>6. CASE d = Num(s)
      <3>1. t >= f.in_buffer
        <4> SUFFICES ASSUME t < f.in_buffer PROVE FALSE BY <1>1, <1>3, <2>1
        <4>1. d <= f.tensors[t].prefetch BY <1>11 DEF Horizon
        <4>2. CASE s.in_buffer <= t
          <5>1. f.tensors[t].prefetch = Num(s) - 1 BY <1>1, <2>1, <4>2
          <5> QED BY <1>3, <2>6, <4>1, <5>1
        <4>3. CASE t < s.in_buffer
          <5>1. f.tensors[t].prefetch = s.tensors[t].prefetch BY <1>1, <1>3, <2>1, <4>3
          <5>2. t \in 0..(s.in_buffer - 1) BY <1>3, <2>1, <4>3
          <5>3. s.tensors[t].prefetch < Num(s) BY <5>2 DEF MarkInv
          <5> QED BY <1>3, <2>1, <2>6, <4>1, <5>1, <5>3
        <4> QED BY <1>3, <2>1, <4>2, <4>3
      <3>2. CASE t >= s.left_most
        <4>1. t \in Lap(s) BY <1>3, <2>1, <3>2 DEF Lap, Placed
        <4>2. ChunkAt(s, c).doff + ChunkAt(s, c).size <= s.doff
          BY <2>2, <2>3, <4>1 DEF LapInv
        <4> QED BY <1>1, <1>5, <2>6, <4>2 DEF Apart
      <3>3. CASE t < s.left_most
        <4>1. f.in_buffer \in s.in_buffer..(s.left_most - 1)
              /\ t \in s.in_buffer..(s.left_most - 1) /\ f.in_buffer <= t
              /\ f.in_buffer \in 0..(g.tensors - 1)
          BY <1>1, <1>3, <2>1, <3>1, <3>3
        <4>2. s.tensors[f.in_buffer].doff <= s.tensors[t].doff BY <4>1 DEF LapInv
        <4>3. f.doff <= s.tensors[f.in_buffer].doff BY <1>1, <1>2, <1>3, <4>1
        <4>4. Top(Current(s), g) <= s.tensors[t].doff
          BY <1>1, <1>2, <1>3, <2>1, <4>1, <4>2, <4>3
        <4> QED BY <1>1, <2>6, <4>4 DEF Apart
      <3> QED BY <1>3, <2>1, <3>2, <3>3
    <2> QED BY <1>2, <2>5, <2>6
  <1> QED BY <1>6, <1>7, <1>8, <1>9, <1>10, <1>11 DEF LapInv

\* finish_chunk keeps ByteInv: the open chunk becomes the last closed one.
LEMMA CloseByte ==
    ASSUME NEW s, NEW f, NEW g, Sizes(g), LocalsInv(s, g), Closes(s, f, g), ByteInv(s),
           MarkInv(s)
    PROVE  ByteInv(f)
  <1>1. /\ Placed(f) = Placed(s) /\ SameTensors(s, f, g)
        /\ \A c \in 0..Num(s) : AnyChunk(f, c) = AnyChunk(s, c)
    BY CloseFacts
  <1>2. /\ Placed(s) \subseteq 0..(g.tensors - 1) /\ Num(s) \in Nat
        /\ \A t \in 0..(g.tensors - 1) : s.tensors[t].last \in Nat
    BY SizesOrdered, Types
  <1> SUFFICES ASSUME NEW t \in Placed(f)
               PROVE  /\ \A b \in 0..(f.tensors[t].size - 1) : \E c \in 0..f.tensors[t].last :
                            HasByte(f.tensors[t], b, AnyChunk(f, c))
                      /\ f.tensors[t].size > 0 =>
                            HasByte(f.tensors[t], f.tensors[t].size - 1,
                                    AnyChunk(f, f.tensors[t].last))
    BY DEF ByteInv
  <1>3. t \in Placed(s) /\ t \in 0..(g.tensors - 1) BY <1>1, <1>2
  <1>4. /\ f.tensors[t].size = s.tensors[t].size /\ f.tensors[t].last = s.tensors[t].last
        /\ \A x, ch : HasByte(f.tensors[t], x, ch) <=> HasByte(s.tensors[t], x, ch)
    BY <1>1, <1>3, TensorsAgree
  <1>5. s.tensors[t].last \in Nat /\ s.tensors[t].last <= Num(s) BY <1>2, <1>3 DEF MarkInv
  <1>6. \A c \in 0..s.tensors[t].last : AnyChunk(f, c) = AnyChunk(s, c) BY <1>1, <1>2, <1>5
  <1>7. AnyChunk(f, s.tensors[t].last) = AnyChunk(s, s.tensors[t].last) BY <1>5, <1>6
  <1>8. ASSUME NEW b \in 0..(f.tensors[t].size - 1)
        PROVE  \E c \in 0..f.tensors[t].last : HasByte(f.tensors[t], b, AnyChunk(f, c))
    <2>1. PICK c \in 0..s.tensors[t].last : HasByte(s.tensors[t], b, AnyChunk(s, c))
      BY <1>3, <1>4 DEF ByteInv
    <2> QED BY <1>4, <1>6, <2>1
  <1>9. s.tensors[t].size > 0 =>
            HasByte(s.tensors[t], s.tensors[t].size - 1, AnyChunk(s, s.tensors[t].last))
    BY <1>3 DEF ByteInv
  <1> QED BY <1>4, <1>7, <1>8, <1>9

\* finish_chunk keeps RoomInv.
LEMMA CloseRoom ==
    ASSUME NEW s, NEW f, NEW g, Sizes(g), LocalsInv(s, g), Closes(s, f, g), RoomInv(s, g),
           OpenInv(s), AllClosed(f)
    PROVE  RoomInv(f, g)
  <1>1. /\ \A c \in Closed(s) : ChunkAt(f, c) = ChunkAt(s, c)
        /\ ChunkAt(f, Num(s)) = Current(s) /\ Num(f) = Num(s) + 1
    BY DEF Closes
  <1>2. /\ \A c \in Closed(f) : c \in Closed(s) \/ c = Num(s)
        /\ Placed(f) = Placed(s) /\ SameTensors(s, f, g)
    BY CloseFacts
  <1>3. /\ Placed(s) \subseteq 0..(g.tensors - 1) /\ Num(s) \in Nat
        /\ \A t \in 0..(g.tensors - 1) : s.tensors[t].last \in Nat
    BY SizesOrdered, Types
  <1>4. ASSUME NEW t \in Placed(f), NEW c \in Closed(f), Carries(f.tensors[t], ChunkAt(f, c))
        PROVE  Top(ChunkAt(f, c), g) <= g.room
    <2>1. t \in Placed(s) /\ t \in 0..(g.tensors - 1) BY <1>2, <1>3
    <2>2. Carries(s.tensors[t], ChunkAt(f, c)) BY <1>2, <1>4, <2>1, TensorsAgree
    <2>3. CASE c \in Closed(s) BY <1>1, <2>1, <2>2, <2>3 DEF RoomInv
    <2>4. CASE c = Num(s)
      <3>1. s.tensors[t].last = Num(s) BY <1>1, <2>1, <2>2, <2>4, OpenCarries
      <3> QED BY <1>1, <2>1, <2>4, <3>1 DEF RoomInv
    <2> QED BY <1>2, <2>3, <2>4
  <1>5. \A t \in Placed(f) : f.tensors[t].last # Num(f)
    <2> TAKE t \in Placed(f)
    <2>1. t \in 0..(g.tensors - 1) BY <1>2, <1>3
    <2>2. f.tensors[t].last = s.tensors[t].last BY <1>2, <2>1, TensorsAgree
    <2>3. f.tensors[t].last < Num(f) BY DEF AllClosed
    <2> QED BY <1>1, <1>3, <2>1, <2>2, <2>3
  <1> QED BY <1>4, <1>5 DEF RoomInv

\* AlignInv is about places and sizes only.
LEMMA SameAlign ==
    ASSUME NEW s, NEW f, NEW g, Sizes(g), LocalsInv(s, g), SameTensors(s, f, g),
           f.tensor_id = s.tensor_id
    PROVE  /\ AlignInv(s) => AlignInv(f)
           /\ \A x : Follows(s, s.tensor_id, x) => Follows(f, f.tensor_id, x)
  <1>1. /\ s.tensor_id \in Nat /\ s.tensor_id <= g.tensors /\ g.tensors \in Nat
        /\ Placed(s) \subseteq 0..(g.tensors - 1)
    BY SizesOrdered, Types
  <1>2. ASSUME NEW t \in 0..g.tensors, NEW x, Follows(s, t, x) PROVE Follows(f, t, x)
    <2>1. CASE t = 0 BY <1>2, <2>1 DEF Follows
    <2>2. CASE t > 0
      <3>1. t - 1 \in 0..(g.tensors - 1) BY <1>1, <2>2
      <3>2. f.tensors[t - 1].doff = s.tensors[t - 1].doff
            /\ f.tensors[t - 1].size = s.tensors[t - 1].size
        BY <3>1, TensorsAgree
      <3> QED BY <1>2, <3>2 DEF Follows
    <2> QED BY <1>1, <2>1, <2>2
  <1>3. ASSUME AlignInv(s) PROVE AlignInv(f)
    <2> SUFFICES ASSUME NEW t \in Placed(f) PROVE Follows(f, t, f.tensors[t].doff)
      BY DEF AlignInv
    <2>1. t \in Placed(s) /\ t \in 0..(g.tensors - 1) /\ t \in 0..g.tensors
      BY <1>1 DEF Placed
    <2>2. f.tensors[t].doff = s.tensors[t].doff BY <2>1, TensorsAgree
    <2>3. Follows(s, t, s.tensors[t].doff) BY <1>3, <2>1 DEF AlignInv
    <2> QED BY <1>2, <2>1, <2>2, <2>3
  <1>4. s.tensor_id \in 0..g.tensors BY <1>1
  <1> QED BY <1>2, <1>3, <1>4

\* finish_chunk keeps the invariant, whether there is something to finish or not.
LEMMA FinishKeeps ==
    ASSUME NEW s, NEW g, g = Geometry, Sizes(g), StateInv(s, g), OpenInv(s),
           NEW f, f = finish_chunk(s)
    PROVE  /\ StateInv(f, g) /\ AllClosed(f) /\ SameTensors(s, f, g)
           /\ f.size < RankAlignment /\ f.foff + f.size = s.foff + s.size
           /\ f.foff = s.foff + RoundDown(s.size, RankAlignment)
           /\ f.file = s.file /\ f.tensor_id = s.tensor_id /\ f.left_most = s.left_most
           /\ f.left = s.left /\ f.place = s.place
           /\ \A t \in Lap(f) : f.tensors[t].doff <= f.doff
  <1>1. /\ LocalsInv(s, g) /\ FileInv(s) /\ CarryInv(s) /\ MarkInv(s) /\ LapInv(s, g)
        /\ ByteInv(s) /\ RoomInv(s, g) /\ AlignInv(s)
    BY DEF StateInv
  <1>2. s.size \in Nat /\ s.foff \in Nat /\ s.doff \in Nat /\ Num(s) \in Nat
    BY <1>1, SizesOrdered, Types
  <1>3. CASE s.size # 0
    <2>1. Closes(s, f, g) BY <1>1, <1>3, FinishCloses
    <2>2. LocalsInv(f, g) BY <1>1, <2>1, CloseLocals
    <2>3. FileInv(f) BY <1>1, <2>1, CloseFile
    <2>4. CarryInv(f) BY <1>1, <2>1, CloseCarry
    <2>5. MarkInv(f) /\ AllClosed(f) BY <1>1, <2>1, CloseMark
    <2>6. LapInv(f, g) /\ \A t \in Lap(f) : f.tensors[t].doff <= f.doff
      BY <1>1, <2>1, CloseLap
    <2>7. ByteInv(f) BY <1>1, <2>1, CloseByte
    <2>8. RoomInv(f, g) BY <1>1, <2>1, <2>5, CloseRoom
    <2>9. SameTensors(s, f, g) /\ f.size < RankAlignment /\ f.foff + f.size = s.foff + s.size
      BY <1>1, <2>1, CloseFacts
    <2>10. /\ f.foff = s.foff + RoundDown(s.size, RankAlignment)
           /\ f.file = s.file /\ f.tensor_id = s.tensor_id /\ f.left_most = s.left_most
           /\ f.left = s.left /\ f.place = s.place
      BY <2>1 DEF Closes
    <2>11. AlignInv(f) BY <1>1, <2>9, <2>10, SameAlign
    <2> QED BY <2>2, <2>3, <2>4, <2>5, <2>6, <2>7, <2>8, <2>9, <2>10, <2>11 DEF StateInv
  <1>4. CASE s.size = 0
    <2>1. f = s BY <1>4 DEF finish_chunk
    <2>2. RankAlignment \in Nat \ {0} BY SizesOrdered
    <2>3. RoundDown(s.size, RankAlignment) = 0 BY <1>2, <1>4, <2>2, RoundDownFacts
    <2>4. s.size < RankAlignment BY <1>4, <2>2
    <2>5. \A t \in Placed(s) : s.tensors[t].last < Num(s)
      <3> TAKE t \in Placed(s)
      <3>1. s.tensors[t].last \in Nat BY <1>1, SizesOrdered, Types
      <3>2. s.tensors[t].last <= Num(s) /\ (s.tensors[t].last = Num(s) => s.size > 0)
        BY <1>1 DEF MarkInv
      <3> QED BY <1>2, <1>4, <3>1, <3>2
    <2>6. SameTensors(s, s, g) BY DEF SameTensors, Same
    <2>7. \A t \in Lap(s) : s.tensors[t].doff <= s.doff
      BY <1>1, <1>2, <1>4 DEF LapInv
    <2> QED BY <1>2, <2>1, <2>3, <2>4, <2>5, <2>6, <2>7 DEF AllClosed
  <1> QED BY <1>3, <1>4

-----------------------------------------------------------------------------
(* A new lap and a new file keep the invariant.                              *)

\* Neither the chunks nor the tensors change but for watermarks.
LEMMA SameChunks ==
    ASSUME NEW s, NEW f, NEW g, Sizes(g), LocalsInv(s, g), SameTensors(s, f, g),
           f.chunks = s.chunks, f.tensor_id = s.tensor_id, AllClosed(s),
           CarryInv(s), ByteInv(s), RoomInv(s, g), AlignInv(s)
    PROVE  /\ Num(f) = Num(s) /\ Closed(f) = Closed(s) /\ Placed(f) = Placed(s)
           /\ \A c : ChunkAt(f, c) = ChunkAt(s, c)
           /\ CarryInv(f) /\ ByteInv(f) /\ RoomInv(f, g) /\ AlignInv(f) /\ AllClosed(f)
  <1>1. /\ Num(f) = Num(s) /\ Closed(f) = Closed(s) /\ Placed(f) = Placed(s)
        /\ \A c : ChunkAt(f, c) = ChunkAt(s, c)
    BY DEF Num, Closed, Placed, ChunkAt
  <1>2. /\ Placed(s) \subseteq 0..(g.tensors - 1) /\ Num(s) \in Nat
        /\ \A t \in 0..(g.tensors - 1) : s.tensors[t].last \in Nat
    BY SizesOrdered, Types
  <1>3. ASSUME NEW t \in Placed(s)
        PROVE  /\ f.tensors[t].last = s.tensors[t].last
               /\ f.tensors[t].size = s.tensors[t].size
               /\ s.tensors[t].last \in Nat /\ s.tensors[t].last < Num(s)
               /\ \A ch : Carries(f.tensors[t], ch) <=> Carries(s.tensors[t], ch)
               /\ \A x, ch : HasByte(f.tensors[t], x, ch) <=> HasByte(s.tensors[t], x, ch)
    <2>1. t \in 0..(g.tensors - 1) BY <1>2
    <2> QED BY <1>2, <2>1, TensorsAgree DEF AllClosed
  <1>4. AllClosed(f) BY <1>1, <1>3 DEF AllClosed
  <1>5. CarryInv(f) BY <1>1, <1>3 DEF CarryInv
  <1>6. ByteInv(f)
    <2> SUFFICES ASSUME NEW t \in Placed(s)
                 PROVE  /\ \A b \in 0..(f.tensors[t].size - 1) :
                              \E c \in 0..f.tensors[t].last :
                                 HasByte(f.tensors[t], b, AnyChunk(f, c))
                        /\ f.tensors[t].size > 0 =>
                              HasByte(f.tensors[t], f.tensors[t].size - 1,
                                      AnyChunk(f, f.tensors[t].last))
      BY <1>1 DEF ByteInv
    <2>1. \A c \in 0..s.tensors[t].last : AnyChunk(f, c) = AnyChunk(s, c)
      BY <1>1, <1>2, <1>3 DEF AnyChunk
    <2>2. AnyChunk(f, s.tensors[t].last) = AnyChunk(s, s.tensors[t].last) BY <1>3, <2>1
    <2>3. ASSUME NEW b \in 0..(f.tensors[t].size - 1)
          PROVE  \E c \in 0..f.tensors[t].last : HasByte(f.tensors[t], b, AnyChunk(f, c))
      <3>1. PICK c \in 0..s.tensors[t].last : HasByte(s.tensors[t], b, AnyChunk(s, c))
        BY <1>3 DEF ByteInv
      <3> QED BY <1>3, <2>1, <3>1
    <2>4. s.tensors[t].size > 0 =>
              HasByte(s.tensors[t], s.tensors[t].size - 1, AnyChunk(s, s.tensors[t].last))
      BY DEF ByteInv
    <2> QED BY <1>3, <2>2, <2>3, <2>4
  <1>7. RoomInv(f, g)
    <2>1. \A t \in Placed(f) : f.tensors[t].last # Num(f)
      <3> TAKE t \in Placed(f)
      <3>1. t \in Placed(s) BY <1>1
      <3> QED BY <1>1, <1>2, <1>3, <3>1
    <2>2. \A t \in Placed(f), c \in Closed(f) :
            Carries(f.tensors[t], ChunkAt(f, c)) => Top(ChunkAt(f, c), g) <= g.room
      BY <1>1, <1>3 DEF RoomInv
    <2> QED BY <2>1, <2>2 DEF RoomInv
  <1>8. AlignInv(f) BY SameAlign
  <1> QED BY <1>1, <1>4, <1>5, <1>6, <1>7, <1>8

\* reset_chunk_buffer_offset with the tensor that is placed next.
Laps(s, r, g) ==
    /\ r \in Locals(g.tensors)
    /\ r.file = s.file /\ r.foff = s.foff /\ r.size = s.size
    /\ r.doff = FirstTensorSlot(0, s.size)
    /\ r.tensor_id = s.tensor_id /\ r.left_most = s.tensor_id
    /\ r.left = s.left /\ r.place = s.place /\ r.chunks = s.chunks /\ r.bad = FALSE
    /\ Drops(s, r, s.left_most, Num(s) - 1, g)

\* reset_chunk_buffer_offset is the relation Laps.
LEMMA ResetLaps ==
    ASSUME NEW s, NEW g, Sizes(g), LocalsInv(s, g), s.size < RankAlignment,
           NEW first, first = s.tensor_id
    PROVE  Laps(s, reset_chunk_buffer_offset(s, first), g)
  <1> DEFINE te == [t \in DOMAIN s.tensors |->
                      IF s.in_buffer <= t /\ t < s.left_most
                      THEN [s.tensors[t] EXCEPT !.prefetch = Len(s.chunks) - 1]
                      ELSE s.tensors[t]]
             n == [s EXCEPT !.tensors = te, !.in_buffer = s.left_most]
             d == FirstTensorSlot(0, s.size)
             r == [n EXCEPT !.doff = d, !.left_most = first,
                            !.bad = @ \/ s.size >= RankAlignment]
  <1>1. reset_chunk_buffer_offset(s, first) = r BY DEF reset_chunk_buffer_offset, SetPrefetch
  <1>2. s \in Locals(g.tensors) /\ s.bad = FALSE BY DEF LocalsInv, Locals
  <1>3. /\ s.size \in Nat /\ s.left_most \in Nat /\ s.tensor_id \in Nat
        /\ Num(s) \in Nat /\ RankAlignment \in Nat
    BY Types, SizesOrdered
  <1>4. n.bad = FALSE
    <2> HIDE DEF te
    <2> QED BY <1>2 DEF Locals
  <1>5. (n.bad \/ s.size >= RankAlignment) = FALSE BY <1>3, <1>4
  <1>6. r = [n EXCEPT !.doff = d, !.left_most = first, !.bad = FALSE] BY <1>4, <1>5
  <1>7. /\ r.file = s.file /\ r.foff = s.foff /\ r.size = s.size
        /\ r.tensor_id = s.tensor_id /\ r.left = s.left /\ r.place = s.place
        /\ r.chunks = s.chunks
    <2> HIDE DEF te, d
    <2> QED BY <1>2 DEF Locals
  <1>8. r.doff = d /\ r.left_most = first /\ r.tensors = te /\ r.in_buffer = s.left_most
    <2> HIDE DEF te, d
    <2> QED BY <1>2 DEF Locals
  <1>9. r.bad = FALSE
    <2>1. ASSUME NEW q, q = [n EXCEPT !.doff = d, !.left_most = first, !.bad = FALSE]
          PROVE  q.bad = FALSE
      <3> HIDE DEF te, d
      <3> QED BY <1>2, <2>1 DEF Locals
    <2> HIDE DEF r
    <2> QED BY <1>6, <2>1
  <1>10. d \in Nat /\ 0 < d
    <2>1. 0 % FirstTensorAlignment = 0 /\ FirstTensorAlignment \in Nat \ {0}
      BY SizesOrdered
    <2> QED BY <1>3, <2>1, SlotFacts
  <1>t. ASSUME te \in [0..(g.tensors - 1) -> TensorType] PROVE r \in Locals(g.tensors)
    <2> HIDE DEF te, d
    <2>1. n \in Locals(g.tensors) BY <1>2, <1>3, <1>t DEF Locals
    <2>2. ASSUME NEW q, q = [n EXCEPT !.doff = d, !.left_most = first, !.bad = FALSE]
          PROVE  q \in Locals(g.tensors)
      <3> HIDE DEF n
      <3>1. d \in Nat \ {0} /\ first \in Nat BY <1>3, <1>10
      <3> QED BY <2>1, <2>2, <3>1 DEF Locals
    <2> HIDE DEF r
    <2> QED BY <1>6, <2>2
  <1> HIDE DEF n, r
  <1>11. Drops(s, r, s.left_most, Num(s) - 1, g)
    <2>1. r.tensors = [t \in DOMAIN s.tensors |->
                      IF s.in_buffer <= t /\ t < s.left_most
                      THEN [s.tensors[t] EXCEPT !.prefetch = Num(s) - 1]
                      ELSE s.tensors[t]]
      BY <1>8 DEF Num
    <2>2. Num(s) - 1 \in Int /\ g.tensors \in Nat BY <1>3, SizesOrdered
    <2> QED BY <1>3, <1>8, <2>1, <2>2, SetPrefetchDrops
  <1>12. te \in [0..(g.tensors - 1) -> TensorType] BY <1>8, <1>11 DEF Drops
  <1> HIDE DEF te
  <1>13. r \in Locals(g.tensors) BY <1>12, <1>t
  <1> QED BY <1>1, <1>7, <1>8, <1>9, <1>11, <1>13 DEF Laps

\* reset_chunk_buffer_offset after finish_chunk keeps the invariant.
LEMMA LapsKeeps ==
    ASSUME NEW s, NEW r, NEW g, Sizes(g), StateInv(s, g), AllClosed(s),
           s.size < RankAlignment, Laps(s, r, g)
    PROVE  /\ StateInv(r, g) /\ AllClosed(r) /\ SameTensors(s, r, g)
           /\ r.doff <= FirstTensorAlignment
           /\ (r.doff + r.size) % FirstTensorAlignment = 0
  <1>1. /\ LocalsInv(s, g) /\ FileInv(s) /\ CarryInv(s) /\ MarkInv(s) /\ LapInv(s, g)
        /\ ByteInv(s) /\ RoomInv(s, g) /\ AlignInv(s)
    BY DEF StateInv
  <1>2. /\ s.size \in Nat /\ s.foff \in Nat /\ s.doff \in Nat /\ Num(s) \in Nat
        /\ s.in_buffer \in Nat /\ s.left_most \in Nat /\ s.tensor_id \in Nat
        /\ s.in_buffer <= s.left_most
        /\ s.left_most <= s.tensor_id /\ s.tensor_id <= g.tensors /\ g.tensors \in Nat
        /\ Placed(s) \subseteq 0..(g.tensors - 1)
        /\ \A t \in 0..(g.tensors - 1) :
              s.tensors[t].last \in Nat /\ s.tensors[t].prefetch \in Int
    BY <1>1, SizesOrdered, Types
  <1>3. /\ r.file = s.file /\ r.foff = s.foff /\ r.size = s.size
        /\ r.doff = FirstTensorSlot(0, s.size)
        /\ r.tensor_id = s.tensor_id /\ r.left_most = s.tensor_id
        /\ r.chunks = s.chunks /\ r.bad = FALSE /\ r \in Locals(g.tensors)
        /\ r.in_buffer = s.left_most
        /\ \A t \in 0..(g.tensors - 1) : r.tensors[t].prefetch =
              IF s.in_buffer <= t /\ t < s.left_most THEN Num(s) - 1 ELSE s.tensors[t].prefetch
    BY DEF Laps, Drops
  <1>4. SameTensors(s, r, g) BY DEF Laps, Drops, SameTensors
  <1>5. /\ Num(r) = Num(s) /\ Closed(r) = Closed(s) /\ Placed(r) = Placed(s)
        /\ \A c : ChunkAt(r, c) = ChunkAt(s, c)
        /\ CarryInv(r) /\ ByteInv(r) /\ RoomInv(r, g) /\ AlignInv(r) /\ AllClosed(r)
    BY <1>1, <1>3, <1>4, SameChunks
  <1>6. r.doff <= FirstTensorAlignment /\ (r.doff + r.size) % FirstTensorAlignment = 0
    <2>1. 0 % FirstTensorAlignment = 0 /\ FirstTensorAlignment \in Nat \ {0}
      BY SizesOrdered
    <2>2. /\ FirstTensorSlot(0, s.size) <= 0 + FirstTensorAlignment
          /\ (FirstTensorSlot(0, s.size) + s.size) % FirstTensorAlignment = 0
      BY <1>2, <2>1, SlotFacts
    <2> QED BY <1>3, <2>1, <2>2
  <1>7. LocalsInv(r, g)
    <2>1. s.size <= g.chunk /\ s.foff % RankAlignment = 0
          /\ \A c \in Closed(s) :
                ChunkAt(s, c).foff % RankAlignment = 0 /\ ChunkAt(s, c).size <= g.chunk
      BY <1>1 DEF LocalsInv
    <2>2. r.in_buffer <= r.left_most /\ r.left_most <= r.tensor_id /\ r.tensor_id <= g.tensors
      BY <1>2, <1>3
    <2> QED BY <1>3, <1>5, <2>1, <2>2 DEF LocalsInv
  <1>8. ASSUME NEW t \in Placed(s)
        PROVE  /\ r.tensors[t].file = s.tensors[t].file
               /\ End(r.tensors[t]) = End(s.tensors[t])
               /\ r.tensors[t].last = s.tensors[t].last
               /\ r.tensors[t].doff = s.tensors[t].doff
               /\ \A ch : Carries(r.tensors[t], ch) <=> Carries(s.tensors[t], ch)
               /\ \A ch, dh : Apart(r.tensors[t], ch, dh, g) <=> Apart(s.tensors[t], ch, dh, g)
    <2>1. t \in 0..(g.tensors - 1) BY <1>2
    <2> QED BY <1>4, <2>1, TensorsAgree
  <1>9. FileInv(r) BY <1>1, <1>3, <1>5, <1>8 DEF FileInv
  <1>10. MarkInv(r)
    <2>1. \A t \in Placed(r) : r.tensors[t].last <= Num(r) /\ r.tensors[t].last # Num(r)
      <3> TAKE t \in Placed(r)
      <3>1. t \in Placed(s) /\ t \in 0..(g.tensors - 1) BY <1>2, <1>5
      <3>2. s.tensors[t].last < Num(s) BY <3>1 DEF AllClosed
      <3> QED BY <1>2, <1>5, <1>8, <3>1, <3>2
    <2>2. ASSUME NEW t \in 0..(r.in_buffer - 1)
          PROVE  /\ r.tensors[t].last <= r.tensors[t].prefetch /\ r.tensors[t].prefetch < Num(r)
                 /\ r.tensors[t].prefetch \in Int
                 /\ t >= s.in_buffer => r.tensors[t].prefetch = Num(s) - 1
                 /\ t < s.in_buffer => r.tensors[t].prefetch = s.tensors[t].prefetch
      <3>1. t \in Nat /\ t < s.left_most BY <1>2, <1>3
      <3>2. t \in Placed(s) /\ t \in 0..(g.tensors - 1) BY <1>2, <3>1 DEF Placed
      <3>3. s.tensors[t].last < Num(s) BY <3>2 DEF AllClosed
      <3>4. r.tensors[t].last = s.tensors[t].last BY <1>8, <3>2
      <3>5. CASE t >= s.in_buffer
        <4>1. r.tensors[t].prefetch = Num(s) - 1 BY <1>2, <1>3, <3>1, <3>2, <3>5
        <4> QED BY <1>2, <1>5, <3>1, <3>2, <3>3, <3>4, <3>5, <4>1
      <3>6. CASE t < s.in_buffer
        <4>1. r.tensors[t].prefetch = s.tensors[t].prefetch BY <1>2, <1>3, <3>1, <3>2, <3>6
        <4>2. t \in 0..(s.in_buffer - 1) BY <1>2, <3>1, <3>6
        <4>3. s.tensors[t].last <= s.tensors[t].prefetch /\ s.tensors[t].prefetch < Num(s)
          BY <1>1, <4>2 DEF MarkInv
        <4> QED BY <1>2, <1>5, <3>1, <3>2, <3>4, <3>6, <4>1, <4>3
      <3> QED BY <1>2, <3>1, <3>5, <3>6
    <2>3. ASSUME NEW t \in 0..(r.in_buffer - 1), NEW u \in 0..(r.in_buffer - 1), t <= u
          PROVE  r.tensors[t].prefetch <= r.tensors[u].prefetch
      <3>1. t \in Nat /\ u \in Nat BY <1>2, <1>3
      <3>2. CASE u >= s.in_buffer
        <4>1. r.tensors[u].prefetch = Num(s) - 1 BY <2>2, <3>2
        <4>2. r.tensors[t].prefetch \in Int /\ r.tensors[t].prefetch < Num(s) BY <1>5, <2>2
        <4> QED BY <1>2, <4>1, <4>2
      <3>3. CASE u < s.in_buffer
        <4>1. t < s.in_buffer BY <1>2, <2>3, <3>1, <3>3
        <4>2. t \in 0..(s.in_buffer - 1) /\ u \in 0..(s.in_buffer - 1)
          BY <1>2, <3>1, <3>3, <4>1
        <4>3. s.tensors[t].prefetch <= s.tensors[u].prefetch
          BY <1>1, <2>3, <4>2 DEF MarkInv
        <4> QED BY <2>2, <3>3, <4>1, <4>3
      <3> QED BY <1>2, <3>1, <3>2, <3>3
    <2> QED BY <2>1, <2>2, <2>3 DEF MarkInv
  <1>11. LapInv(r, g)
    <2>1. Lap(r) = {} BY <1>2, <1>3 DEF Lap
    <2>2. \A t, u \in r.in_buffer..(r.left_most - 1) :
            t <= u => r.tensors[t].doff <= r.tensors[u].doff
      <3> TAKE t, u \in r.in_buffer..(r.left_most - 1)
      <3>1. t \in Lap(s) /\ u \in Lap(s) /\ t \in Placed(s) /\ u \in Placed(s)
        BY <1>2, <1>3 DEF Lap, Placed
      <3> QED BY <1>1, <1>8, <3>1 DEF LapInv
    <2>3. ASSUME NEW t \in Placed(r), NEW c \in Closed(r), NEW d \in Closed(r),
                 c < d, d <= Horizon(r, t), Carries(r.tensors[t], ChunkAt(r, c))
          PROVE  Apart(r.tensors[t], ChunkAt(r, c), ChunkAt(r, d), g)
      <3>1. t \in Placed(s) /\ t \in 0..(g.tensors - 1) /\ t \in Nat
        BY <1>2, <1>5
      <3>2. Horizon(r, t) = Horizon(s, t)
        <4>1. CASE t < s.in_buffer
          <5>1. r.tensors[t].prefetch = s.tensors[t].prefetch /\ t < r.in_buffer
            BY <1>2, <1>3, <3>1, <4>1
          <5> QED BY <4>1, <5>1 DEF Horizon
        <4>2. CASE s.in_buffer <= t /\ t < s.left_most
          <5>1. r.tensors[t].prefetch = Num(s) - 1 /\ t < r.in_buffer /\ ~ (t < s.in_buffer)
            BY <1>2, <1>3, <3>1, <4>2
          <5> QED BY <5>1 DEF Horizon
        <4>3. CASE s.left_most <= t
          <5>1. ~ (t < r.in_buffer) /\ ~ (t < s.in_buffer) BY <1>2, <1>3, <3>1, <4>3
          <5> QED BY <1>5, <5>1 DEF Horizon
        <4> QED BY <1>2, <3>1, <4>1, <4>2, <4>3
      <3>3. Carries(s.tensors[t], ChunkAt(s, c)) BY <1>5, <1>8, <2>3, <3>1
      <3>4. c \in Closed(s) /\ d \in Closed(s) BY <1>5
      <3>5. Apart(s.tensors[t], ChunkAt(s, c), ChunkAt(s, d), g)
        BY <1>1, <2>3, <3>1, <3>2, <3>3, <3>4 DEF LapInv
      <3> QED BY <1>5, <1>8, <3>1, <3>5
    <2> QED BY <2>1, <2>2, <2>3 DEF LapInv
  <1> QED BY <1>4, <1>5, <1>6, <1>7, <1>9, <1>10, <1>11 DEF StateInv

\* reset_chunk_file.
Moves(s, h, file, offset, g) ==
    /\ h \in Locals(g.tensors)
    /\ h.file = file /\ h.foff = RoundDown(offset, RankAlignment)
    /\ h.size = offset % RankAlignment
    /\ h.doff = FirstTensorSlot(RoundUp(s.doff, FirstTensorAlignment), h.size)
    /\ h.tensor_id = s.tensor_id /\ h.left_most = s.left_most
    /\ h.in_buffer = s.in_buffer /\ h.tensors = s.tensors
    /\ h.left = s.left /\ h.place = s.place /\ h.chunks = s.chunks /\ h.bad = FALSE

\* Locals before the first file has been reached: doff may be zero.
Early(n) == [file : Nat, foff : Nat, doff : Nat, size : Nat,
             tensor_id : Nat, in_buffer : Nat, left_most : Nat,
             left : Nat, place : Nat,
             chunks : Seq(ChunkType), tensors : [0..(n - 1) -> TensorType],
             bad : BOOLEAN]

\* reset_chunk_file is the relation Moves.
LEMMA ResetMoves ==
    ASSUME NEW s, NEW g, Sizes(g), s \in Early(g.tensors), s.bad = FALSE,
           s.size < RankAlignment, NEW file \in Nat, NEW offset \in Nat
    PROVE  /\ Moves(s, reset_chunk_file(s, file, offset), file, offset, g)
           /\ s.doff < reset_chunk_file(s, file, offset).doff
  <1> DEFINE p == offset % RankAlignment
             fo == RoundDown(offset, RankAlignment)
             d == FirstTensorSlot(RoundUp(s.doff, FirstTensorAlignment), p)
             h == [s EXCEPT !.file = file, !.foff = fo, !.size = p, !.doff = d,
                            !.bad = s.bad \/ s.size >= RankAlignment]
  <1>1. reset_chunk_file(s, file, offset) = h BY DEF reset_chunk_file
  <1>2. s.doff \in Nat /\ s.size \in Nat BY DEF Early
  <1>3. RankAlignment \in Nat \ {0} /\ FirstTensorAlignment \in Nat \ {0} BY SizesOrdered
  <1>4. (s.bad \/ s.size >= RankAlignment) = FALSE BY <1>2, <1>3
  <1>5. fo \in Nat /\ p \in Nat BY <1>3, RoundDownFacts
  <1>6. d \in Nat \ {0} /\ s.doff < d
    <2> DEFINE b == RoundUp(s.doff, FirstTensorAlignment)
    <2>1. b \in Nat /\ b % FirstTensorAlignment = 0 /\ s.doff <= b
      BY <1>2, <1>3, RoundUpFacts
    <2>2. d \in Nat /\ b < d BY <1>3, <1>5, <2>1, SlotFacts
    <2> HIDE DEF b, d
    <2> QED BY <1>2, <2>1, <2>2
  <1> HIDE DEF p, fo, d
  <1>7. h = [s EXCEPT !.file = file, !.foff = fo, !.size = p, !.doff = d, !.bad = FALSE]
    BY <1>4
  <1> HIDE DEF h
  <1>8. /\ h.file = file /\ h.foff = fo /\ h.size = p /\ h.doff = d /\ h.bad = FALSE
        /\ h.tensor_id = s.tensor_id /\ h.left_most = s.left_most
        /\ h.in_buffer = s.in_buffer /\ h.tensors = s.tensors
        /\ h.left = s.left /\ h.place = s.place /\ h.chunks = s.chunks
    BY <1>7 DEF Early
  <1>9. h \in Locals(g.tensors) BY <1>5, <1>6, <1>7 DEF Early, Locals
  <1> QED BY <1>1, <1>6, <1>8, <1>9 DEF Moves, p, fo, d

\* After reset_chunk_file the next tensor begins aligned.
LEMMA MoveFollows ==
    ASSUME NEW s, NEW h, NEW g, Sizes(g), s.doff \in Nat, NEW file \in Nat,
           NEW offset \in Nat, Moves(s, h, file, offset, g)
    PROVE  /\ h.file = file /\ h.foff + h.size = offset
           /\ h.size < RankAlignment /\ h.size \in Nat /\ (h.foff % RankAlignment) = 0
           /\ h.tensor_id = s.tensor_id
           /\ Follows(h, h.tensor_id, h.doff + h.size)
  <1>1. RankAlignment \in Nat \ {0} /\ FirstTensorAlignment \in Nat \ {0} BY SizesOrdered
  <1>2. h.foff = RoundDown(offset, RankAlignment) /\ h.size = offset % RankAlignment
        /\ h.doff = FirstTensorSlot(RoundUp(s.doff, FirstTensorAlignment), h.size)
        /\ h.file = file /\ h.tensor_id = s.tensor_id
    BY DEF Moves
  <1>3. h.foff + h.size = offset /\ h.size < RankAlignment /\ h.size \in Nat
        /\ (h.foff % RankAlignment) = 0
    <2> DEFINE d == RoundDown(offset, RankAlignment)
               r == offset % RankAlignment
    <2>1. d + r = offset /\ r < RankAlignment /\ r \in Nat /\ (d % RankAlignment) = 0
      BY <1>1, RoundDownFacts
    <2>2. h.foff = d /\ h.size = r BY <1>2
    <2> HIDE DEF d, r
    <2> QED BY <2>1, <2>2
  <1> DEFINE b == RoundUp(s.doff, FirstTensorAlignment)
             x == h.doff + h.size
  <1>4. b \in Nat /\ (b % FirstTensorAlignment) = 0 BY <1>1, RoundUpFacts
  <1> HIDE DEF b
  <1>5. (FirstTensorSlot(b, h.size) + h.size) % FirstTensorAlignment = 0
    BY <1>1, <1>3, <1>4, SlotFacts
  <1>6. x % FirstTensorAlignment = 0 BY <1>2, <1>5 DEF b
  <1> HIDE DEF x
  <1>7. Follows(h, h.tensor_id, x) BY <1>6 DEF Follows
  <1> QED BY <1>2, <1>3, <1>7 DEF x

\* reset_chunk_file after finish_chunk keeps the invariant.
LEMMA MovesKeeps ==
    ASSUME NEW s, NEW h, NEW g, Sizes(g), StateInv(s, g), AllClosed(s),
           \A t \in Lap(s) : s.tensors[t].doff <= s.doff,
           NEW file \in Nat, NEW offset \in Nat, s.file < file,
           Moves(s, h, file, offset, g), s.doff < h.doff
    PROVE  StateInv(h, g) /\ OpenInv(h)
  <1>1. /\ LocalsInv(s, g) /\ FileInv(s) /\ CarryInv(s) /\ MarkInv(s) /\ LapInv(s, g)
        /\ ByteInv(s) /\ RoomInv(s, g) /\ AlignInv(s)
    BY DEF StateInv
  <1>2. /\ s.file \in Nat /\ s.doff \in Nat /\ Num(s) \in Nat
        /\ s.tensor_id \in Nat /\ s.tensor_id <= g.tensors /\ g.tensors \in Nat
        /\ Placed(s) \subseteq 0..(g.tensors - 1) /\ Lap(s) \subseteq Placed(s)
        /\ \A t \in 0..(g.tensors - 1) :
              /\ s.tensors[t].last \in Nat /\ s.tensors[t].doff \in Nat
              /\ s.tensors[t].file \in Nat
        /\ \A c \in Closed(s) : /\ ChunkAt(s, c).doff \in Nat /\ ChunkAt(s, c).size \in Nat
                                /\ ChunkAt(s, c).file \in Nat
    BY <1>1, SizesOrdered, Types
  <1>3. /\ h \in Locals(g.tensors) /\ h.file = file
        /\ h.foff = RoundDown(offset, RankAlignment) /\ h.size = offset % RankAlignment
        /\ h.tensor_id = s.tensor_id /\ h.left_most = s.left_most
        /\ h.in_buffer = s.in_buffer /\ h.tensors = s.tensors
        /\ h.chunks = s.chunks /\ h.bad = FALSE
    BY DEF Moves
  <1>4. SameTensors(s, h, g) BY <1>3 DEF SameTensors, Same
  <1>5. /\ Num(h) = Num(s) /\ Closed(h) = Closed(s) /\ Placed(h) = Placed(s)
        /\ \A c : ChunkAt(h, c) = ChunkAt(s, c)
        /\ CarryInv(h) /\ ByteInv(h) /\ RoomInv(h, g) /\ AlignInv(h) /\ AllClosed(h)
    BY <1>1, <1>3, <1>4, SameChunks
  <1>6. Lap(h) = Lap(s) BY <1>3 DEF Lap
  <1>7. LocalsInv(h, g)
    <2>1. /\ s.in_buffer <= s.left_most /\ s.left_most <= s.tensor_id
          /\ s.tensor_id <= g.tensors
          /\ \A c \in Closed(s) :
                ChunkAt(s, c).foff % RankAlignment = 0 /\ ChunkAt(s, c).size <= g.chunk
      BY <1>1 DEF LocalsInv
    <2>2. /\ h.foff % RankAlignment = 0 /\ h.size \in Nat /\ h.size < RankAlignment
      BY <1>2, MoveFollows
    <2>3. h.size <= g.chunk BY <2>2, SizesOrdered
    <2> QED BY <1>3, <1>5, <2>1, <2>2, <2>3 DEF LocalsInv
  <1>8. \A t \in Placed(s) : s.tensors[t].file < h.file
    <2> TAKE t \in Placed(s)
    <2>1. s.tensors[t].file <= s.file BY <1>1 DEF FileInv
    <2>2. s.tensors[t].file \in Nat BY <1>2
    <2> QED BY <1>2, <1>3, <2>1, <2>2
  <1>9. \A c \in Closed(s) : ChunkAt(s, c).file < h.file
    <2> TAKE c \in Closed(s)
    <2>1. ChunkAt(s, c).file <= s.file BY <1>1 DEF FileInv
    <2> QED BY <1>2, <1>3, <2>1
  <1>10. FileInv(h)
    <2>1. \A t \in Placed(h) : h.tensors[t].file <= h.file /\ h.tensors[t].file # h.file
      <3> TAKE t \in Placed(h)
      <3>1. s.tensors[t].file \in Nat /\ s.tensors[t].file < h.file BY <1>2, <1>5, <1>8
      <3> QED BY <1>3, <3>1
    <2>2. \A c \in Closed(h) : ChunkAt(h, c).file <= h.file /\ ChunkAt(h, c).file # h.file
      <3> TAKE c \in Closed(h)
      <3>1. ChunkAt(s, c).file \in Nat /\ ChunkAt(s, c).file < h.file BY <1>2, <1>5, <1>9
      <3> QED BY <1>3, <1>5, <3>1
    <2> QED BY <2>1, <2>2 DEF FileInv
  <1>11. OpenInv(h)
    <2>1. \A t \in Placed(h) : h.tensors[t].file # h.file
      <3> TAKE t \in Placed(h)
      <3>1. s.tensors[t].file \in Nat /\ s.tensors[t].file < h.file BY <1>2, <1>5, <1>8
      <3> QED BY <1>3, <3>1
    <2> QED BY <2>1 DEF OpenInv
  <1>12. MarkInv(h)
    <2>1. \A t \in Placed(h) : h.tensors[t].last <= Num(h) /\ h.tensors[t].last # Num(h)
      <3> TAKE t \in Placed(h)
      <3>1. s.tensors[t].last \in Nat /\ s.tensors[t].last < Num(s)
        BY <1>2, <1>5 DEF AllClosed
      <3> QED BY <1>2, <1>3, <1>5, <3>1
    <2>2. \A t \in 0..(h.in_buffer - 1) :
             h.tensors[t].last <= h.tensors[t].prefetch /\ h.tensors[t].prefetch < Num(h)
      BY <1>1, <1>3, <1>5 DEF MarkInv
    <2>3. \A t, u \in 0..(h.in_buffer - 1) :
             t <= u => h.tensors[t].prefetch <= h.tensors[u].prefetch
      BY <1>1, <1>3 DEF MarkInv
    <2> QED BY <2>1, <2>2, <2>3 DEF MarkInv
  <1>13. LapInv(h, g)
    <2>1. h.doff \in Nat /\ h.size \in Nat BY <1>3 DEF Locals
    <2>2. \A t \in Lap(h) : h.tensors[t].doff <= h.doff + h.size
      <3> TAKE t \in Lap(h)
      <3>1. s.tensors[t].doff <= s.doff /\ s.tensors[t].doff \in Nat BY <1>2, <1>6
      <3> QED BY <1>2, <1>3, <2>1, <3>1
    <2>3. ASSUME NEW t \in Lap(h), NEW c \in Closed(h), Carries(h.tensors[t], ChunkAt(h, c))
          PROVE  ChunkAt(h, c).doff + ChunkAt(h, c).size <= h.doff
      <3>1. ChunkAt(s, c).doff + ChunkAt(s, c).size <= s.doff
        BY <1>1, <1>3, <1>5, <1>6, <2>3 DEF LapInv
      <3>2. ChunkAt(s, c).doff \in Nat /\ ChunkAt(s, c).size \in Nat BY <1>2, <1>5
      <3> QED BY <1>2, <1>5, <2>1, <3>1, <3>2
    <2>4. \A t : Horizon(h, t) = Horizon(s, t) BY <1>3, <1>5 DEF Horizon
    <2>5. \A t \in Placed(h), c, d \in Closed(h) :
            c < d /\ d <= Horizon(h, t) /\ Carries(h.tensors[t], ChunkAt(h, c)) =>
                Apart(h.tensors[t], ChunkAt(h, c), ChunkAt(h, d), g)
      BY <1>1, <1>3, <1>5, <2>4 DEF LapInv
    <2>6. /\ \A t, u \in h.in_buffer..(h.left_most - 1) :
                t <= u => h.tensors[t].doff <= h.tensors[u].doff
          /\ \A t, u \in Lap(h) : t <= u => h.tensors[t].doff <= h.tensors[u].doff
      BY <1>1, <1>3, <1>6 DEF LapInv
    <2> QED BY <2>2, <2>3, <2>5, <2>6 DEF LapInv
  <1> QED BY <1>5, <1>7, <1>10, <1>11, <1>12, <1>13 DEF StateInv

-----------------------------------------------------------------------------
(* The steps of the loop keep the invariant.                                 *)

\* The open chunk gets more bytes, nothing else changes but left and place.
Grows(s, e, g) ==
    /\ e \in Locals(g.tensors)
    /\ e.file = s.file /\ e.foff = s.foff /\ e.doff = s.doff
    /\ e.tensor_id = s.tensor_id /\ e.left_most = s.left_most
    /\ e.in_buffer = s.in_buffer /\ e.tensors = s.tensors /\ e.chunks = s.chunks
    /\ e.bad = FALSE
    /\ s.size <= e.size /\ e.size <= g.chunk

\* Adding bytes to the open chunk, inside the buffer, keeps the invariant.
LEMMA GrowsKeeps ==
    ASSUME NEW s, NEW e, NEW g, Sizes(g), StateInv(s, g), OpenInv(s), Grows(s, e, g),
           e.size = s.size \/ Top(Current(e), g) <= g.room
    PROVE  StateInv(e, g) /\ OpenInv(e)
  <1>1. /\ LocalsInv(s, g) /\ FileInv(s) /\ CarryInv(s) /\ MarkInv(s) /\ LapInv(s, g)
        /\ ByteInv(s) /\ RoomInv(s, g) /\ AlignInv(s)
    BY DEF StateInv
  <1>2. /\ s.file \in Nat /\ s.foff \in Nat /\ s.doff \in Nat /\ s.size \in Nat
        /\ Num(s) \in Nat
        /\ s.tensor_id \in Nat /\ s.tensor_id <= g.tensors /\ g.tensors \in Nat
        /\ Placed(s) \subseteq 0..(g.tensors - 1) /\ Lap(s) \subseteq Placed(s)
        /\ \A t \in 0..(g.tensors - 1) :
              /\ s.tensors[t].last \in Nat /\ s.tensors[t].doff \in Nat
              /\ s.tensors[t].foff \in Nat /\ s.tensors[t].size \in Nat
        /\ \A c \in Closed(s) : ChunkAt(s, c).foff \in Nat /\ ChunkAt(s, c).size \in Nat
    BY <1>1, SizesOrdered, Types
  <1>3. /\ e.file = s.file /\ e.foff = s.foff /\ e.doff = s.doff
        /\ e.tensor_id = s.tensor_id /\ e.left_most = s.left_most
        /\ e.in_buffer = s.in_buffer /\ e.tensors = s.tensors /\ e.chunks = s.chunks
        /\ e.bad = FALSE /\ s.size <= e.size /\ e.size <= g.chunk
        /\ e \in Locals(g.tensors) /\ e.size \in Nat
    BY DEF Grows, Locals
  <1>4. /\ Num(e) = Num(s) /\ Closed(e) = Closed(s) /\ Placed(e) = Placed(s)
        /\ Lap(e) = Lap(s)
        /\ \A c : ChunkAt(e, c) = ChunkAt(s, c)
    BY <1>3 DEF Num, Closed, Placed, Lap, ChunkAt
  <1>5. LocalsInv(e, g) BY <1>1, <1>3, <1>4 DEF LocalsInv
  <1>6. \A x \in Int : x <= s.foff + s.size => x <= e.foff + e.size BY <1>2, <1>3
  <1>7. FileInv(e)
    <2>1. \A c \in Closed(s) : End(ChunkAt(s, c)) \in Int BY <1>2 DEF End
    <2>2. \A t \in Placed(s) : End(s.tensors[t]) \in Int BY <1>2 DEF End
    <2> QED BY <1>1, <1>3, <1>4, <1>6, <2>1, <2>2 DEF FileInv
  <1>8. CarryInv(e) BY <1>1, <1>3, <1>4 DEF CarryInv
  <1>9. OpenInv(e) BY <1>3, <1>4 DEF OpenInv
  <1>10. MarkInv(e)
    <2>1. s.size > 0 => e.size > 0 BY <1>2, <1>3
    <2> QED BY <1>1, <1>3, <1>4, <2>1 DEF MarkInv
  <1>11. LapInv(e, g)
    <2>1. \A t : Horizon(e, t) = Horizon(s, t) BY <1>3, <1>4 DEF Horizon
    <2>2. \A t \in Lap(e) : e.tensors[t].doff <= e.doff + e.size
      <3> TAKE t \in Lap(e)
      <3>1. s.tensors[t].doff \in Nat /\ s.tensors[t].doff <= s.doff + s.size
        BY <1>1, <1>2, <1>4 DEF LapInv
      <3> QED BY <1>2, <1>3, <3>1
    <2>3. \A t \in Placed(e), c, d \in Closed(e) :
            c < d /\ d <= Horizon(e, t) /\ Carries(e.tensors[t], ChunkAt(e, c)) =>
                Apart(e.tensors[t], ChunkAt(e, c), ChunkAt(e, d), g)
      BY <1>1, <1>3, <1>4, <2>1 DEF LapInv
    <2>4. /\ \A t, u \in e.in_buffer..(e.left_most - 1) :
                t <= u => e.tensors[t].doff <= e.tensors[u].doff
          /\ \A t, u \in Lap(e) : t <= u => e.tensors[t].doff <= e.tensors[u].doff
      BY <1>1, <1>3, <1>4 DEF LapInv
    <2>5. \A t \in Lap(e), c \in Closed(e) :
            Carries(e.tensors[t], ChunkAt(e, c)) =>
                ChunkAt(e, c).doff + ChunkAt(e, c).size <= e.doff
      BY <1>1, <1>3, <1>4 DEF LapInv
    <2> QED BY <2>2, <2>3, <2>4, <2>5 DEF LapInv
  <1>12. ByteInv(e)
    <2>1. ASSUME NEW t \in Placed(s), NEW b \in Int, NEW c \in 0..Num(s),
                 HasByte(s.tensors[t], b, AnyChunk(s, c))
          PROVE  HasByte(e.tensors[t], b, AnyChunk(e, c))
      <3>1. CASE c < Num(s) BY <1>3, <1>4, <2>1, <3>1 DEF AnyChunk
      <3>2. CASE ~ (c < Num(s))
        <4>1. AnyChunk(s, c) = Current(s) /\ AnyChunk(e, c) = Current(e)
          BY <1>4, <3>2 DEF AnyChunk
        <4>2. s.tensors[t].foff \in Nat BY <1>2
        <4>3. /\ Current(e).file = Current(s).file /\ Current(e).foff = Current(s).foff
              /\ Shift(Current(e)) = Shift(Current(s))
          BY <1>3 DEF Current, Shift
        <4>4. End(Current(s)) = s.foff + s.size /\ End(Current(e)) = e.foff + e.size
          BY DEF Current, End
        <4>5. s.tensors[t].foff + b < End(Current(s)) => s.tensors[t].foff + b < End(Current(e))
          BY <1>2, <1>3, <4>2, <4>4
        <4> QED BY <1>3, <2>1, <4>1, <4>3, <4>5 DEF HasByte
      <3> QED BY <3>1, <3>2
    <2> SUFFICES ASSUME NEW t \in Placed(s)
                 PROVE  /\ \A b \in 0..(s.tensors[t].size - 1) :
                              \E c \in 0..s.tensors[t].last :
                                 HasByte(e.tensors[t], b, AnyChunk(e, c))
                        /\ s.tensors[t].size > 0 =>
                              HasByte(e.tensors[t], s.tensors[t].size - 1,
                                      AnyChunk(e, s.tensors[t].last))
      BY <1>3, <1>4 DEF ByteInv
    <2>2. s.tensors[t].last \in Nat /\ s.tensors[t].size \in Nat /\ s.tensors[t].last <= Num(s)
      BY <1>1, <1>2 DEF MarkInv
    <2>3. ASSUME NEW b \in 0..(s.tensors[t].size - 1)
          PROVE  \E c \in 0..s.tensors[t].last : HasByte(e.tensors[t], b, AnyChunk(e, c))
      <3>1. PICK c \in 0..s.tensors[t].last : HasByte(s.tensors[t], b, AnyChunk(s, c))
        BY <1>1 DEF ByteInv
      <3>2. c \in 0..Num(s) /\ b \in Int BY <1>2, <2>2
      <3> QED BY <2>1, <3>1, <3>2
    <2>4. ASSUME s.tensors[t].size > 0
          PROVE  HasByte(e.tensors[t], s.tensors[t].size - 1, AnyChunk(e, s.tensors[t].last))
      <3>1. HasByte(s.tensors[t], s.tensors[t].size - 1, AnyChunk(s, s.tensors[t].last))
        BY <1>1, <2>4 DEF ByteInv
      <3>2. s.tensors[t].last \in 0..Num(s) /\ s.tensors[t].size - 1 \in Int BY <1>2, <2>2
      <3> QED BY <2>1, <3>1, <3>2
    <2> QED BY <2>3, <2>4
  <1>13. RoomInv(e, g)
    <2>1. ASSUME NEW t \in Placed(e), e.tensors[t].last = Num(e)
          PROVE  Top(Current(e), g) <= g.room
      <3>1. Top(Current(s), g) <= g.room BY <1>1, <1>3, <1>4, <2>1 DEF RoomInv
      <3>2. e.size = s.size => Current(e) = Current(s) BY <1>3 DEF Current
      <3> QED BY <3>1, <3>2
    <2>2. \A t \in Placed(e), c \in Closed(e) :
            Carries(e.tensors[t], ChunkAt(e, c)) => Top(ChunkAt(e, c), g) <= g.room
      BY <1>1, <1>3, <1>4 DEF RoomInv
    <2> QED BY <2>1, <2>2 DEF RoomInv
  <1>14. AlignInv(e) BY <1>1, <1>3, <1>4 DEF AlignInv, Follows
  <1> QED BY <1>5, <1>7, <1>8, <1>9, <1>10, <1>11, <1>12, <1>13, <1>14 DEF StateInv

\* When the next tensor does not fit, what is read again goes to another place.
LEMMA WrapKeeps ==
    ASSUME NEW s, NEW g, g = Geometry, Sizes(g), NEW z \in Nat,
           g.room >= z + 3 * (FirstTensorAlignment + RankAlignment + g.align),
           StateInv(s, g), NEW k, NEW o, TensorInv(s, k, o), NEW x \in 0..z,
           s.doff + RoundUp(s.size + x, g.align) > g.room,
           NEW r, r = reset_chunk_buffer_offset(finish_chunk(s), s.tensor_id)
    PROVE  /\ StateInv(r, g) /\ TensorInv(r, k, o)
           /\ r.doff + RoundUp(r.size + x, g.align) <= g.room
  <1> DEFINE f == finish_chunk(s)
             F == FirstTensorAlignment
             R == RankAlignment
             A == g.align
  <1>1. LocalsInv(s, g) /\ OpenInv(s) BY DEF StateInv, TensorInv
  <1>2. /\ StateInv(f, g) /\ AllClosed(f) /\ SameTensors(s, f, g)
        /\ f.size < R /\ f.foff + f.size = s.foff + s.size
        /\ f.foff = s.foff + RoundDown(s.size, R)
        /\ f.file = s.file /\ f.tensor_id = s.tensor_id
    BY <1>1, FinishKeeps
  <1>3. LocalsInv(f, g) BY <1>2 DEF StateInv
  <1>4. Laps(f, r, g) BY <1>2, <1>3, ResetLaps
  <1> HIDE DEF f
  <1>5. /\ StateInv(r, g) /\ AllClosed(r) /\ SameTensors(f, r, g)
        /\ r.doff <= F /\ (r.doff + r.size) % F = 0
    BY <1>2, <1>4, LapsKeeps
  <1>6. /\ r.file = s.file /\ r.foff = f.foff /\ r.size = f.size
        /\ r.tensor_id = s.tensor_id /\ r.left_most = s.tensor_id
    BY <1>2, <1>4 DEF Laps
  <1>7. /\ s.foff \in Nat /\ s.doff \in Nat \ {0} /\ s.size \in Nat /\ s.file \in Nat
        /\ Placed(s) \subseteq 0..(g.tensors - 1)
        /\ \A t \in 0..(g.tensors - 1) :
             s.tensors[t].foff \in Nat /\ s.tensors[t].size \in Nat /\ s.tensors[t].doff \in Nat
    BY <1>1, SizesOrdered, Types
  <1>8. LocalsInv(r, g) BY <1>5 DEF StateInv
  <1>9. r.foff \in Nat /\ r.doff \in Nat \ {0} /\ r.size \in Nat BY <1>8, SizesOrdered, Types
  <1>10. F \in Nat \ {0} /\ R \in Nat \ {0} /\ A \in Nat \ {0} /\ g.room \in Nat
         /\ F <= R /\ R <= A
    BY SizesOrdered
  <1>11. s.size + x \in Nat /\ r.size + x \in Nat BY <1>7, <1>9
  <1>12. RoundUp(s.size + x, A) \in Nat /\ RoundUp(s.size + x, A) < s.size + x + A
    BY <1>10, <1>11, RoundUpFacts
  <1>13. RoundUp(r.size + x, A) \in Nat /\ RoundUp(r.size + x, A) < r.size + x + A
    BY <1>10, <1>11, RoundUpFacts
  <1>14. /\ RoundDown(s.size, R) \in Nat
         /\ s.size >= R => RoundDown(s.size, R) >= R
    BY <1>7, <1>10, RoundDownFacts
  <1> DEFINE d == RoundDown(s.size, R)
  <1>15. r.foff = s.foff + d /\ d \in Nat /\ (s.size >= R => d >= R) BY <1>2, <1>6, <1>14
  <1>16. s.doff + RoundUp(s.size + x, A) > g.room
         /\ g.room >= z + 3 * (F + R + A) /\ x <= z
    OBVIOUS
  <1> HIDE DEF F, R, A, d
  <1>17. s.doff + s.size > 3 * F + 3 * R + 2 * A
    BY <1>7, <1>10, <1>12, <1>16
  <1>18. r.doff + RoundUp(r.size + x, A) <= g.room
    BY <1>2, <1>5, <1>6, <1>9, <1>10, <1>13, <1>16
  <1>19. r.doff - r.foff # s.doff - s.foff
    <2>1. r.doff - d < s.doff
      <3>1. CASE s.size >= R BY <1>5, <1>7, <1>9, <1>10, <1>15, <3>1
      <3>2. CASE s.size < R BY <1>5, <1>7, <1>9, <1>10, <1>15, <1>17, <3>2
      <3> QED BY <1>7, <1>10, <3>1, <3>2
    <2> QED BY <1>7, <1>9, <1>15, <2>1
  <1>20. OpenInv(r)
    <2>1. Placed(r) = Placed(s) BY <1>6 DEF Placed
    <2> SUFFICES ASSUME NEW t \in Placed(s), r.tensors[t].file = r.file,
                        End(r.tensors[t]) > r.foff
                 PROVE  /\ Shift(r.tensors[t]) # r.doff - r.foff
                        /\ r.doff <= FirstTensorAlignment
                        /\ End(r.tensors[t]) < r.foff + RankAlignment
      BY <2>1 DEF OpenInv
    <2>2. t \in 0..(g.tensors - 1) BY <1>7
    <2>3. /\ f.tensors[t].file = s.tensors[t].file /\ End(f.tensors[t]) = End(s.tensors[t])
          /\ Shift(f.tensors[t]) = Shift(s.tensors[t])
      BY <1>2, <2>2, TensorsAgree
    <2>4. /\ r.tensors[t].file = f.tensors[t].file /\ End(r.tensors[t]) = End(f.tensors[t])
          /\ Shift(r.tensors[t]) = Shift(f.tensors[t])
      BY <1>5, <2>2, TensorsAgree
    <2>5. s.tensors[t].file = s.file /\ End(s.tensors[t]) > r.foff /\ End(s.tensors[t]) \in Nat
      BY <1>6, <1>7, <2>2, <2>3, <2>4 DEF End
    <2>6. End(s.tensors[t]) > s.foff BY <1>7, <1>15, <2>5
    <2>7. FileInv(r) BY <1>5 DEF StateInv
    <2>8. End(r.tensors[t]) <= r.foff + r.size BY <2>1, <2>7 DEF FileInv
    <2>9. End(r.tensors[t]) < r.foff + R
      BY <1>2, <1>6, <1>9, <1>10, <2>3, <2>4, <2>5, <2>8
    <2>10. \/ Shift(s.tensors[t]) = s.doff - s.foff
           \/ s.doff <= F /\ End(s.tensors[t]) < s.foff + R
      BY <1>1, <2>5, <2>6 DEF OpenInv, F, R
    <2>11. ~ (s.doff <= F /\ End(s.tensors[t]) < s.foff + R)
      <3> SUFFICES ASSUME s.doff <= F, End(s.tensors[t]) < s.foff + R PROVE FALSE OBVIOUS
      <3>1. s.size >= R BY <1>7, <1>10, <1>17
      <3>2. r.foff >= s.foff + R BY <1>7, <1>10, <1>15, <3>1
      <3> QED BY <1>7, <1>9, <1>10, <2>5, <3>2
    <2> QED BY <1>5, <1>19, <2>3, <2>4, <2>9, <2>10, <2>11 DEF F, R
  <1>21. /\ r.file = o[k][1] /\ r.foff + r.size = o[k][2]
         /\ r.tensor_id = k - 1 - o[k][1]
    BY <1>2, <1>6 DEF TensorInv
  <1>22. Follows(r, r.tensor_id, r.doff + r.size) BY <1>5 DEF Follows, F
  <1> QED BY <1>5, <1>18, <1>20, <1>21, <1>22 DEF TensorInv, A

\* Offsets are pairs of naturals.
LEMMA OffsetFacts ==
    ASSUME NEW o, NEW z, OffsetsAssumption(o, z), NEW k \in 1..Len(o)
    PROVE  Len(o) \in Nat \ {0} /\ o[k][1] \in Nat /\ o[k][2] \in Nat
  <1>1. o \in Seq(Nat \X Nat) /\ Len(o) > 0 BY DEF OffsetsAssumption
  <1>2. Len(o) \in Nat BY <1>1, LenProperties
  <1>3. o[k] \in Nat \X Nat BY <1>1, ElementOfSeq
  <1> QED BY <1>1, <1>2, <1>3

\* The size of the tensor between two offsets of a file.
LEMMA TensorFacts ==
    ASSUME NEW o, NEW z, OffsetsAssumption(o, z), NEW k \in 1..(Len(o) - 1),
           o[k][1] = o[k + 1][1], Len(o) \in Nat
    PROVE  /\ o[k + 1][2] - o[k][2] \in 0..z
           /\ o[k + 1][2] - o[k][2] = 0 => o[k][2] % RankAlignment # 0
  <1>1. \/ o[k + 1][1] = o[k][1] + 1
        \/ /\ o[k + 1][2] - o[k][2] \in 0..z
           /\ o[k + 1][2] = o[k][2] => o[k][2] % RankAlignment # 0
    BY DEF OffsetsAssumption
  <1>2. k \in 1..Len(o) /\ k + 1 \in 1..Len(o) OBVIOUS
  <1>3. o[k][1] \in Nat /\ o[k][2] \in Nat /\ o[k + 1][2] \in Nat BY <1>2, OffsetFacts
  <1> DEFINE a == o[k][2]
             b == o[k + 1][2]
             u == o[k][1]
             v == o[k + 1][1]
  <1>4. u = v /\ u \in Nat /\ (v = u + 1 \/ (b - a \in 0..z /\ (b = a => a % RankAlignment # 0)))
    BY <1>1, <1>3
  <1>5. a \in Nat /\ b \in Nat BY <1>3
  <1> HIDE DEF a, b, u, v
  <1>6. b - a \in 0..z /\ (b = a => a % RankAlignment # 0) BY <1>4
  <1>7. b - a = 0 => b = a BY <1>5
  <1> QED BY <1>6, <1>7 DEF a, b

\* PlaceTensor, with the tensor's size x and its place.
Starts(s, n, x, g) ==
    /\ n \in Locals(g.tensors)
    /\ n.file = s.file /\ n.foff = s.foff /\ n.doff = s.doff /\ n.size = s.size
    /\ n.tensor_id = s.tensor_id /\ n.left_most = s.left_most
    /\ n.in_buffer = s.in_buffer /\ n.tensors = s.tensors /\ n.chunks = s.chunks
    /\ n.bad = FALSE /\ n.left = x /\ n.place = s.doff + s.size

\* PlaceTensor without a wrap is the relation Starts.
LEMMA PlaceStarts ==
    ASSUME NEW s, NEW g, Sizes(g), LocalsInv(s, g), NEW x \in Nat, NEW a \in Nat,
           s.foff + s.size = a, NEW b, b = FALSE,
           NEW n, n = [s EXCEPT !.left = x, !.place = a - s.foff + s.doff, !.bad = b]
    PROVE  Starts(s, n, x, g)
  <1>1. s.foff \in Nat /\ s.doff \in Nat \ {0} /\ s.size \in Nat BY SizesOrdered, Types
  <1> DEFINE p == s.doff + s.size
  <1>2. p = a - s.foff + s.doff /\ p \in Nat BY <1>1
  <1>3. n = [s EXCEPT !.left = x, !.place = p, !.bad = FALSE] BY <1>2
  <1>4. s \in Locals(g.tensors) BY DEF LocalsInv
  <1> HIDE DEF p
  <1>5. ASSUME NEW q, q = [s EXCEPT !.left = x, !.place = p, !.bad = FALSE]
        PROVE  /\ q \in Locals(g.tensors)
               /\ q.file = s.file /\ q.foff = s.foff /\ q.doff = s.doff /\ q.size = s.size
               /\ q.tensor_id = s.tensor_id /\ q.left_most = s.left_most
               /\ q.in_buffer = s.in_buffer /\ q.tensors = s.tensors /\ q.chunks = s.chunks
               /\ q.bad = FALSE /\ q.left = x /\ q.place = p
    BY <1>2, <1>4, <1>5 DEF Locals
  <1> QED BY <1>3, <1>5 DEF Starts, p

\* A tensor is about to be cut into chunks.
LEMMA StartKeeps ==
    ASSUME NEW s, NEW g, Sizes(g), NEW z \in Nat, NEW o, OffsetsAssumption(o, z),
           g.tensors = Len(o) - (o[Len(o)][1] + 1),
           NEW k \in 1..(Len(o) - 1), o[k][1] = o[k + 1][1],
           StateInv(s, g), TensorInv(s, k, o),
           NEW n, Starts(s, n, o[k + 1][2] - o[k][2], g),
           s.doff + RoundUp(s.size + n.left, g.align) <= g.room
    PROVE  StateInv(n, g) /\ SplitInv(n, k, o, g)
  <1> DEFINE a == o[k][2]
             b == o[k + 1][2]
             j == o[k][1]
             q == o[Len(o)][1]
             N == Len(o)
             x == n.left
  <1>1. /\ LocalsInv(s, g) /\ FileInv(s) /\ LapInv(s, g) BY DEF StateInv
  <1>2. /\ s.foff \in Nat /\ s.doff \in Nat \ {0} /\ s.size \in Nat
        /\ s.tensor_id \in Nat /\ Num(s) \in Nat
        /\ Placed(s) \subseteq 0..(g.tensors - 1) /\ Lap(s) \subseteq Placed(s)
        /\ \A c \in Closed(s) : ChunkAt(s, c).foff \in Nat /\ ChunkAt(s, c).size \in Nat
    BY <1>1, SizesOrdered, Types
  <1>3. /\ OpenInv(s) /\ s.file = j /\ s.foff + s.size = a
        /\ s.tensor_id = k - 1 - j
        /\ Follows(s, s.tensor_id, s.doff + s.size)
    BY DEF TensorInv
  <1>4. N \in Nat
    <2>1. o \in Seq(Nat \X Nat) BY DEF OffsetsAssumption
    <2> QED BY <2>1, LenProperties
  <1>4a. k \in Nat /\ k < N /\ k \in 1..N /\ k + 1 \in 1..N /\ N \in 1..N BY <1>4
  <1>5. j \in Nat /\ a \in Nat /\ b \in Nat /\ q \in Nat
    BY <1>4a, OffsetFacts
  <1>6. x \in 0..z /\ (x = 0 => a % RankAlignment # 0) /\ x = b - a
    <2>1. x = b - a BY DEF Starts
    <2>2. b - a \in 0..z /\ (b - a = 0 => a % RankAlignment # 0) BY <1>4, TensorFacts
    <2> HIDE DEF x, a, b
    <2> QED BY <2>1, <2>2
  <1>6a. q - j <= N - (k + 1) /\ g.tensors = N - (q + 1)
    <2>1. o[Len(o)][1] - o[k + 1][1] <= Len(o) - (k + 1)
      BY <1>4a, SizesOrdered, FileSlope
    <2> QED BY <2>1
  <1> HIDE DEF a, b, j, q, N, x
  <1>7. x \in Nat /\ s.doff + s.size \in Nat BY <1>2, <1>6
  <1>8. s \in Locals(g.tensors) /\ s.size <= g.chunk BY <1>1 DEF LocalsInv
  <1>10. /\ n \in Locals(g.tensors)
         /\ n.file = s.file /\ n.foff = s.foff /\ n.doff = s.doff /\ n.size = s.size
         /\ n.tensor_id = s.tensor_id /\ n.left_most = s.left_most
         /\ n.in_buffer = s.in_buffer /\ n.tensors = s.tensors /\ n.chunks = s.chunks
         /\ n.bad = FALSE /\ n.left = x /\ n.place = s.doff + s.size
    BY DEF Starts, x
  <1>11. Grows(s, n, g)
    <2>1. s.size <= n.size BY <1>2, <1>10
    <2> QED BY <1>8, <1>10, <2>1 DEF Grows
  <1>12. StateInv(n, g) /\ OpenInv(n) BY <1>3, <1>10, <1>11, GrowsKeeps
  <1>13. /\ Num(n) = Num(s) /\ Closed(n) = Closed(s) /\ Placed(n) = Placed(s)
         /\ Lap(n) = Lap(s)
         /\ \A c : ChunkAt(n, c) = ChunkAt(s, c)
    BY <1>10 DEF Num, Closed, Placed, Lap, ChunkAt
  <1>14. n.tensor_id < g.tensors
    BY <1>3, <1>4, <1>4a, <1>5, <1>10, <1>6a
  <1>15. n.size + n.left > 0
    <2>1. CASE x > 0 BY <1>2, <1>7, <1>10, <2>1
    <2>2. CASE x = 0
      <3>1. s.foff % RankAlignment = 0 BY <1>1 DEF LocalsInv
      <3>2. s.size # 0
        <4> SUFFICES ASSUME s.size = 0 PROVE FALSE OBVIOUS
        <4>1. s.foff = a BY <1>2, <1>3
        <4> QED BY <1>6, <2>2, <3>1, <4>1
      <3> QED BY <1>2, <1>7, <1>10, <3>2
    <2> QED BY <1>7, <2>1, <2>2
  <1>16. ASSUME NEW c \in Closed(n), Holds(n, a, ChunkAt(n, c)) PROVE FALSE
    <2>1. ChunkAt(s, c).file = s.file /\ End(ChunkAt(s, c)) > s.foff + s.size
      BY <1>3, <1>10, <1>13, <1>16 DEF Holds
    <2>2. End(ChunkAt(s, c)) <= s.foff + s.size BY <1>1, <1>13, <2>1 DEF FileInv
    <2>3. End(ChunkAt(s, c)) \in Nat BY <1>2, <1>13 DEF End
    <2> DEFINE y == End(ChunkAt(s, c))
    <2>4. y \in Nat /\ y > s.foff + s.size /\ y <= s.foff + s.size BY <2>1, <2>2, <2>3
    <2> HIDE DEF y
    <2> QED BY <1>2, <2>4
  <1>17. a..(n.foff + n.size - 1) = {} BY <1>2, <1>3, <1>5, <1>10
  <1>18. \A t \in Lap(n) : n.tensors[t].doff <= n.place BY <1>1, <1>10, <1>13 DEF LapInv
  <1>19. Follows(n, n.tensor_id, n.place) BY <1>3, <1>10 DEF Follows
  <1>20. k < N /\ n.foff + n.size + n.left = b /\ a <= n.foff + n.size
         /\ n.place - a = n.doff - n.foff
    <2>1. n.foff + n.size + n.left = b BY <1>2, <1>3, <1>5, <1>6, <1>10
    <2>2. a <= n.foff + n.size /\ n.place - a = n.doff - n.foff
      BY <1>2, <1>3, <1>5, <1>10, SMTT(40)
    <2> QED BY <1>4a, <2>1, <2>2
  <1>21. n.doff + RoundUp(n.size + n.left, g.align) <= g.room BY <1>10
  <1>22. n.file = j /\ n.tensor_id = k - 1 - j BY <1>3, <1>10
  <1> QED BY <1>12, <1>14, <1>15, <1>16, <1>17, <1>18, <1>19, <1>20, <1>21, <1>22
          DEF SplitInv, a, b, j, N

\* SplitTensor: the chunk is filled and closed.
Fills(s, e, g) ==
    /\ e \in Locals(g.tensors)
    /\ e.file = s.file /\ e.foff = s.foff /\ e.doff = s.doff /\ e.size = g.chunk
    /\ e.tensor_id = s.tensor_id /\ e.left_most = s.left_most
    /\ e.in_buffer = s.in_buffer /\ e.tensors = s.tensors /\ e.chunks = s.chunks
    /\ e.bad = FALSE /\ e.left = s.left - (g.chunk - s.size) /\ e.place = s.place

Finishes(e, f) == f = finish_chunk(e)

\* SplitTensor before finish_chunk is the relation Fills.
LEMMA SplitFills ==
    ASSUME NEW s, NEW g, Sizes(g), LocalsInv(s, g), s.size + s.left > g.chunk,
           NEW e, e = [s EXCEPT !.left = s.left - (g.chunk - s.size), !.size = g.chunk]
    PROVE  Fills(s, e, g)
  <1>1. s.size \in Nat /\ s.left \in Nat /\ g.chunk \in Nat BY SizesOrdered, Types
  <1>2. s \in Locals(g.tensors) /\ s.bad = FALSE BY DEF LocalsInv, Locals
  <1> DEFINE w == s.left - (g.chunk - s.size)
             C == g.chunk
  <1>3. w \in Nat /\ C \in Nat BY <1>1
  <1>4. e = [s EXCEPT !.left = w, !.size = C] OBVIOUS
  <1> HIDE DEF w, C
  <1>5. ASSUME NEW q, q = [s EXCEPT !.left = w, !.size = C]
        PROVE  /\ q \in Locals(g.tensors)
               /\ q.file = s.file /\ q.foff = s.foff /\ q.doff = s.doff /\ q.size = C
               /\ q.tensor_id = s.tensor_id /\ q.left_most = s.left_most
               /\ q.in_buffer = s.in_buffer /\ q.tensors = s.tensors /\ q.chunks = s.chunks
               /\ q.bad = s.bad /\ q.left = w /\ q.place = s.place
    BY <1>2, <1>3, <1>5 DEF Locals
  <1> QED BY <1>2, <1>4, <1>5 DEF Fills, w, C

\* The tensor fills the chunk: close it and go on behind it.
LEMMA SplitKeeps ==
    ASSUME NEW s, NEW g, g = Geometry, Sizes(g), NEW k, NEW o,
           o[k][2] \in Nat, o[k + 1][2] \in Nat,
           StateInv(s, g), SplitInv(s, k, o, g), s.size + s.left > g.chunk,
           NEW e, Fills(s, e, g), NEW f, Finishes(e, f)
    PROVE  StateInv(f, g) /\ SplitInv(f, k, o, g)
  <1> DEFINE C == g.chunk
             A == g.align
             x == o[k][2]
  <1>1. LocalsInv(s, g) /\ FileInv(s) BY DEF StateInv
  <1>2. /\ s.foff \in Nat /\ s.doff \in Nat \ {0} /\ s.size \in Nat /\ s.left \in Nat
        /\ s.place \in Nat
        /\ s.tensor_id \in Nat /\ Num(s) \in Nat
        /\ Placed(s) \subseteq 0..(g.tensors - 1) /\ Lap(s) \subseteq Placed(s)
        /\ \A c \in Closed(s) : /\ ChunkAt(s, c).foff \in Nat /\ ChunkAt(s, c).size \in Nat
                                /\ ChunkAt(s, c).doff \in Nat
    BY <1>1, SizesOrdered, Types
  <1>3. s \in Locals(g.tensors) /\ s.size <= C /\ s.bad = FALSE
    BY <1>1 DEF LocalsInv, Locals
  <1>4. C \in Nat \ {0} /\ A \in Nat \ {0} /\ RankAlignment \in Nat \ {0}
        /\ (C % RankAlignment) = 0 /\ (C % A) = 0 /\ g.room \in Nat
    BY SizesOrdered DEF Sizes
  <1> DEFINE w == s.left - (C - s.size)
  <1>5. w \in Nat /\ w > 0 /\ s.size + s.left = C + w BY <1>2, <1>3, <1>4
  <1>6. /\ e \in Locals(g.tensors)
        /\ e.file = s.file /\ e.foff = s.foff /\ e.doff = s.doff /\ e.size = C
        /\ e.tensor_id = s.tensor_id /\ e.left_most = s.left_most
        /\ e.in_buffer = s.in_buffer /\ e.tensors = s.tensors /\ e.chunks = s.chunks
        /\ e.bad = FALSE /\ e.left = w /\ e.place = s.place
    BY DEF Fills
  <1>7. /\ OpenInv(s) /\ k < Len(o) /\ o[k][1] = o[k + 1][1]
        /\ s.file = o[k][1] /\ s.foff + s.size + s.left = o[k + 1][2]
        /\ x <= s.foff + s.size /\ s.place - x = s.doff - s.foff
        /\ s.tensor_id = k - 1 - o[k][1] /\ s.tensor_id < g.tensors
        /\ s.doff + RoundUp(s.size + s.left, A) <= g.room
        /\ \A t \in Lap(s) : s.tensors[t].doff <= s.place
        /\ Follows(s, s.tensor_id, s.place)
    BY DEF SplitInv
  <1>8. \A c \in Closed(s) : Holds(s, x, ChunkAt(s, c)) =>
          /\ ChunkAt(s, c).doff + ChunkAt(s, c).size <= s.doff
          /\ Top(ChunkAt(s, c), g) <= g.room
          /\ \A d \in (c + 1)..(Num(s) - 1) :
                ChunkAt(s, c).doff + ChunkAt(s, c).size <= ChunkAt(s, d).doff
    BY DEF SplitInv
  <1>9. \A y \in x..(s.foff + s.size - 1) : \E c \in 0..Num(s) :
          /\ AnyChunk(s, c).file = s.file /\ Shift(AnyChunk(s, c)) = s.doff - s.foff
          /\ AnyChunk(s, c).foff <= y /\ y < End(AnyChunk(s, c))
    BY DEF SplitInv
  <1>10. RoundUp(C, A) = C /\ RoundUp(w, A) \in Nat /\ RoundUp(C + w, A) = C + RoundUp(w, A)
         /\ RoundDown(C, RankAlignment) = C /\ C % RankAlignment = 0
    <2>1. C % A = 0 /\ C % RankAlignment = 0 BY <1>4
    <2> HIDE DEF w, C, A
    <2>2. RoundUp(C, A) = C BY <1>4, <2>1, RoundUpFacts
    <2>3. RoundUp(w, A) \in Nat BY <1>4, <1>5, RoundUpFacts
    <2>4. RoundUp(C + w, A) = C + RoundUp(w, A) BY <1>4, <1>5, <2>1, RoundUpShift
    <2>5. RoundDown(C, RankAlignment) = C BY <1>4, <2>1, RoundDownFacts
    <2> QED BY <2>1, <2>2, <2>3, <2>4, <2>5
  <1> HIDE DEF w, C, A, x
  <1>11. s.doff + C + RoundUp(w, A) <= g.room BY <1>2, <1>4, <1>5, <1>7, <1>10
  <1>12. Top(Current(e), g) = s.doff + C
    BY <1>6, <1>10 DEF Top, Current, A
  <1>13. Top(Current(e), g) <= g.room BY <1>2, <1>4, <1>10, <1>11, <1>12
  <1>14. Grows(s, e, g) BY <1>3, <1>4, <1>6 DEF Grows, C
  <1>15. StateInv(e, g) /\ OpenInv(e) BY <1>7, <1>13, <1>14, GrowsKeeps
  <1>16. LocalsInv(e, g) BY <1>15 DEF StateInv
  <1>17. Closes(e, f, g) BY <1>4, <1>6, <1>16, FinishCloses DEF Finishes
  <1>18. StateInv(f, g) /\ SameTensors(e, f, g) BY <1>15, FinishKeeps DEF Finishes
  <1>19. /\ f.foff = s.foff + C /\ f.size = 0 /\ f.doff = s.doff + C
         /\ f.file = s.file /\ f.tensor_id = s.tensor_id /\ f.left = w /\ f.place = s.place
         /\ f.left_most = s.left_most /\ Num(f) = Num(s) + 1
         /\ \A c \in Closed(s) : ChunkAt(f, c) = ChunkAt(s, c)
         /\ ChunkAt(f, Num(s)) = Current(e)
    <2>1. Num(e) = Num(s) /\ Closed(e) = Closed(s) /\ \A c : ChunkAt(e, c) = ChunkAt(s, c)
      BY <1>6 DEF Num, Closed, ChunkAt
    <2> QED BY <1>6, <1>10, <1>12, <1>17, <2>1 DEF Closes
  <1>20. /\ Current(e).file = s.file /\ Current(e).foff = s.foff /\ Current(e).doff = s.doff
         /\ Current(e).size = C /\ End(Current(e)) = s.foff + C
         /\ Shift(Current(e)) = s.doff - s.foff
    BY <1>6 DEF Current, End, Shift
  <1>21. Lap(f) = Lap(s) /\ \A c \in Closed(f) : c \in Closed(s) \/ c = Num(s)
    BY <1>2, <1>19 DEF Lap, Closed
  <1>22. OpenInv(f)
    <2>1. FileInv(f) BY <1>18 DEF StateInv
    <2>2. f.foff + f.size = f.foff /\ f.foff \in Nat BY <1>2, <1>4, <1>19
    <2>3. LocalsInv(f, g) BY <1>18 DEF StateInv
    <2>4. \A t \in Placed(f) : f.tensors[t].foff \in Nat /\ f.tensors[t].size \in Nat
      BY <2>3, SizesOrdered, Types
    <2>5. \A t \in Placed(f) : End(f.tensors[t]) \in Nat BY <2>4 DEF End
    <2>6. \A t \in Placed(f) :
            f.tensors[t].file = f.file => End(f.tensors[t]) <= f.foff
      BY <2>1, <2>2 DEF FileInv
    <2>7. \A t \in Placed(f) :
            ~ (f.tensors[t].file = f.file /\ End(f.tensors[t]) > f.foff)
      BY <2>2, <2>5, <2>6
    <2> QED BY <2>7 DEF OpenInv
  <1>23. ASSUME NEW c \in Closed(f), Holds(f, x, ChunkAt(f, c))
         PROVE  /\ ChunkAt(f, c).doff + ChunkAt(f, c).size <= f.doff
                /\ Top(ChunkAt(f, c), g) <= g.room
                /\ \A d \in (c + 1)..(Num(f) - 1) :
                      ChunkAt(f, c).doff + ChunkAt(f, c).size <= ChunkAt(f, d).doff
    <2>1. CASE c \in Closed(s)
      <3>1. ChunkAt(f, c) = ChunkAt(s, c) /\ Holds(s, x, ChunkAt(s, c))
        BY <1>19, <1>23, <2>1 DEF Holds
      <3>2. /\ ChunkAt(s, c).doff + ChunkAt(s, c).size <= s.doff
            /\ Top(ChunkAt(s, c), g) <= g.room
        BY <1>8, <2>1, <3>1
      <3>3. ChunkAt(s, c).doff \in Nat /\ ChunkAt(s, c).size \in Nat BY <1>2, <2>1
      <3>4. ASSUME NEW d \in (c + 1)..(Num(f) - 1)
            PROVE  ChunkAt(s, c).doff + ChunkAt(s, c).size <= ChunkAt(f, d).doff
        <4>1. CASE d = Num(s) BY <1>19, <1>20, <3>2, <4>1
        <4>2. CASE d # Num(s)
          <5>1. c \in Nat /\ d \in (c + 1)..(Num(s) - 1) /\ d \in Closed(s)
            BY <1>2, <1>19, <2>1, <4>2 DEF Closed
          <5> QED BY <1>8, <1>19, <2>1, <3>1, <5>1
        <4> QED BY <4>1, <4>2
      <3>5. ChunkAt(s, c).doff + ChunkAt(s, c).size <= f.doff
        BY <1>2, <1>4, <1>19, <3>2, <3>3
      <3> QED BY <3>1, <3>2, <3>4, <3>5
    <2>2. CASE c = Num(s)
      <3>1. (c + 1)..(Num(f) - 1) = {} BY <1>2, <1>19, <2>2
      <3>2. s.doff + C <= f.doff BY <1>2, <1>4, <1>19
      <3> QED BY <1>13, <1>19, <1>20, <2>2, <3>1, <3>2
    <2> QED BY <1>21, <2>1, <2>2
  <1>24. ASSUME NEW y \in x..(f.foff + f.size - 1)
         PROVE  \E c \in 0..Num(f) :
                  /\ AnyChunk(f, c).file = f.file /\ Shift(AnyChunk(f, c)) = f.doff - f.foff
                  /\ AnyChunk(f, c).foff <= y /\ y < End(AnyChunk(f, c))
    <2>1. f.doff - f.foff = s.doff - s.foff BY <1>2, <1>4, <1>19
    <2>2. x \in Nat BY DEF x
    <2>3. y \in Int /\ x <= y /\ y < s.foff + C BY <1>2, <1>4, <1>19, <2>2
    <2>4. \A c \in 0..(Num(s) - 1) : AnyChunk(f, c) = ChunkAt(s, c)
                                      /\ AnyChunk(s, c) = ChunkAt(s, c)
      BY <1>2, <1>19 DEF AnyChunk, Closed
    <2>5. AnyChunk(f, Num(s)) = Current(e) BY <1>2, <1>19 DEF AnyChunk
    <2>6. AnyChunk(s, Num(s)) = Current(s) BY <1>2 DEF AnyChunk
    <2>7. ASSUME s.foff <= y
          PROVE  /\ AnyChunk(f, Num(s)).file = f.file
                 /\ Shift(AnyChunk(f, Num(s))) = f.doff - f.foff
                 /\ AnyChunk(f, Num(s)).foff <= y /\ y < End(AnyChunk(f, Num(s)))
      BY <1>19, <1>20, <2>1, <2>3, <2>5, <2>7
    <2>8. Num(s) \in 0..Num(f) BY <1>2, <1>19
    <2>9. CASE s.foff <= y BY <2>7, <2>8, <2>9
    <2>10. CASE ~ (s.foff <= y)
      <3>1. y \in x..(s.foff + s.size - 1) BY <1>2, <2>2, <2>3, <2>10
      <3>2. PICK c \in 0..Num(s) :
              /\ AnyChunk(s, c).file = s.file /\ Shift(AnyChunk(s, c)) = s.doff - s.foff
              /\ AnyChunk(s, c).foff <= y /\ y < End(AnyChunk(s, c))
        BY <1>9, <3>1
      <3>3. c # Num(s)
        <4>1. Current(s).foff = s.foff BY DEF Current
        <4> QED BY <2>6, <2>10, <3>2, <4>1
      <3>4. c \in 0..(Num(s) - 1) /\ c \in 0..Num(f) BY <1>2, <1>19, <3>3
      <3> QED BY <1>19, <2>1, <2>4, <3>2, <3>4
    <2> QED BY <2>9, <2>10
  <1>25. \A t \in Lap(f) : f.tensors[t].doff <= f.place
    <2> TAKE t \in Lap(f)
    <2>1. t \in Lap(s) /\ t \in 0..(g.tensors - 1) BY <1>2, <1>21
    <2>2. f.tensors[t].doff = e.tensors[t].doff BY <1>18, <2>1, TensorsAgree
    <2>3. f.tensors[t].doff = s.tensors[t].doff BY <1>6, <2>2
    <2> QED BY <1>7, <1>19, <2>1, <2>3
  <1>26. Follows(f, f.tensor_id, f.place)
    <2>1. SameTensors(s, f, g) BY <1>6, <1>18 DEF SameTensors
    <2> QED BY <1>1, <1>7, <1>19, <2>1, SameAlign
  <1>27. f.size + f.left = w /\ f.size + f.left > 0 BY <1>5, <1>19
  <1>28. f.doff + RoundUp(f.size + f.left, A) <= g.room BY <1>11, <1>19, <1>27
  <1>29. /\ f.foff + f.size + f.left = o[k + 1][2] /\ x <= f.foff + f.size
         /\ f.place - x = f.doff - f.foff
    <2> DEFINE v == o[k + 1][2]
    <2>1. x \in Nat /\ v \in Nat BY DEF x
    <2>2. s.foff + s.size + s.left = v BY <1>7
    <2> HIDE DEF v
    <2>3. f.foff + f.size + f.left = v BY <1>2, <1>4, <1>5, <1>19, <2>1, <2>2
    <2>4. x <= s.foff + s.size /\ s.place - x = s.doff - s.foff BY <1>7
    <2>5. x <= f.foff + f.size BY <1>2, <1>3, <1>4, <1>19, <2>1, <2>4
    <2>6. f.place - x = f.doff - f.foff BY <1>2, <1>4, <1>19, <2>1, <2>4
    <2> QED BY <2>3, <2>5, <2>6 DEF v
  <1>30. f.file = o[k][1] /\ f.tensor_id = k - 1 - o[k][1] /\ f.tensor_id < g.tensors
    BY <1>7, <1>19
  <1> QED BY <1>7, <1>18, <1>22, <1>23, <1>24, <1>25, <1>26, <1>27, <1>28, <1>29, <1>30
          DEF SplitInv, x, A

\* FinishTensor: tensor te ends in the open chunk.
Adds(e, n, te, g) ==
    /\ n \in Locals(g.tensors) /\ te \in TensorType
    /\ n.file = e.file /\ n.foff = e.foff /\ n.doff = e.doff /\ n.size = e.size
    /\ n.tensor_id = e.tensor_id + 1 /\ n.left_most = e.left_most
    /\ n.in_buffer = e.in_buffer /\ n.chunks = e.chunks /\ n.bad = FALSE
    /\ n.tensors[e.tensor_id] = te
    /\ \A t \in 0..(g.tensors - 1) : t # e.tensor_id => n.tensors[t] = e.tensors[t]
    /\ te.file = e.file /\ End(te) = e.foff + e.size /\ te.last = Num(e)
    /\ Shift(te) = e.doff - e.foff /\ te.foff <= e.foff + e.size

\* The chunks of the new tensor.
Brought(e, te, g) ==
    /\ \A c \in Closed(e) : Carries(te, ChunkAt(e, c)) =>
          /\ ChunkAt(e, c).doff + ChunkAt(e, c).size <= e.doff
          /\ Top(ChunkAt(e, c), g) <= g.room
          /\ \A d \in (c + 1)..(Num(e) - 1) :
                ChunkAt(e, c).doff + ChunkAt(e, c).size <= ChunkAt(e, d).doff
    /\ \A b \in 0..(te.size - 1) : \E c \in 0..Num(e) : HasByte(te, b, AnyChunk(e, c))
    /\ te.size > 0 => HasByte(te, te.size - 1, Current(e))
    /\ Top(Current(e), g) <= g.room
    /\ \A t \in Lap(e) : e.tensors[t].doff <= te.doff
    /\ Follows(e, e.tensor_id, te.doff)

\* Recording a tensor whose bytes are all in chunks keeps the invariant.
LEMMA AddKeeps ==
    ASSUME NEW e, NEW g, Sizes(g), StateInv(e, g), OpenInv(e), e.size > 0,
           e.tensor_id < g.tensors, NEW te, NEW n, Adds(e, n, te, g), Brought(e, te, g)
    PROVE  /\ StateInv(n, g) /\ OpenInv(n)
           /\ Follows(n, n.tensor_id, n.doff + n.size)
  <1> DEFINE m == e.tensor_id
  <1>1. /\ LocalsInv(e, g) /\ FileInv(e) /\ CarryInv(e) /\ MarkInv(e) /\ LapInv(e, g)
        /\ ByteInv(e) /\ RoomInv(e, g) /\ AlignInv(e)
    BY DEF StateInv
  <1>2. /\ e.file \in Nat /\ e.foff \in Nat /\ e.doff \in Nat /\ e.size \in Nat
        /\ Num(e) \in Nat /\ m \in Nat /\ m < g.tensors /\ g.tensors \in Nat
        /\ e.left_most \in Nat /\ e.left_most <= m
        /\ e.in_buffer \in Nat /\ e.in_buffer <= e.left_most
        /\ Placed(e) \subseteq 0..(g.tensors - 1) /\ Lap(e) \subseteq Placed(e)
    BY <1>1, SizesOrdered, Types
  <1>3. /\ n \in Locals(g.tensors) /\ te \in TensorType
        /\ n.file = e.file /\ n.foff = e.foff /\ n.doff = e.doff /\ n.size = e.size
        /\ n.tensor_id = m + 1 /\ n.left_most = e.left_most
        /\ n.in_buffer = e.in_buffer /\ n.chunks = e.chunks /\ n.bad = FALSE
        /\ n.tensors[m] = te
        /\ te.file = e.file /\ End(te) = e.foff + e.size /\ te.last = Num(e)
        /\ Shift(te) = e.doff - e.foff /\ te.foff <= e.foff + e.size
    BY DEF Adds
  <1>4. \A t \in 0..(g.tensors - 1) : t # m => n.tensors[t] = e.tensors[t] BY DEF Adds
  <1>5. /\ te.size \in Nat /\ te.foff \in Nat /\ te.doff \in Nat /\ te.last \in Nat
    BY <1>3 DEF TensorType
  <1>6. /\ Num(n) = Num(e) /\ Closed(n) = Closed(e)
        /\ \A c : ChunkAt(n, c) = ChunkAt(e, c)
        /\ Current(n) = Current(e) /\ \A c : AnyChunk(n, c) = AnyChunk(e, c)
    BY <1>3 DEF Num, Closed, ChunkAt, Current, AnyChunk
  <1> HIDE DEF m
  <1>7. ASSUME NEW t \in Placed(n)
        PROVE  (t \in Placed(e) /\ t # m /\ t < m /\ n.tensors[t] = e.tensors[t])
               \/ (t = m /\ n.tensors[t] = te)
    <2>1. t \in 0..m BY <1>2, <1>3 DEF Placed
    <2>2. CASE t = m BY <1>3, <2>2
    <2>3. CASE t # m
      <3>1. t \in 0..(m - 1) /\ t < m /\ t \in 0..(g.tensors - 1) BY <1>2, <2>1, <2>3
      <3> QED BY <1>4, <2>3, <3>1 DEF Placed, m
    <2> QED BY <2>2, <2>3
  <1>8. ASSUME NEW t \in Lap(n)
        PROVE  t \in Placed(n) /\ t \in Int
               /\ ((t \in Lap(e) /\ t # m /\ t < m /\ n.tensors[t] = e.tensors[t])
                    \/ (t = m /\ n.tensors[t] = te))
    <2>1. t \in e.left_most..m BY <1>2, <1>3 DEF Lap
    <2>2. t \in Placed(n) BY <1>2, <1>3, <2>1 DEF Placed
    <2>3. CASE t = m BY <1>2, <1>3, <2>2, <2>3
    <2>4. CASE t # m
      <3>1. t \in e.left_most..(m - 1) /\ t < m /\ t \in 0..(g.tensors - 1) /\ t \in Int
        BY <1>2, <2>1, <2>4
      <3> QED BY <1>4, <2>2, <2>4, <3>1 DEF Lap, m
    <2> QED BY <2>3, <2>4
  <1>9. LocalsInv(n, g)
    <2>1. e.size <= g.chunk /\ e.foff % RankAlignment = 0
          /\ \A c \in Closed(e) :
                ChunkAt(e, c).foff % RankAlignment = 0 /\ ChunkAt(e, c).size <= g.chunk
      BY <1>1 DEF LocalsInv
    <2>2. n.in_buffer <= n.left_most /\ n.left_most <= n.tensor_id /\ n.tensor_id <= g.tensors
      BY <1>2, <1>3
    <2> QED BY <1>3, <1>6, <2>1, <2>2 DEF LocalsInv
  <1>10. FileInv(n)
    <2>1. \A c \in Closed(n) :
            /\ ChunkAt(n, c).file <= n.file
            /\ ChunkAt(n, c).file = n.file => End(ChunkAt(n, c)) <= n.foff + n.size
      BY <1>1, <1>3, <1>6 DEF FileInv
    <2>2. te.file <= n.file /\ End(te) <= n.foff + n.size BY <1>2, <1>3
    <2>3. ASSUME NEW t \in Placed(n)
          PROVE  /\ n.tensors[t].file <= n.file
                 /\ n.tensors[t].file = n.file => End(n.tensors[t]) <= n.foff + n.size
      BY <1>1, <1>3, <1>7, <2>2 DEF FileInv
    <2> QED BY <2>1, <2>3 DEF FileInv
  <1>11. CarryInv(n)
    <2> SUFFICES ASSUME NEW t \in Placed(n), NEW c \in Closed(n), c > n.tensors[t].last
                 PROVE  ~ Carries(n.tensors[t], ChunkAt(n, c))
      BY DEF CarryInv
    <2>1. c \in Int /\ c < Num(e) BY <1>2, <1>6 DEF Closed
    <2>2. n.tensors[t] # te BY <1>2, <1>3, <2>1
    <2> QED BY <1>1, <1>6, <1>7, <2>2 DEF CarryInv
  <1>12. OpenInv(n)
    <2> SUFFICES ASSUME NEW t \in Placed(n), n.tensors[t].file = n.file,
                        End(n.tensors[t]) > n.foff
                 PROVE  \/ /\ n.tensors[t].last = Num(n)
                           /\ Shift(n.tensors[t]) = n.doff - n.foff
                        \/ /\ Shift(n.tensors[t]) # n.doff - n.foff
                           /\ n.doff <= FirstTensorAlignment
                           /\ End(n.tensors[t]) < n.foff + RankAlignment
      BY DEF OpenInv
    <2>1. CASE n.tensors[t] = te BY <1>3, <1>6, <2>1
    <2>2. CASE t \in Placed(e) /\ n.tensors[t] = e.tensors[t]
      BY <1>3, <1>6, <2>2 DEF OpenInv
    <2> QED BY <1>7, <2>1, <2>2
  <1>13. MarkInv(n)
    <2>1. ASSUME NEW t \in Placed(n)
          PROVE  /\ n.tensors[t].last <= Num(n)
                 /\ n.tensors[t].last = Num(n) => n.size > 0 /\ t >= n.left_most
      <3>1. CASE t = m /\ n.tensors[t] = te BY <1>2, <1>3, <1>6, <3>1
      <3>2. CASE t \in Placed(e) /\ n.tensors[t] = e.tensors[t]
        BY <1>1, <1>3, <1>6, <3>2 DEF MarkInv
      <3> QED BY <1>7, <3>1, <3>2
    <2>2. \A t \in 0..(n.in_buffer - 1) : t \in 0..(e.in_buffer - 1)
                                           /\ n.tensors[t] = e.tensors[t]
      BY <1>2, <1>3, <1>4
    <2>3. /\ \A t \in 0..(n.in_buffer - 1) :
                n.tensors[t].last <= n.tensors[t].prefetch /\ n.tensors[t].prefetch < Num(n)
          /\ \A t, u \in 0..(n.in_buffer - 1) :
                t <= u => n.tensors[t].prefetch <= n.tensors[u].prefetch
      BY <1>1, <1>6, <2>2 DEF MarkInv
    <2> QED BY <2>1, <2>3 DEF MarkInv
  <1>14. \A t \in Lap(e) : e.tensors[t].doff <= te.doff BY DEF Brought
  <1>15. \A c \in Closed(e) : Carries(te, ChunkAt(e, c)) =>
          /\ ChunkAt(e, c).doff + ChunkAt(e, c).size <= e.doff
          /\ Top(ChunkAt(e, c), g) <= g.room
          /\ \A d \in (c + 1)..(Num(e) - 1) :
                ChunkAt(e, c).doff + ChunkAt(e, c).size <= ChunkAt(e, d).doff
    BY DEF Brought
  <1>16. te.doff <= e.doff + e.size
    <2>1. te.doff - te.foff = e.doff - e.foff BY <1>3 DEF Shift
    <2> QED BY <1>2, <1>3, <1>5, <2>1
  <1>17. LapInv(n, g)
    <2>1. \A t, u \in n.in_buffer..(n.left_most - 1) :
            t <= u => n.tensors[t].doff <= n.tensors[u].doff
      <3> TAKE t, u \in n.in_buffer..(n.left_most - 1)
      <3>1. /\ t \in e.in_buffer..(e.left_most - 1) /\ u \in e.in_buffer..(e.left_most - 1)
            /\ t \in 0..(g.tensors - 1) /\ u \in 0..(g.tensors - 1) /\ t # m /\ u # m
        BY <1>2, <1>3
      <3> QED BY <1>1, <1>4, <3>1 DEF LapInv
    <2>2. ASSUME NEW t \in Lap(n), NEW u \in Lap(n), t <= u
          PROVE  n.tensors[t].doff <= n.tensors[u].doff
      <3>1. CASE u = m
        <4>1. n.tensors[u] = te BY <1>8, <3>1
        <4>2. CASE t = m
          <5>1. n.tensors[t] = te BY <1>8, <4>2
          <5> QED BY <1>5, <4>1, <5>1
        <4>3. CASE t # m
          <5>1. t \in Lap(e) /\ n.tensors[t] = e.tensors[t] BY <1>8, <4>3
          <5> QED BY <1>14, <4>1, <5>1
        <4> QED BY <4>2, <4>3
      <3>2. CASE u # m
        <4>1. u \in Lap(e) /\ u < m /\ n.tensors[u] = e.tensors[u] /\ u \in Int
          BY <1>8, <3>2
        <4>2. t \in Int BY <1>8
        <4>2a. t # m BY <1>2, <2>2, <4>1, <4>2
        <4>3. t \in Lap(e) /\ n.tensors[t] = e.tensors[t] BY <1>8, <4>2a
        <4> QED BY <1>1, <2>2, <4>1, <4>3 DEF LapInv
      <3> QED BY <3>1, <3>2
    <2>3. ASSUME NEW t \in Lap(n) PROVE n.tensors[t].doff <= n.doff + n.size
      <3>1. CASE n.tensors[t] = te BY <1>3, <1>16, <3>1
      <3>2. CASE t \in Lap(e) /\ n.tensors[t] = e.tensors[t]
        BY <1>1, <1>3, <3>2 DEF LapInv
      <3> QED BY <1>8, <3>1, <3>2
    <2>4. ASSUME NEW t \in Lap(n), NEW c \in Closed(n), Carries(n.tensors[t], ChunkAt(n, c))
          PROVE  ChunkAt(n, c).doff + ChunkAt(n, c).size <= n.doff
      <3>1. CASE n.tensors[t] = te BY <1>3, <1>6, <1>15, <2>4, <3>1
      <3>2. CASE t \in Lap(e) /\ n.tensors[t] = e.tensors[t]
        BY <1>1, <1>3, <1>6, <2>4, <3>2 DEF LapInv
      <3> QED BY <1>8, <3>1, <3>2
    <2>5. ASSUME NEW t \in Placed(n), NEW c \in Closed(n), NEW d \in Closed(n),
                 c < d, d <= Horizon(n, t), Carries(n.tensors[t], ChunkAt(n, c))
          PROVE  Apart(n.tensors[t], ChunkAt(n, c), ChunkAt(n, d), g)
      <3>1. CASE n.tensors[t] = te
        <4>1. d \in (c + 1)..(Num(e) - 1) BY <1>2, <1>6, <2>5 DEF Closed
        <4>2. ChunkAt(e, c).doff + ChunkAt(e, c).size <= ChunkAt(e, d).doff
          BY <1>6, <1>15, <2>5, <3>1, <4>1
        <4> QED BY <1>6, <4>2 DEF Apart
      <3>2. CASE t \in Placed(e) /\ n.tensors[t] = e.tensors[t]
        <4>1. Horizon(n, t) = Horizon(e, t) BY <1>3, <1>6, <3>2 DEF Horizon
        <4> QED BY <1>1, <1>6, <2>5, <3>2, <4>1 DEF LapInv
      <3> QED BY <1>7, <3>1, <3>2
    <2> QED BY <2>1, <2>2, <2>3, <2>4, <2>5 DEF LapInv
  <1>18. ByteInv(n)
    <2> SUFFICES ASSUME NEW t \in Placed(n)
                 PROVE  /\ \A b \in 0..(n.tensors[t].size - 1) :
                              \E c \in 0..n.tensors[t].last :
                                 HasByte(n.tensors[t], b, AnyChunk(n, c))
                        /\ n.tensors[t].size > 0 =>
                              HasByte(n.tensors[t], n.tensors[t].size - 1,
                                      AnyChunk(n, n.tensors[t].last))
      BY DEF ByteInv
    <2>1. CASE n.tensors[t] = te
      <3>1. AnyChunk(n, Num(e)) = Current(e) BY <1>2, <1>6 DEF AnyChunk
      <3>2. \A b \in 0..(te.size - 1) : \E c \in 0..Num(e) : HasByte(te, b, AnyChunk(e, c))
        BY DEF Brought
      <3>3. te.size > 0 => HasByte(te, te.size - 1, Current(e)) BY DEF Brought
      <3> QED BY <1>3, <1>6, <2>1, <3>1, <3>2, <3>3
    <2>2. CASE t \in Placed(e) /\ n.tensors[t] = e.tensors[t]
      BY <1>1, <1>6, <2>2 DEF ByteInv
    <2> QED BY <1>7, <2>1, <2>2
  <1>19. RoomInv(n, g)
    <2>1. ASSUME NEW t \in Placed(n), NEW c \in Closed(n), Carries(n.tensors[t], ChunkAt(n, c))
          PROVE  Top(ChunkAt(n, c), g) <= g.room
      <3>1. CASE n.tensors[t] = te BY <1>6, <1>15, <2>1, <3>1
      <3>2. CASE t \in Placed(e) /\ n.tensors[t] = e.tensors[t]
        BY <1>1, <1>6, <2>1, <3>2 DEF RoomInv
      <3> QED BY <1>7, <3>1, <3>2
    <2>2. Top(Current(n), g) <= g.room BY <1>6 DEF Brought
    <2> QED BY <2>1, <2>2 DEF RoomInv
  <1>20. ASSUME NEW t \in 0..m, NEW y, Follows(e, t, y) PROVE Follows(n, t, y)
    <2>1. CASE t = 0 BY <1>20, <2>1 DEF Follows
    <2>2. CASE t # 0
      <3>1. t - 1 \in 0..(g.tensors - 1) /\ t - 1 # m BY <1>2, <2>2
      <3>2. n.tensors[t - 1] = e.tensors[t - 1] BY <1>4, <3>1
      <3> QED BY <1>20, <3>2 DEF Follows
    <2> QED BY <2>1, <2>2
  <1>21. AlignInv(n)
    <2> SUFFICES ASSUME NEW t \in Placed(n) PROVE Follows(n, t, n.tensors[t].doff)
      BY DEF AlignInv
    <2>1. t \in 0..m BY <1>2, <1>3 DEF Placed
    <2>2. CASE t = m /\ n.tensors[t] = te
      <3>1. Follows(e, m, te.doff) BY DEF Brought, m
      <3> QED BY <1>20, <2>1, <2>2, <3>1
    <2>3. CASE t \in Placed(e) /\ n.tensors[t] = e.tensors[t]
      BY <1>1, <1>20, <2>1, <2>3 DEF AlignInv
    <2> QED BY <1>7, <2>2, <2>3
  <1>22. Follows(n, n.tensor_id, n.doff + n.size)
    <2>1. n.tensor_id > 0 /\ n.tensor_id - 1 = m BY <1>2, <1>3
    <2>2. te.doff - te.foff = e.doff - e.foff /\ te.foff + te.size = e.foff + e.size
      BY <1>3 DEF Shift, End
    <2>3. n.doff + n.size - te.doff = te.size BY <1>2, <1>3, <1>5, <2>2
    <2>4. n.tensors[n.tensor_id - 1] = te BY <1>3, <2>1
    <2> DEFINE y == n.doff + n.size
    <2>5. y - te.doff = te.size BY <1>2, <1>3, <1>5, <2>3
    <2> HIDE DEF y
    <2>6. Follows(n, n.tensor_id, y) BY <2>1, <2>4, <2>5 DEF Follows
    <2> QED BY <2>6 DEF y
  <1> QED BY <1>9, <1>10, <1>11, <1>12, <1>13, <1>17, <1>18, <1>19, <1>21, <1>22 DEF StateInv

\* The record of a tensor between offsets k and k + 1.
NewTensor(s, k, o) ==
    [size |-> o[k + 1][2] - o[k][2], file |-> o[k][1], foff |-> o[k][2],
     doff |-> s.place, last |-> Num(s), prefetch |-> 0]

\* The chunk with the rest of the tensor.
Rest(s) == [s EXCEPT !.size = s.size + s.left, !.left = 0]

\* The rest of the tensor is added to the open chunk.
LEMMA RestGrows ==
    ASSUME NEW s, NEW g, Sizes(g), LocalsInv(s, g), s.size + s.left <= g.chunk
    PROVE  Grows(s, Rest(s), g) /\ Rest(s).size = s.size + s.left
  <1>1. s.size \in Nat /\ s.left \in Nat BY SizesOrdered, Types
  <1>2. s \in Locals(g.tensors) /\ s.bad = FALSE BY DEF LocalsInv, Locals
  <1> DEFINE w == s.size + s.left
             e == [s EXCEPT !.size = w, !.left = 0]
  <1>3. Rest(s) = e BY DEF Rest
  <1>4. w \in Nat /\ s.size <= w /\ w <= g.chunk BY <1>1
  <1> HIDE DEF w
  <1>5. /\ e \in Locals(g.tensors)
        /\ e.file = s.file /\ e.foff = s.foff /\ e.doff = s.doff /\ e.size = w
        /\ e.tensor_id = s.tensor_id /\ e.left_most = s.left_most
        /\ e.in_buffer = s.in_buffer /\ e.tensors = s.tensors /\ e.chunks = s.chunks
        /\ e.bad = s.bad
    BY <1>2, <1>4 DEF Locals
  <1> HIDE DEF e
  <1> QED BY <1>2, <1>3, <1>4, <1>5 DEF Grows, w

\* FinishTensor is the relation Adds.
LEMMA EndAdds ==
    ASSUME NEW s, NEW g, Sizes(g), LocalsInv(s, g), s.tensor_id < g.tensors,
           NEW te \in TensorType,
           te.file = s.file, te.foff + te.size = s.foff + s.size + s.left, te.last = Num(s),
           te.doff - te.foff = s.doff - s.foff, te.foff <= s.foff + s.size,
           s.size + s.left <= g.chunk,
           NEW n, n = [s EXCEPT !.size = s.size + s.left, !.tensors[s.tensor_id] = te,
                                !.tensor_id = s.tensor_id + 1, !.left = 0]
    PROVE  Adds(Rest(s), n, te, g)
  <1> DEFINE e == Rest(s)
             w == s.size + s.left
             m == s.tensor_id
             tt == [s.tensors EXCEPT ![m] = te]
  <1>1. /\ s.size \in Nat /\ s.left \in Nat /\ m \in Nat /\ s.foff \in Nat
        /\ s.tensors \in [0..(g.tensors - 1) -> TensorType]
    BY SizesOrdered, Types
  <1>2. s \in Locals(g.tensors) /\ s.bad = FALSE BY DEF LocalsInv, Locals
  <1>3. /\ e.file = s.file /\ e.foff = s.foff /\ e.doff = s.doff /\ e.size = w
        /\ e.tensor_id = s.tensor_id /\ e.left_most = s.left_most
        /\ e.in_buffer = s.in_buffer /\ e.tensors = s.tensors /\ e.chunks = s.chunks
    BY RestGrows DEF Grows
  <1>4. m \in 0..(g.tensors - 1) BY <1>1, SizesOrdered
  <1>5. /\ tt \in [0..(g.tensors - 1) -> TensorType] /\ tt[m] = te
        /\ \A t \in 0..(g.tensors - 1) : t # m => tt[t] = s.tensors[t]
    BY <1>1, <1>4
  <1>6. n = [s EXCEPT !.size = w, !.tensors = tt, !.tensor_id = m + 1, !.left = 0]
    BY <1>2 DEF Locals
  <1>7. w \in Nat /\ m + 1 \in Nat BY <1>1
  <1> HIDE DEF w, m, tt, e
  <1>8. ASSUME NEW q, q = [s EXCEPT !.size = w, !.tensors = tt, !.tensor_id = m + 1, !.left = 0]
        PROVE  /\ q \in Locals(g.tensors)
               /\ q.file = s.file /\ q.foff = s.foff /\ q.doff = s.doff /\ q.size = w
               /\ q.tensor_id = m + 1 /\ q.left_most = s.left_most
               /\ q.in_buffer = s.in_buffer /\ q.tensors = tt /\ q.chunks = s.chunks
               /\ q.bad = s.bad
    BY <1>2, <1>5, <1>7, <1>8 DEF Locals
  <1>9. End(te) = s.foff + w /\ Shift(te) = s.doff - s.foff /\ te.foff <= s.foff + w
    <2>1. te.foff \in Nat BY DEF TensorType
    <2>2. te.foff <= s.foff + w BY <1>1, <2>1 DEF w
    <2>3. End(te) = s.foff + w BY <1>1 DEF End, w
    <2> QED BY <2>2, <2>3 DEF Shift
  <1>10. Num(e) = Num(s) BY <1>3 DEF Num
  <1>11. Adds(e, n, te, g)
    BY <1>2, <1>3, <1>5, <1>6, <1>8, <1>9, <1>10, ZenonT(60) DEF Adds, m
  <1> QED BY <1>11 DEF e

\* When a tensor ends, the chunks up to the open one have all its bytes.
LEMMA EndBrought ==
    ASSUME NEW s, NEW g, Sizes(g), NEW k, NEW o, StateInv(s, g), SplitInv(s, k, o, g),
           s.size + s.left <= g.chunk, o[k][2] \in Nat, o[k + 1][2] \in Nat,
           NEW te \in TensorType, te.size = o[k + 1][2] - o[k][2],
           te.file = o[k][1], te.foff = o[k][2], te.doff = s.place
    PROVE  Brought(Rest(s), te, g)
  <1> DEFINE e == Rest(s)
             x == o[k][2]
             v == o[k + 1][2]
  <1>1. LocalsInv(s, g) BY DEF StateInv
  <1>2. Grows(s, e, g) /\ e.size = s.size + s.left BY <1>1, RestGrows
  <1> HIDE DEF e
  <1>3. /\ s.foff \in Nat /\ s.doff \in Nat \ {0} /\ s.size \in Nat /\ s.left \in Nat
        /\ s.place \in Nat /\ Num(s) \in Nat
        /\ \A c \in Closed(s) : /\ ChunkAt(s, c).foff \in Nat /\ ChunkAt(s, c).size \in Nat
                                /\ ChunkAt(s, c).doff \in Nat
    BY <1>1, SizesOrdered, Types
  <1>4. /\ e.file = s.file /\ e.foff = s.foff /\ e.doff = s.doff
        /\ e.tensor_id = s.tensor_id /\ e.left_most = s.left_most
        /\ e.tensors = s.tensors /\ e.chunks = s.chunks
    BY <1>2 DEF Grows
  <1>5. /\ Num(e) = Num(s) /\ Closed(e) = Closed(s) /\ Lap(e) = Lap(s)
        /\ \A c : ChunkAt(e, c) = ChunkAt(s, c)
    BY <1>4 DEF Num, Closed, Lap, ChunkAt
  <1>6. /\ s.file = o[k][1] /\ s.foff + s.size + s.left = v
        /\ x <= s.foff + s.size /\ s.place - x = s.doff - s.foff
        /\ s.size + s.left > 0
        /\ s.doff + RoundUp(s.size + s.left, g.align) <= g.room
        /\ \A t \in Lap(s) : s.tensors[t].doff <= s.place
        /\ Follows(s, s.tensor_id, s.place)
    BY DEF SplitInv
  <1>7. \A c \in Closed(s) : Holds(s, x, ChunkAt(s, c)) =>
          /\ ChunkAt(s, c).doff + ChunkAt(s, c).size <= s.doff
          /\ Top(ChunkAt(s, c), g) <= g.room
          /\ \A d \in (c + 1)..(Num(s) - 1) :
                ChunkAt(s, c).doff + ChunkAt(s, c).size <= ChunkAt(s, d).doff
    BY DEF SplitInv
  <1>8. \A y \in x..(s.foff + s.size - 1) : \E c \in 0..Num(s) :
          /\ AnyChunk(s, c).file = s.file /\ Shift(AnyChunk(s, c)) = s.doff - s.foff
          /\ AnyChunk(s, c).foff <= y /\ y < End(AnyChunk(s, c))
    BY DEF SplitInv
  <1>9. te.size = v - x /\ te.file = s.file /\ te.foff = x /\ te.doff = s.place
        /\ x \in Nat /\ v \in Nat
    BY <1>6
  <1> HIDE DEF x, v
  <1>10. /\ Current(e).file = s.file /\ Current(e).foff = s.foff
         /\ Shift(Current(e)) = s.doff - s.foff /\ End(Current(e)) = s.foff + s.size + s.left
         /\ Top(Current(e), g) = s.doff + RoundUp(s.size + s.left, g.align)
    <2>1. End(Current(e)) = s.foff + (s.size + s.left) BY <1>2, <1>4 DEF Current, End
    <2>2. s.foff + (s.size + s.left) = s.foff + s.size + s.left BY <1>3
    <2> QED BY <1>2, <1>4, <2>1, <2>2 DEF Current, Shift, Top
  <1>11. Shift(te) = s.doff - s.foff BY <1>6, <1>9 DEF Shift
  <1>12. \A c \in Closed(e) : Carries(te, ChunkAt(e, c)) =>
          /\ ChunkAt(e, c).doff + ChunkAt(e, c).size <= e.doff
          /\ Top(ChunkAt(e, c), g) <= g.room
          /\ \A d \in (c + 1)..(Num(e) - 1) :
                ChunkAt(e, c).doff + ChunkAt(e, c).size <= ChunkAt(e, d).doff
    <2> SUFFICES ASSUME NEW c \in Closed(s), Carries(te, ChunkAt(s, c))
                 PROVE  Holds(s, x, ChunkAt(s, c))
      BY <1>4, <1>5, <1>7
    <2>1. ChunkAt(s, c).file = s.file /\ x < End(ChunkAt(s, c)) BY <1>9 DEF Carries
    <2>2. End(ChunkAt(s, c)) \in Nat BY <1>3 DEF End
    <2> QED BY <1>9, <2>1, <2>2 DEF Holds
  <1>13. ASSUME NEW b \in Int, s.foff <= x + b, x + b < v PROVE HasByte(te, b, Current(e))
    BY <1>6, <1>9, <1>10, <1>11, <1>13 DEF HasByte
  <1>14. ASSUME NEW b \in 0..(te.size - 1)
         PROVE  \E c \in 0..Num(e) : HasByte(te, b, AnyChunk(e, c))
    <2>1. b \in Int /\ 0 <= b /\ x + b < v BY <1>9
    <2>2. CASE s.foff <= x + b
      <3>1. HasByte(te, b, Current(e)) BY <1>13, <2>1, <2>2
      <3>2. AnyChunk(e, Num(e)) = Current(e) /\ Num(e) \in 0..Num(e)
        BY <1>3, <1>5 DEF AnyChunk
      <3> QED BY <3>1, <3>2
    <2>3. CASE ~ (s.foff <= x + b)
      <3> DEFINE y == x + b
      <3>1. y \in x..(s.foff + s.size - 1) BY <1>3, <1>9, <2>1, <2>3
      <3>2. PICK c \in 0..Num(s) :
              /\ AnyChunk(s, c).file = s.file /\ Shift(AnyChunk(s, c)) = s.doff - s.foff
              /\ AnyChunk(s, c).foff <= y /\ y < End(AnyChunk(s, c))
        BY <1>8, <3>1
      <3>3. c # Num(s)
        <4>1. AnyChunk(s, Num(s)).foff = s.foff BY <1>3 DEF AnyChunk, Current
        <4> QED BY <2>3, <3>2, <4>1
      <3>4. AnyChunk(e, c) = AnyChunk(s, c) /\ c \in 0..Num(e)
        BY <1>3, <1>5, <3>3 DEF AnyChunk
      <3> QED BY <1>9, <1>11, <3>2, <3>4 DEF HasByte
    <2> QED BY <2>2, <2>3
  <1>15. ASSUME te.size > 0 PROVE HasByte(te, te.size - 1, Current(e))
    <2>1. te.size - 1 \in Int /\ x + (te.size - 1) = v - 1 BY <1>9
    <2>2. s.foff <= v - 1 /\ v - 1 < v BY <1>3, <1>6, <1>9
    <2> QED BY <1>13, <2>1, <2>2
  <1>16. Top(Current(e), g) <= g.room BY <1>6, <1>10
  <1>17. \A t \in Lap(e) : e.tensors[t].doff <= te.doff BY <1>4, <1>5, <1>6, <1>9
  <1>18. Follows(e, e.tensor_id, te.doff) BY <1>4, <1>6, <1>9 DEF Follows
  <1> QED BY <1>12, <1>14, <1>15, <1>16, <1>17, <1>18 DEF Brought, e

\* FinishTensor keeps the invariant.
LEMMA EndKeeps ==
    ASSUME NEW s, NEW g, Sizes(g), NEW k, NEW o, StateInv(s, g), SplitInv(s, k, o, g),
           k \in Nat, o[k][1] \in Nat, o[k][2] \in Nat, o[k + 1][2] \in Nat,
           o[k][2] <= o[k + 1][2], s.size + s.left <= g.chunk,
           NEW n, n = [s EXCEPT !.size = s.size + s.left,
                                !.tensors[s.tensor_id] = NewTensor(s, k, o),
                                !.tensor_id = s.tensor_id + 1, !.left = 0]
    PROVE  StateInv(n, g) /\ TensorInv(n, k + 1, o)
  <1> DEFINE te == NewTensor(s, k, o)
             e == Rest(s)
  <1>1. LocalsInv(s, g) /\ OpenInv(s) /\ s.tensor_id < g.tensors /\ s.size + s.left > 0
        /\ s.tensor_id = k - 1 - o[k][1] /\ o[k][1] = o[k + 1][1] /\ s.file = o[k][1]
        /\ s.foff + s.size + s.left = o[k + 1][2]
        /\ o[k][2] <= s.foff + s.size /\ s.place - o[k][2] = s.doff - s.foff
        /\ s.doff + RoundUp(s.size + s.left, g.align) <= g.room
    BY DEF StateInv, SplitInv
  <1>2. /\ s.foff \in Nat /\ s.doff \in Nat /\ s.size \in Nat /\ s.left \in Nat
        /\ s.place \in Nat /\ Num(s) \in Nat /\ s.tensor_id \in Nat
    BY <1>1, SizesOrdered, Types
  <1>3. /\ te.size = o[k + 1][2] - o[k][2] /\ te.file = o[k][1] /\ te.foff = o[k][2]
        /\ te.doff = s.place /\ te.last = Num(s) /\ te \in TensorType
    BY <1>2 DEF NewTensor, TensorType
  <1>4. te.file = s.file /\ te.foff + te.size = s.foff + s.size + s.left
        /\ te.doff - te.foff = s.doff - s.foff /\ te.foff <= s.foff + s.size
    <2>1. te.foff + te.size = o[k + 1][2] BY <1>3
    <2> QED BY <1>1, <1>3, <2>1
  <1>5. Brought(e, te, g)
    <2> HIDE DEF te
    <2> QED BY <1>3, EndBrought
  <1>6. Adds(e, n, te, g)
    <2>1. n = [s EXCEPT !.size = s.size + s.left, !.tensors[s.tensor_id] = te,
                        !.tensor_id = s.tensor_id + 1, !.left = 0]
      OBVIOUS
    <2> HIDE DEF te
    <2> QED BY <1>1, <1>3, <1>4, <2>1, EndAdds
  <1>7. Grows(s, e, g) /\ e.size = s.size + s.left BY <1>1, RestGrows
  <1> HIDE DEF te, e
  <1>8. Top(Current(e), g) <= g.room BY <1>5 DEF Brought
  <1>9. StateInv(e, g) /\ OpenInv(e) BY <1>1, <1>7, <1>8, GrowsKeeps
  <1>10. e.tensor_id = s.tensor_id /\ e.file = s.file /\ e.foff = s.foff BY <1>7 DEF Grows
  <1>11. e.size > 0 /\ e.tensor_id < g.tensors BY <1>1, <1>7, <1>10
  <1>12. StateInv(n, g) /\ OpenInv(n) /\ Follows(n, n.tensor_id, n.doff + n.size)
    BY <1>5, <1>6, <1>9, <1>11, AddKeeps
  <1>13. n.tensor_id = s.tensor_id + 1 /\ n.file = s.file /\ n.foff = s.foff
         /\ n.size = s.size + s.left
    BY <1>6, <1>7, <1>10 DEF Adds
  <1>14. n.file = o[k + 1][1] /\ n.foff + n.size = o[k + 1][2]
         /\ n.tensor_id = (k + 1) - 1 - o[k + 1][1]
    <2>1. n.foff + n.size = s.foff + s.size + s.left BY <1>2, <1>13
    <2>2. n.tensor_id = k - 1 - o[k + 1][1] + 1 BY <1>1, <1>13
    <2>3. o[k + 1][1] \in Nat BY <1>1
    <2>4. n.tensor_id = (k + 1) - 1 - o[k + 1][1] BY <2>2, <2>3
    <2> QED BY <1>1, <1>13, <2>1, <2>4
  <1> QED BY <1>12, <1>14 DEF TensorInv


-----------------------------------------------------------------------------
(* The actions.                                                              *)

\* A record of naturals is of the type of the first locals.
LEMMA EarlyRecord ==
    ASSUME NEW n, NEW tt \in [0..(n - 1) -> TensorType], NEW cc \in Seq(ChunkType),
           NEW z \in Nat, NEW f \in BOOLEAN
    PROVE  [file |-> z, foff |-> z, doff |-> z, size |-> z, tensor_id |-> z,
            in_buffer |-> z, left_most |-> z, left |-> z, place |-> z,
            chunks |-> cc, tensors |-> tt, bad |-> f] \in Early(n)
  BY DEF Early

\* The locals before the first file.
LEMMA BlankEarly ==
    ASSUME NEW n \in Nat,
           NEW b, b = [Blank EXCEPT !.tensors = [t \in 0..(n - 1) |-> NoTensor]]
    PROVE  /\ b \in Early(n) /\ b.size = 0 /\ b.doff = 0 /\ b.tensor_id = 0
           /\ b.in_buffer = 0 /\ b.left_most = 0 /\ b.chunks = << >> /\ b.bad = FALSE
  <1> DEFINE tt == [t \in 0..(n - 1) |-> NoTensor]
             cc == << >>
  <1>1. NoTensor \in TensorType BY DEF NoTensor, TensorType
  <1>2. tt \in [0..(n - 1) -> TensorType] BY <1>1
  <1>3. cc \in Seq(ChunkType) BY EmptySeq
  <1> HIDE DEF tt, cc
  <1>4. b = [file |-> 0, foff |-> 0, doff |-> 0, size |-> 0, tensor_id |-> 0,
             in_buffer |-> 0, left_most |-> 0, left |-> 0, place |-> 0,
             chunks |-> cc, tensors |-> tt, bad |-> FALSE]
    BY DEF Blank, tt, cc
  <1>5. /\ b.size = 0 /\ b.doff = 0 /\ b.tensor_id = 0
        /\ b.in_buffer = 0 /\ b.left_most = 0 /\ b.chunks = cc /\ b.bad = FALSE
    BY <1>4
  <1>6. 0 \in Nat /\ FALSE \in BOOLEAN OBVIOUS
  <1>7. [file |-> 0, foff |-> 0, doff |-> 0, size |-> 0, tensor_id |-> 0,
         in_buffer |-> 0, left_most |-> 0, left |-> 0, place |-> 0,
         chunks |-> cc, tensors |-> tt, bad |-> FALSE] \in Early(n)
    BY <1>2, <1>3, <1>6, EarlyRecord, Zenon
  <1>8. b \in Early(n) BY <1>4, <1>7, Zenon
  <1> QED BY <1>5, <1>8 DEF cc

\* Nothing has been placed and no chunk closed.
LEMMA NothingPlaced ==
    ASSUME NEW h, NEW g, Sizes(g), h \in Locals(g.tensors), h.bad = FALSE,
           h.tensor_id = 0, h.in_buffer = 0, h.left_most = 0, h.chunks = << >>,
           h.size < RankAlignment, (h.foff % RankAlignment) = 0
    PROVE  StateInv(h, g) /\ OpenInv(h)
  <1>1. RankAlignment \in Nat /\ g.chunk \in Nat /\ RankAlignment <= g.chunk /\ g.tensors \in Nat
    BY SizesOrdered
  <1>2. h.size \in Nat BY DEF Locals
  <1>3. Num(h) = 0 BY EmptySeq DEF Num
  <1>4. Closed(h) = {} /\ Placed(h) = {} /\ Lap(h) = {} BY <1>3 DEF Closed, Placed, Lap
  <1>5. 0..(h.in_buffer - 1) = {} /\ h.in_buffer..(h.left_most - 1) = {} OBVIOUS
  <1>6. LocalsInv(h, g) BY <1>1, <1>2, <1>4 DEF LocalsInv
  <1>7. FileInv(h) /\ CarryInv(h) /\ OpenInv(h) /\ ByteInv(h) /\ RoomInv(h, g) /\ AlignInv(h)
    BY <1>4 DEF FileInv, CarryInv, OpenInv, ByteInv, RoomInv, AlignInv
  <1>8. MarkInv(h) BY <1>4, <1>5 DEF MarkInv
  <1>9. LapInv(h, g) BY <1>4, <1>5 DEF LapInv
  <1> QED BY <1>6, <1>7, <1>8, <1>9 DEF StateInv

\* The invariant holds when the loop begins.
LEMMA InitIndInv ==
    ASSUME AlignmentAssumption, InputsAssumption, Init
    PROVE  IndInv
  <1> DEFINE b == [Blank EXCEPT !.tensors = [t \in 0..(NumTensors - 1) |-> NoTensor]]
             g == Geometry
             o == offsets
  <1>1. open_args \in Inputs /\ i = 1 /\ pc = "tensor"
        /\ L = reset_chunk_file(b, File(1), Offset(1))
    BY DEF Init
  <1>2. Sizes(g) /\ OffsetsAssumption(o, open_args.buffer_size) BY <1>1, GeometryFacts
  <1>3. g.tensors = NumTensors BY DEF Geometry
  <1>4. g.tensors \in Nat /\ RankAlignment \in Nat \ {0} BY <1>2, SizesOrdered
  <1>5. Len(o) \in Nat \ {0} /\ 1 \in 1..Len(o)
    BY <1>2, LenProperties DEF OffsetsAssumption
  <1>6. o[1][1] \in Nat /\ o[1][2] \in Nat /\ o[1][1] = 0
    BY <1>2, <1>5, OffsetFacts DEF OffsetsAssumption
  <1>7. L = reset_chunk_file(b, o[1][1], o[1][2]) BY <1>1 DEF File, Offset
  <1>8. /\ b \in Early(g.tensors) /\ b.size = 0 /\ b.doff = 0 /\ b.tensor_id = 0
        /\ b.in_buffer = 0 /\ b.left_most = 0 /\ b.chunks = << >> /\ b.bad = FALSE
    BY <1>3, <1>4, BlankEarly
  <1> HIDE DEF b, g, o
  <1>9. b.size < RankAlignment BY <1>4, <1>8
  <1>10. Moves(b, L, o[1][1], o[1][2], g) BY <1>2, <1>6, <1>7, <1>8, <1>9, ResetMoves
  <1>11. /\ L.file = o[1][1] /\ L.foff + L.size = o[1][2]
         /\ L.size < RankAlignment /\ (L.foff % RankAlignment) = 0
         /\ L.tensor_id = b.tensor_id
         /\ Follows(L, L.tensor_id, L.doff + L.size)
    BY <1>2, <1>6, <1>8, <1>10, MoveFollows
  <1>12. /\ L \in Locals(g.tensors) /\ L.bad = FALSE
         /\ L.in_buffer = b.in_buffer /\ L.left_most = b.left_most /\ L.chunks = b.chunks
    BY <1>10 DEF Moves
  <1>13. StateInv(L, g) /\ OpenInv(L)
    BY <1>2, <1>8, <1>11, <1>12, NothingPlaced
  <1>14. L.tensor_id = 1 - 1 - o[1][1] BY <1>6, <1>8, <1>11
  <1>15. TensorInv(L, 1, o) BY <1>11, <1>13, <1>14 DEF TensorInv
  <1> QED BY <1>1, <1>5, <1>13, <1>15 DEF IndInv, g, o

\* NextFile keeps the invariant.
LEMMA NextFileStep ==
    ASSUME NEW g, g = Geometry, Sizes(g), NEW z, NEW o, OffsetsAssumption(o, z),
           NEW k \in 1..(Len(o) - 1), o[k][1] # o[k + 1][1],
           NEW s, StateInv(s, g), TensorInv(s, k, o),
           NEW h, h = reset_chunk_file(finish_chunk(s), o[k + 1][1], o[k + 1][2])
    PROVE  StateInv(h, g) /\ TensorInv(h, k + 1, o)
  <1> DEFINE f == finish_chunk(s)
             file == o[k + 1][1]
             offset == o[k + 1][2]
  <1>1. Len(o) \in Nat BY LenProperties DEF OffsetsAssumption
  <1>2. k \in 1..Len(o) /\ k + 1 \in 1..Len(o) /\ k \in Nat BY <1>1
  <1>3. o[k][1] \in Nat /\ file \in Nat /\ offset \in Nat BY <1>2, OffsetFacts
  <1>4. file = o[k][1] + 1 BY DEF OffsetsAssumption
  <1>5. /\ OpenInv(s) /\ s.file = o[k][1] /\ s.tensor_id = k - 1 - o[k][1] BY DEF TensorInv
  <1>6. /\ StateInv(f, g) /\ AllClosed(f) /\ f.size < RankAlignment
        /\ f.file = s.file /\ f.tensor_id = s.tensor_id
        /\ \A t \in Lap(f) : f.tensors[t].doff <= f.doff
    BY <1>5, FinishKeeps
  <1>7. h = reset_chunk_file(f, file, offset) OBVIOUS
  <1> HIDE DEF f, file, offset
  <1>8. LocalsInv(f, g) BY <1>6 DEF StateInv
  <1>9. f \in Locals(g.tensors) /\ f.bad = FALSE /\ f.doff \in Nat
    BY <1>8 DEF LocalsInv, Locals
  <1>10. f \in Early(g.tensors) BY <1>9 DEF Locals, Early
  <1>11. Moves(f, h, file, offset, g) /\ f.doff < h.doff
    BY <1>3, <1>6, <1>7, <1>9, <1>10, ResetMoves
  <1>12. f.file < file BY <1>3, <1>4, <1>5, <1>6
  <1>13. StateInv(h, g) /\ OpenInv(h) BY <1>3, <1>6, <1>11, <1>12, MovesKeeps
  <1>14. /\ h.file = file /\ h.foff + h.size = offset /\ h.tensor_id = f.tensor_id
         /\ Follows(h, h.tensor_id, h.doff + h.size)
    BY <1>3, <1>9, <1>11, MoveFollows
  <1>15. h.tensor_id = (k + 1) - 1 - file BY <1>2, <1>3, <1>4, <1>5, <1>6, <1>14
  <1> QED BY <1>13, <1>14, <1>15 DEF TensorInv, file, offset

\* Where the tensor of size x goes: behind the previous one or on a new lap.
PlacedAt(s, r, x, g) ==
    r = IF s.doff + RoundUp(s.size + x, g.align) > g.room
        THEN reset_chunk_buffer_offset(finish_chunk(s), s.tensor_id) ELSE s

\* There the tensor fits, and the invariant holds.
LEMMA PlaceRoom ==
    ASSUME NEW g, g = Geometry, Sizes(g), NEW z \in Nat, NEW k, NEW o,
           g.room >= z + 3 * (FirstTensorAlignment + RankAlignment + g.align),
           NEW s, StateInv(s, g), TensorInv(s, k, o), NEW x \in 0..z,
           NEW r, PlacedAt(s, r, x, g)
    PROVE  /\ StateInv(r, g) /\ TensorInv(r, k, o)
           /\ r.doff + RoundUp(r.size + x, g.align) <= g.room
  <1>1. LocalsInv(s, g) BY DEF StateInv
  <1>2. s.size \in Nat /\ s.doff \in Nat /\ g.room \in Nat /\ g.align \in Nat \ {0}
    BY <1>1, SizesOrdered, Types
  <1> DEFINE u == RoundUp(s.size + x, g.align)
  <1>3. u \in Nat
    <2>1. s.size + x \in Nat BY <1>2
    <2> QED BY <1>2, <2>1, RoundUpFacts
  <1>4. CASE s.doff + u > g.room
    <2>1. r = reset_chunk_buffer_offset(finish_chunk(s), s.tensor_id) BY <1>4 DEF PlacedAt
    <2> QED BY <1>4, <2>1, WrapKeeps
  <1>5. CASE ~ (s.doff + u > g.room)
    <2>1. r = s BY <1>5 DEF PlacedAt
    <2> HIDE DEF u
    <2>2. s.doff + u <= g.room BY <1>2, <1>3, <1>5
    <2> QED BY <2>1, <2>2 DEF u
  <1> QED BY <1>4, <1>5

\* PlaceTensor keeps the invariant.
LEMMA PlaceStep ==
    ASSUME NEW g, g = Geometry, Sizes(g), NEW z \in Nat, NEW o, OffsetsAssumption(o, z),
           g.room >= z + 3 * (FirstTensorAlignment + RankAlignment + g.align),
           g.tensors = Len(o) - (o[Len(o)][1] + 1),
           NEW k \in 1..(Len(o) - 1), o[k][1] = o[k + 1][1],
           NEW s, StateInv(s, g), TensorInv(s, k, o),
           NEW x, x = o[k + 1][2] - o[k][2],
           NEW r, PlacedAt(s, r, x, g),
           NEW b, b = (r.bad \/ s.size # o[k][2] - s.foff \/ x > g.room),
           NEW n, n = [r EXCEPT !.left = x, !.place = o[k][2] - r.foff + r.doff, !.bad = b]
    PROVE  StateInv(n, g) /\ SplitInv(n, k, o, g)
  <1>1. Len(o) \in Nat BY LenProperties DEF OffsetsAssumption
  <1>2. k \in 1..Len(o) /\ k + 1 \in 1..Len(o) BY <1>1
  <1>3. o[k][2] \in Nat BY <1>2, OffsetFacts
  <1>4. x \in 0..z BY <1>1, TensorFacts
  <1>5. LocalsInv(s, g) /\ s.foff + s.size = o[k][2] BY DEF StateInv, TensorInv
  <1>6. s.foff \in Nat /\ s.size \in Nat /\ g.room \in Nat /\ g.align \in Nat \ {0}
        /\ RankAlignment \in Nat /\ FirstTensorAlignment \in Nat
    BY <1>5, SizesOrdered, Types
  <1>7. /\ StateInv(r, g) /\ TensorInv(r, k, o)
        /\ r.doff + RoundUp(r.size + x, g.align) <= g.room
    BY <1>4, PlaceRoom, ZenonT(60)
  <1>8. b = FALSE
    <2>1. r.bad = FALSE BY <1>7 DEF StateInv, LocalsInv, Locals
    <2>2. s.size = o[k][2] - s.foff BY <1>3, <1>5, <1>6
    <2>3. x <= g.room BY <1>4, <1>6, SMTT(40)
    <2>4. ~ (x > g.room) BY <1>4, <1>6, <2>3
    <2> QED BY <2>1, <2>2, <2>4
  <1>9. LocalsInv(r, g) /\ r.foff + r.size = o[k][2] BY <1>7 DEF StateInv, TensorInv
  <1>10. x \in Nat BY <1>4
  <1>11. Starts(r, n, x, g) BY <1>3, <1>8, <1>9, <1>10, PlaceStarts, Zenon
  <1>12. n.left = x BY <1>11 DEF Starts
  <1> QED BY <1>7, <1>11, <1>12, StartKeeps

\* FinishLayout keeps the invariant and gives every tensor its watermark.
LEMMA LayoutStep ==
    ASSUME NEW g, g = Geometry, Sizes(g), NEW o, NEW z, OffsetsAssumption(o, z),
           g.tensors = Len(o) - (o[Len(o)][1] + 1),
           NEW s, StateInv(s, g), TensorInv(s, Len(o), o),
           NEW h, h = reset_chunk_buffer_offset(
                         reset_chunk_buffer_offset(finish_chunk(s), s.tensor_id),
                         s.tensor_id)
    PROVE  StateInv(h, g) /\ DoneInv(h, g) /\ h.file = o[Len(o)][1]
  <1> DEFINE f == finish_chunk(s)
             r == reset_chunk_buffer_offset(f, s.tensor_id)
  <1>1. OpenInv(s) /\ s.tensor_id = Len(o) - 1 - o[Len(o)][1] /\ s.file = o[Len(o)][1]
    BY DEF TensorInv
  <1>2. /\ StateInv(f, g) /\ AllClosed(f) /\ f.size < RankAlignment
        /\ f.tensor_id = s.tensor_id /\ f.file = s.file
    BY <1>1, FinishKeeps
  <1>3. h = reset_chunk_buffer_offset(r, s.tensor_id) OBVIOUS
  <1> HIDE DEF f
  <1>4. Laps(f, r, g)
    <2>1. LocalsInv(f, g) BY <1>2 DEF StateInv
    <2> QED BY <1>2, <2>1, ResetLaps
  <1> HIDE DEF r
  <1>5. StateInv(r, g) /\ AllClosed(r) BY <1>2, <1>4, LapsKeeps
  <1>6. r.size = f.size /\ r.file = f.file /\ r.tensor_id = s.tensor_id /\ r.left_most = s.tensor_id
    BY <1>2, <1>4 DEF Laps
  <1>7. Laps(r, h, g)
    <2>1. LocalsInv(r, g) BY <1>5 DEF StateInv
    <2> QED BY <1>2, <1>3, <1>6, <2>1, ResetLaps
  <1>8. StateInv(h, g) /\ AllClosed(h) BY <1>2, <1>5, <1>6, <1>7, LapsKeeps
  <1>9. h.tensor_id = s.tensor_id /\ h.in_buffer = s.tensor_id /\ h.file = s.file
    BY <1>2, <1>6, <1>7 DEF Laps, Drops
  <1>10. s.tensor_id = g.tensors
    <2>1. Len(o) \in Nat /\ Len(o) > 0 BY LenProperties DEF OffsetsAssumption
    <2>2. Len(o) \in 1..Len(o) BY <2>1
    <2>3. o[Len(o)][1] \in Nat BY <2>2, OffsetFacts
    <2> QED BY <1>1, <2>1, <2>3
  <1> QED BY <1>1, <1>8, <1>9, <1>10 DEF DoneInv

\* Every action keeps the invariant.
LEMMA StepIndInv ==
    ASSUME AlignmentAssumption, InputsAssumption, IndInv, [Next]_vars
    PROVE  IndInv'
  <1> DEFINE g == Geometry
             o == offsets
             z == open_args.buffer_size
  <1>1. /\ open_args \in Inputs /\ i \in 1..Len(o) /\ pc \in {"tensor", "split", "done"}
        /\ StateInv(L, g)
        /\ pc = "tensor" => TensorInv(L, i, o)
        /\ pc = "split" => SplitInv(L, i, o, g)
        /\ pc = "done" => DoneInv(L, g) /\ L.file = o[Len(o)][1]
    BY DEF IndInv, File
  <1>2. /\ Sizes(g) /\ OffsetsAssumption(o, z) /\ z \in Nat
        /\ g.room >= z + 3 * (FirstTensorAlignment + RankAlignment + g.align)
    BY <1>1, GeometryFacts
  <1>3. /\ g.align = WorldChunkAlignment /\ g.chunk = WorldChunk /\ g.room = buffer
        /\ g.tensors = Len(o) - (o[Len(o)][1] + 1)
    BY DEF Geometry, NumTensors, NumFiles, File
  <1>4. Len(o) \in Nat \ {0} BY <1>1, <1>2, OffsetFacts
  <1>5. i \in Nat /\ (i < Len(o) => i \in 1..(Len(o) - 1) /\ i + 1 \in 1..Len(o)) BY <1>1, <1>4
  <1>6. open_args' = open_args => Geometry' = g /\ offsets' = o
    BY DEF Geometry, WorldChunkAlignment, WorldChunk, RankChunk, WorldSize, buffer,
           PaddedSize, NumTensors, NumFiles, File, offsets
  <1>7. g = Geometry /\ o = offsets OBVIOUS
  <1> HIDE DEF g, o, z
  <1>8. CASE NextFile
    <2>1. /\ pc = "tensor" /\ i < Len(o) /\ o[i][1] # o[i + 1][1]
          /\ L' = reset_chunk_file(finish_chunk(L), o[i + 1][1], o[i + 1][2])
          /\ i' = i + 1 /\ open_args' = open_args /\ pc' = pc
      BY <1>7, <1>8 DEF NextFile, File, Offset
    <2>2. StateInv(L', g) /\ TensorInv(L', i + 1, o)
      BY <1>1, <1>2, <1>5, <1>7, <2>1, NextFileStep
    <2> QED BY <1>1, <1>5, <1>6, <2>1, <2>2 DEF IndInv, File
  <1>9. CASE PlaceTensor
    <2> DEFINE x == o[i + 1][2] - o[i][2]
               r == IF L.doff + RoundUp(L.size + x, g.align) > g.room
                    THEN reset_chunk_buffer_offset(finish_chunk(L), L.tensor_id) ELSE L
               b == r.bad \/ L.size # o[i][2] - L.foff \/ x > g.room
    <2>1. /\ pc = "tensor" /\ i < Len(o) /\ o[i][1] = o[i + 1][1]
          /\ i' = i /\ open_args' = open_args /\ pc' = "split"
      BY <1>7, <1>9 DEF PlaceTensor, File
    <2>2. L' = [r EXCEPT !.left = x, !.place = o[i][2] - r.foff + r.doff, !.bad = b]
      BY <1>3, <1>7, <1>9 DEF PlaceTensor, Offset
    <2>3. PlacedAt(L, r, x, g) BY DEF PlacedAt
    <2>4. x = o[i + 1][2] - o[i][2] OBVIOUS
    <2>5. b = (r.bad \/ L.size # o[i][2] - L.foff \/ x > g.room) OBVIOUS
    <2> HIDE DEF x, r, b
    <2>6. StateInv(L', g) /\ SplitInv(L', i, o, g)
      BY <1>1, <1>2, <1>3, <1>5, <1>7, <2>1, <2>2, <2>3, <2>4, <2>5, PlaceStep
    <2> QED BY <1>1, <1>6, <2>1, <2>6 DEF IndInv, File
  <1>10. CASE SplitTensor
    <2> DEFINE e == [L EXCEPT !.left = L.left - (g.chunk - L.size), !.size = g.chunk]
    <2>1. /\ pc = "split" /\ L.size + L.left > g.chunk
          /\ i' = i /\ open_args' = open_args /\ pc' = pc
      BY <1>3, <1>10 DEF SplitTensor
    <2>2. L' = finish_chunk(e) BY <1>3, <1>10 DEF SplitTensor
    <2>3. SplitInv(L, i, o, g) /\ LocalsInv(L, g) BY <1>1, <2>1 DEF StateInv
    <2>4. Fills(L, e, g) BY <1>2, <2>1, <2>3, SplitFills
    <2>5. Finishes(e, L') BY <2>2 DEF Finishes
    <2> HIDE DEF e
    <2>6. i < Len(o) BY <2>3 DEF SplitInv
    <2>7. o[i][2] \in Nat /\ o[i + 1][2] \in Nat BY <1>1, <1>2, <1>5, <2>6, OffsetFacts
    <2>8. StateInv(L', g) /\ SplitInv(L', i, o, g)
      BY <1>1, <1>2, <1>7, <2>1, <2>3, <2>4, <2>5, <2>7, SplitKeeps
    <2> QED BY <1>1, <1>6, <2>1, <2>8 DEF IndInv, File
  <1>11. CASE FinishTensor
    <2>1. /\ pc = "split" /\ L.size + L.left <= g.chunk
          /\ i' = i + 1 /\ open_args' = open_args /\ pc' = "tensor"
      BY <1>3, <1>11 DEF FinishTensor
    <2>2. L' = [L EXCEPT !.size = L.size + L.left,
                         !.tensors[L.tensor_id] = NewTensor(L, i, o),
                         !.tensor_id = L.tensor_id + 1, !.left = 0]
      BY <1>7, <1>11 DEF FinishTensor, NewTensor, Num, File, Offset
    <2>3. SplitInv(L, i, o, g) BY <1>1, <2>1
    <2>4. i < Len(o) /\ o[i][1] = o[i + 1][1] BY <2>3 DEF SplitInv
    <2>5. o[i][1] \in Nat /\ o[i][2] \in Nat /\ o[i + 1][2] \in Nat
      BY <1>1, <1>2, <1>5, <2>4, OffsetFacts
    <2>6. o[i][2] <= o[i + 1][2]
      <3>1. o[i + 1][2] - o[i][2] \in 0..z BY <1>2, <1>4, <1>5, <2>4, TensorFacts
      <3> QED BY <1>2, <2>5, <3>1
    <2>7. StateInv(L', g) /\ TensorInv(L', i + 1, o)
      BY <1>1, <1>2, <1>5, <2>1, <2>2, <2>3, <2>5, <2>6, EndKeeps
    <2> QED BY <1>1, <1>5, <1>6, <2>1, <2>4, <2>7 DEF IndInv, File
  <1>12. CASE FinishLayout
    <2>1. /\ pc = "tensor" /\ i = Len(o)
          /\ L' = reset_chunk_buffer_offset(
                     reset_chunk_buffer_offset(finish_chunk(L), L.tensor_id), L.tensor_id)
          /\ i' = i /\ open_args' = open_args /\ pc' = "done"
      BY <1>7, <1>12 DEF FinishLayout
    <2>2. TensorInv(L, Len(o), o) BY <1>1, <2>1
    <2>3. StateInv(L', g) /\ DoneInv(L', g) /\ L'.file = o[Len(o)][1]
      BY <1>1, <1>2, <1>3, <1>7, <2>1, <2>2, LayoutStep
    <2> QED BY <1>1, <1>6, <2>1, <2>3 DEF IndInv, File
  <1>13. CASE UNCHANGED vars
    <2>1. open_args' = open_args /\ i' = i /\ pc' = pc /\ L' = L BY <1>13 DEF vars
    <2> QED BY <1>1, <1>6, <2>1 DEF IndInv, File
  <1>14. CASE Done BY <1>13, <1>14 DEF Done
  <1> QED BY <1>8, <1>9, <1>10, <1>11, <1>12, <1>13, <1>14 DEF Next

-----------------------------------------------------------------------------
(* What the finished layout promises.                                        *)

\* A chunk with byte b of a tensor covers the byte's place on the device.
LEMMA ByteSpan ==
    ASSUME NEW te, NEW ch, NEW b \in Nat, HasByte(te, b, ch),
           te.foff \in Nat, te.doff \in Nat, te.size \in Nat, b < te.size,
           ch.foff \in Nat, ch.doff \in Nat, ch.size \in Nat
    PROVE  /\ ch.doff <= te.doff + b /\ te.doff + b < ch.doff + ch.size
           /\ Carries(te, ch)
  <1>1. /\ ch.file = te.file /\ ch.doff - ch.foff = te.doff - te.foff
        /\ ch.foff <= te.foff + b /\ te.foff + b < ch.foff + ch.size
    BY DEF HasByte, Shift, End
  <1>2. ch.doff <= te.doff + b /\ te.doff + b < ch.doff + ch.size BY <1>1
  <1>3. ch.foff < te.foff + te.size /\ te.foff < ch.foff + ch.size BY <1>1
  <1> QED BY <1>1, <1>2, <1>3 DEF Carries, Shift, End

\* A finished layout: every tensor is placed and has its watermark.
Finished(s, g) == Sizes(g) /\ StateInv(s, g) /\ DoneInv(s, g)

\* In a finished layout every tensor is placed and its chunks are read up to last.
LEMMA FinishedFacts ==
    ASSUME NEW s, NEW g, Finished(s, g), NEW t \in 0..(g.tensors - 1)
    PROVE  /\ t \in Placed(s) /\ t \in 0..(s.in_buffer - 1)
           /\ Horizon(s, t) = s.tensors[t].prefetch
           /\ s.tensors[t].size \in Nat /\ s.tensors[t].foff \in Nat
           /\ s.tensors[t].doff \in Nat /\ s.tensors[t].last \in Nat
           /\ s.tensors[t].prefetch \in Int
           /\ s.tensors[t].last <= s.tensors[t].prefetch
           /\ s.tensors[t].prefetch < Num(s) /\ Num(s) \in Nat
           /\ \A c \in Closed(s) :
                 /\ ChunkAt(s, c).foff \in Nat /\ ChunkAt(s, c).doff \in Nat
                 /\ ChunkAt(s, c).size \in Nat /\ c \in Nat /\ c < Num(s)
                 /\ Carries(s.tensors[t], ChunkAt(s, c)) => c <= s.tensors[t].last
  <1>1. Sizes(g) /\ LocalsInv(s, g) /\ CarryInv(s) /\ MarkInv(s)
    BY DEF Finished, StateInv
  <1>2. s.in_buffer = g.tensors /\ s.tensor_id = g.tensors BY DEF Finished, DoneInv
  <1>3. g.tensors \in Nat BY <1>1, SizesOrdered
  <1>4. t \in Placed(s) /\ t \in 0..(s.in_buffer - 1) /\ t < s.in_buffer
    BY <1>2, <1>3 DEF Placed
  <1>5. /\ s.tensors[t].size \in Nat /\ s.tensors[t].foff \in Nat
        /\ s.tensors[t].doff \in Nat /\ s.tensors[t].last \in Nat
        /\ s.tensors[t].prefetch \in Int /\ Num(s) \in Nat
    BY <1>1, <1>3, Types
  <1>6. s.tensors[t].last <= s.tensors[t].prefetch /\ s.tensors[t].prefetch < Num(s)
    BY <1>1, <1>4 DEF MarkInv
  <1>7. ASSUME NEW c \in Closed(s)
        PROVE  /\ ChunkAt(s, c).foff \in Nat /\ ChunkAt(s, c).doff \in Nat
               /\ ChunkAt(s, c).size \in Nat /\ c \in Nat /\ c < Num(s)
               /\ Carries(s.tensors[t], ChunkAt(s, c)) => c <= s.tensors[t].last
    <2>1. /\ ChunkAt(s, c).foff \in Nat /\ ChunkAt(s, c).doff \in Nat
          /\ ChunkAt(s, c).size \in Nat
      BY <1>1, <1>3, Types
    <2>2. c \in Nat /\ c < Num(s) BY <1>5 DEF Closed
    <2>3. c > s.tensors[t].last => ~ Carries(s.tensors[t], ChunkAt(s, c))
      BY <1>1, <1>4 DEF CarryInv
    <2>4. c > s.tensors[t].last \/ c <= s.tensors[t].last BY <1>5, <2>2
    <2> QED BY <2>1, <2>2, <2>3, <2>4
  <1>8. Horizon(s, t) = s.tensors[t].prefetch BY <1>4 DEF Horizon
  <1> QED BY <1>4, <1>5, <1>6, <1>7, <1>8

\* No chunk up to the watermark covers a byte that an earlier chunk has brought.
LEMMA Undisturbed ==
    ASSUME NEW s, NEW g, Finished(s, g), NEW t \in 0..(g.tensors - 1), NEW b \in Nat,
           b < s.tensors[t].size, NEW c \in Closed(s), HasByte(s.tensors[t], b, ChunkAt(s, c)),
           NEW d \in Closed(s), c < d, d <= s.tensors[t].prefetch
    PROVE  \/ s.tensors[t].doff + b < ChunkAt(s, d).doff
           \/ Top(ChunkAt(s, d), g) <= s.tensors[t].doff + b
  <1> DEFINE te == s.tensors[t]
             ch == ChunkAt(s, c)
             dh == ChunkAt(s, d)
  <1>1. Sizes(g) /\ LapInv(s, g) BY DEF Finished, StateInv
  <1>2. /\ t \in Placed(s) /\ Horizon(s, t) = te.prefetch
        /\ te.size \in Nat /\ te.foff \in Nat /\ te.doff \in Nat
        /\ ch.foff \in Nat /\ ch.doff \in Nat /\ ch.size \in Nat
        /\ dh.doff \in Nat /\ dh.size \in Nat
    BY FinishedFacts
  <1>3. g.align \in Nat \ {0} BY <1>1, SizesOrdered
  <1> DEFINE u == RoundUp(dh.size, g.align)
  <1>4. u \in Nat BY <1>2, <1>3, RoundUpFacts
  <1>5. Top(dh, g) = dh.doff + u BY DEF Top
  <1> HIDE DEF te, ch, dh, u
  <1>6. te.doff + b < ch.doff + ch.size /\ Carries(te, ch)
    BY <1>2, ByteSpan DEF te, ch
  <1>7. Apart(te, ch, dh, g) BY <1>1, <1>2, <1>6 DEF LapInv, te, ch, dh
  <1>8. ch.doff + ch.size <= dh.doff \/ dh.doff + u <= te.doff BY <1>5, <1>7 DEF Apart
  <1>9. te.doff + b < dh.doff \/ dh.doff + u <= te.doff + b BY <1>2, <1>4, <1>6, <1>8
  <1> QED BY <1>5, <1>9 DEF te, dh

\* Two chunks never have the same byte of a tensor.
LEMMA NotTwice ==
    ASSUME NEW s, NEW g, Finished(s, g), NEW t \in 0..(g.tensors - 1), NEW b \in Nat,
           b < s.tensors[t].size,
           NEW c \in Closed(s), HasByte(s.tensors[t], b, ChunkAt(s, c)),
           NEW d \in Closed(s), HasByte(s.tensors[t], b, ChunkAt(s, d))
    PROVE  ~ (c < d)
  <1> SUFFICES ASSUME c < d PROVE FALSE OBVIOUS
  <1> DEFINE te == s.tensors[t]
             dh == ChunkAt(s, d)
             u == RoundUp(dh.size, g.align)
  <1>1. /\ te.size \in Nat /\ te.foff \in Nat /\ te.doff \in Nat
        /\ te.last \in Nat /\ te.prefetch \in Int /\ te.last <= te.prefetch
        /\ dh.foff \in Nat /\ dh.doff \in Nat /\ dh.size \in Nat
        /\ d \in Nat /\ (Carries(te, dh) => d <= te.last)
    BY FinishedFacts
  <1>2. g.align \in Nat \ {0} BY SizesOrdered DEF Finished
  <1>3. u \in Nat /\ dh.size <= u BY <1>1, <1>2, RoundUpFacts
  <1>4. Top(dh, g) = dh.doff + u BY DEF Top
  <1>5. dh.doff <= te.doff + b /\ te.doff + b < dh.doff + dh.size /\ Carries(te, dh)
    BY <1>1, ByteSpan
  <1>6. d <= te.prefetch BY <1>1, <1>5
  <1>7. te.doff + b < dh.doff \/ Top(dh, g) <= te.doff + b BY <1>6, Undisturbed
  <1> HIDE DEF te, dh, u
  <1> QED BY <1>1, <1>3, <1>4, <1>5, <1>7

\* The last state is a finished layout.
LEMMA DoneFacts ==
    ASSUME AlignmentAssumption, InputsAssumption, IndInv, pc = "done"
    PROVE  /\ Finished(L, Geometry) /\ Geometry.tensors = NumTensors
           /\ Geometry.align = WorldChunkAlignment /\ Geometry.room = buffer
           /\ Tensors = 0..(Geometry.tensors - 1) /\ Chunks = Closed(L)
  <1>1. open_args \in Inputs /\ StateInv(L, Geometry) /\ DoneInv(L, Geometry) BY DEF IndInv
  <1>2. Sizes(Geometry) BY <1>1, GeometryFacts
  <1>3. L.tensors \in [0..(Geometry.tensors - 1) -> TensorType]
    BY <1>1 DEF StateInv, LocalsInv, Locals
  <1>4. Tensors = 0..(Geometry.tensors - 1) BY <1>3 DEF Tensors
  <1>5. Chunks = Closed(L) BY DEF Chunks, Closed, Num
  <1>6. /\ Geometry.tensors = NumTensors /\ Geometry.align = WorldChunkAlignment
        /\ Geometry.room = buffer
    BY DEF Geometry
  <1> QED BY <1>1, <1>2, <1>4, <1>5, <1>6 DEF Finished

\* The carriers of a byte are the chunks that have it.
LEMMA CarriersAre ==
    ASSUME AlignmentAssumption, InputsAssumption, IndInv, pc = "done",
           NEW t \in Tensors, NEW b \in 0..(L.tensors[t].size - 1)
    PROVE  Carriers(t, b) = {c \in Closed(L) : HasByte(L.tensors[t], b, ChunkAt(L, c))}
  <1> DEFINE te == L.tensors[t]
  <1>1. Finished(L, Geometry) /\ t \in 0..(Geometry.tensors - 1) /\ Chunks = Closed(L)
    BY DoneFacts
  <1>2. te.size \in Nat /\ te.foff \in Nat /\ te.doff \in Nat BY <1>1, FinishedFacts
  <1>3. b \in Int BY <1>2
  <1>4. ASSUME NEW c \in Closed(L)
        PROVE  HasByte(te, b, ChunkAt(L, c)) <=>
                  LET chunk == ChunkAt(L, c)
                      pos   == te.foff + b - chunk.foff
                  IN  /\ chunk.file = te.file
                      /\ pos \in 0..(chunk.size - 1)
                      /\ chunk.doff + pos = te.doff + b
    <2> DEFINE ch == ChunkAt(L, c)
               pos == te.foff + b - ch.foff
    <2>1. ch.foff \in Nat /\ ch.doff \in Nat /\ ch.size \in Nat BY <1>1, FinishedFacts
    <2> HIDE DEF ch, te
    <2>2. pos \in Int BY <1>2, <1>3, <2>1
    <2>3. pos \in 0..(ch.size - 1)
            <=> (ch.foff <= te.foff + b /\ te.foff + b < ch.foff + ch.size)
      BY <1>2, <1>3, <2>1
    <2>4. ch.doff + pos = te.doff + b <=> ch.doff - ch.foff = te.doff - te.foff
      BY <1>2, <1>3, <2>1
    <2> HIDE DEF pos
    <2>5. HasByte(te, b, ch)
            <=> (ch.file = te.file /\ pos \in 0..(ch.size - 1) /\ ch.doff + pos = te.doff + b)
      BY <2>3, <2>4 DEF HasByte, Shift, End
    <2> QED BY <2>5 DEF ch, pos
  <1> QED BY <1>1, <1>4 DEF Carriers

\* A copy writes at least the bytes of its chunk and at most its padded slices.
LEMMA WritesAre ==
    ASSUME AlignmentAssumption, InputsAssumption, IndInv, pc = "done", NEW c \in Closed(L)
    PROVE  \E w \in Nat :
              /\ Writes[c] = ChunkAt(L, c).doff..(ChunkAt(L, c).doff + w - 1)
              /\ ChunkAt(L, c).size <= w
              /\ ChunkAt(L, c).doff + w <= Top(ChunkAt(L, c), Geometry)
              /\ ChunkAt(L, c).doff \in Nat /\ ChunkAt(L, c).size \in Nat
              /\ Top(ChunkAt(L, c), Geometry) \in Nat
  <1> DEFINE ch == ChunkAt(L, c)
             u == RoundUp(ch.size, WorldChunkAlignment)
             w == IF WorldSize = 1 THEN ch.size ELSE u
  <1>1. Finished(L, Geometry) /\ Chunks = Closed(L) /\ Geometry.align = WorldChunkAlignment
    BY DoneFacts
  <1>2. Sizes(Geometry) /\ LocalsInv(L, Geometry) BY <1>1 DEF Finished, StateInv
  <1>3. ch.doff \in Nat /\ ch.size \in Nat BY <1>2, Types, SizesOrdered
  <1>4. WorldChunkAlignment \in Nat \ {0} BY <1>1, <1>2, SizesOrdered
  <1>5. u \in Nat /\ ch.size <= u BY <1>3, <1>4, RoundUpFacts
  <1>6. Writes[c] = ch.doff..(ch.doff + w - 1) BY <1>1 DEF Writes
  <1>7. Top(ch, Geometry) = ch.doff + u BY <1>1 DEF Top
  <1> HIDE DEF ch, u
  <1>8. w \in Nat /\ ch.size <= w /\ w <= u BY <1>3, <1>5
  <1> HIDE DEF w
  <1>9. ch.doff + w <= Top(ch, Geometry) /\ Top(ch, Geometry) \in Nat
    BY <1>3, <1>5, <1>7, <1>8
  <1> QED BY <1>3, <1>6, <1>8, <1>9 DEF ch

\* Every pair of Payload is a byte in a chunk.
LEMMA PayloadPairs ==
    ASSUME AlignmentAssumption, InputsAssumption, IndInv, pc = "done",
           NEW t \in Tensors, NEW p \in Payload[t]
    PROVE  \E b \in Nat : /\ b < L.tensors[t].size /\ p[1] = L.tensors[t].doff + b
                          /\ p[2] \in Closed(L)
                          /\ HasByte(L.tensors[t], b, ChunkAt(L, p[2]))
  <1>1. PICK b \in 0..(L.tensors[t].size - 1) :
          p \in {<<L.tensors[t].doff + b, c>> : c \in Carriers(t, b)}
    BY DEF Payload
  <1>2. PICK c \in Carriers(t, b) : p = <<L.tensors[t].doff + b, c>> BY <1>1
  <1>3. c \in Closed(L) /\ HasByte(L.tensors[t], b, ChunkAt(L, c)) BY <1>2, CarriersAre
  <1>4. p[1] = L.tensors[t].doff + b /\ p[2] = c BY <1>2
  <1>5. L.tensors[t].size \in Nat BY DoneFacts, FinishedFacts
  <1>6. b \in Nat /\ b < L.tensors[t].size BY <1>5
  <1> QED BY <1>3, <1>4, <1>6

-----------------------------------------------------------------------------
(* compute_layout at the end, from the invariant.                            *)

\* The contract, part by part.
LEMMA ContractFromInv ==
    ASSUME AlignmentAssumption, InputsAssumption, IndInv
    PROVE  ContractHolds
  <1> SUFFICES ASSUME pc = "done"
               PROVE  LayoutSound(NumTensors, Len(L.chunks),
                         [t \in Tensors |-> L.tensors[t].last],
                         [t \in Tensors |-> L.tensors[t].prefetch], Writes, Payload)
    BY DEF ContractHolds
  <1> DEFINE g == Geometry
             last == [t \in Tensors |-> L.tensors[t].last]
             prefetch == [t \in Tensors |-> L.tensors[t].prefetch]
  <1>1. /\ Finished(L, g) /\ g.tensors = NumTensors
        /\ Tensors = 0..(NumTensors - 1) /\ Num(L) = Len(L.chunks)
    BY DoneFacts DEF Num
  <1>2. \A t \in 0..(NumTensors - 1) :
          last[t] = L.tensors[t].last /\ prefetch[t] = L.tensors[t].prefetch
    BY <1>1
  <1> HIDE DEF g, last, prefetch
  <1>3. WatermarksOrdered(NumTensors, Num(L), last, prefetch)
    <2>1. ASSUME NEW t \in 0..(NumTensors - 1)
          PROVE  /\ last[t] \in 0..(Num(L) - 1) /\ prefetch[t] \in 0..(Num(L) - 1)
                 /\ last[t] <= prefetch[t]
      <3>1. /\ L.tensors[t].last \in Nat /\ L.tensors[t].prefetch \in Int /\ Num(L) \in Nat
            /\ L.tensors[t].last <= L.tensors[t].prefetch /\ L.tensors[t].prefetch < Num(L)
        BY <1>1, FinishedFacts
      <3> QED BY <1>2, <3>1
    <2>2. ASSUME NEW t \in 0..(NumTensors - 1), NEW u \in 0..(NumTensors - 1), t <= u
          PROVE  prefetch[t] <= prefetch[u]
      <3>1. t \in 0..(L.in_buffer - 1) /\ u \in 0..(L.in_buffer - 1) BY <1>1, FinishedFacts
      <3>2. MarkInv(L) BY <1>1 DEF Finished, StateInv
      <3> QED BY <1>2, <2>2, <3>1, <3>2 DEF MarkInv
    <2> QED BY <2>1, <2>2 DEF WatermarksOrdered
  <1>4. PayloadComplete(NumTensors, last, Writes, Payload)
    <2> SUFFICES ASSUME NEW t \in 0..(NumTensors - 1), NEW p \in Payload[t]
                 PROVE  p[2] \in 0..last[t] /\ p[1] \in Writes[p[2]]
      BY DEF PayloadComplete
    <2> DEFINE te == L.tensors[t]
               c == p[2]
               ch == ChunkAt(L, c)
    <2>1. PICK b \in Nat : b < te.size /\ p[1] = te.doff + b /\ c \in Closed(L)
                           /\ HasByte(te, b, ch)
      BY <1>1, PayloadPairs
    <2>2. /\ te.size \in Nat /\ te.foff \in Nat /\ te.doff \in Nat /\ te.last \in Nat
          /\ ch.foff \in Nat /\ ch.doff \in Nat /\ ch.size \in Nat
          /\ c \in Nat /\ (Carries(te, ch) => c <= te.last)
      BY <1>1, <2>1, FinishedFacts
    <2>3. ch.doff <= te.doff + b /\ te.doff + b < ch.doff + ch.size /\ Carries(te, ch)
      BY <2>1, <2>2, ByteSpan
    <2>4. PICK w \in Nat : Writes[c] = ch.doff..(ch.doff + w - 1) /\ ch.size <= w
      BY <2>1, WritesAre
    <2>5. c \in 0..last[t] BY <1>2, <2>2, <2>3
    <2> HIDE DEF te, c, ch
    <2>6. te.doff + b \in ch.doff..(ch.doff + w - 1) BY <2>2, <2>3, <2>4
    <2>7. p[1] \in Writes[c] BY <2>1, <2>4, <2>6
    <2> QED BY <2>5, <2>7 DEF c
  <1>5. WatermarkProtects(NumTensors, prefetch, Writes, Payload)
    <2> SUFFICES ASSUME NEW t \in 0..(NumTensors - 1), NEW p \in Payload[t],
                        NEW d \in (p[2] + 1)..prefetch[t]
                 PROVE  p[1] \notin Writes[d]
      BY DEF WatermarkProtects
    <2> DEFINE te == L.tensors[t]
               c == p[2]
               dh == ChunkAt(L, d)
    <2>1. PICK b \in Nat : b < te.size /\ p[1] = te.doff + b /\ c \in Closed(L)
                           /\ HasByte(te, b, ChunkAt(L, c))
      BY <1>1, PayloadPairs
    <2>2. te.doff \in Nat /\ te.prefetch \in Int /\ te.prefetch < Num(L) /\ Num(L) \in Nat
          /\ c \in Nat
      BY <1>1, <2>1, FinishedFacts
    <2>3. d \in (c + 1)..te.prefetch BY <1>2
    <2>4. d \in Closed(L) /\ c < d /\ d <= te.prefetch
      <3> HIDE DEF te, c
      <3> QED BY <2>2, <2>3 DEF Closed
    <2>5. te.doff + b < dh.doff \/ Top(dh, g) <= te.doff + b
      BY <1>1, <2>1, <2>4, Undisturbed
    <2>6. PICK w \in Nat : /\ Writes[d] = dh.doff..(dh.doff + w - 1)
                           /\ dh.doff + w <= Top(dh, g)
                           /\ dh.doff \in Nat /\ Top(dh, g) \in Nat
      BY <2>4, WritesAre DEF g
    <2> HIDE DEF te, c, dh
    <2>7. te.doff + b \notin dh.doff..(dh.doff + w - 1) BY <2>2, <2>5, <2>6
    <2> QED BY <2>1, <2>6, <2>7
  <1>6. LayoutSound(NumTensors, Len(L.chunks), last, prefetch, Writes, Payload)
    BY <1>1, <1>3, <1>4, <1>5 DEF LayoutSound
  <1> QED BY <1>6 DEF last, prefetch

\* One carrier: there is one by ByteInv, and not two by NotTwice.
LEMMA BytesFromInv ==
    ASSUME AlignmentAssumption, InputsAssumption, IndInv
    PROVE  BytesMappedOnce
  <1> SUFFICES ASSUME pc = "done", NEW t \in Tensors, NEW b \in 0..(L.tensors[t].size - 1)
               PROVE  /\ Cardinality(Carriers(t, b)) = 1
                      /\ b = L.tensors[t].size - 1 => Carriers(t, b) = {L.tensors[t].last}
    BY DEF BytesMappedOnce
  <1> DEFINE te == L.tensors[t]
             g == Geometry
             S == {c \in Closed(L) : HasByte(te, b, ChunkAt(L, c))}
  <1>1. Finished(L, g) /\ t \in 0..(g.tensors - 1) BY DoneFacts
  <1>2. Carriers(t, b) = S BY CarriersAre
  <1>3. /\ t \in Placed(L) /\ te.size \in Nat /\ te.last \in Nat /\ te.prefetch \in Int
        /\ te.last <= te.prefetch /\ te.prefetch < Num(L) /\ Num(L) \in Nat
    BY <1>1, FinishedFacts
  <1> HIDE DEF g
  <1>4. b \in Nat /\ b < te.size BY <1>3
  <1>5. ASSUME NEW c \in 0..te.last PROVE c \in Closed(L) /\ AnyChunk(L, c) = ChunkAt(L, c)
    <2>1. c \in Nat /\ c < Num(L) /\ c \in 0..(Num(L) - 1) BY <1>3
    <2> QED BY <2>1 DEF Closed, AnyChunk
  <1>6. ByteInv(L) BY <1>1 DEF Finished, StateInv
  <1>7. PICK c \in S : TRUE
    <2>1. PICK c \in 0..te.last : HasByte(te, b, AnyChunk(L, c)) BY <1>3, <1>6 DEF ByteInv
    <2> QED BY <1>5, <2>1
  <1>8. ASSUME NEW d \in S, NEW e \in S PROVE d = e
    <2>1. ~ (d < e) /\ ~ (e < d) BY <1>1, <1>4, NotTwice
    <2>2. d \in Int /\ e \in Int BY <1>3 DEF Closed
    <2> QED BY <2>1, <2>2
  <1>9. ASSUME b = te.size - 1 PROVE te.last \in S
    <2>1. te.size > 0 BY <1>3, <1>4
    <2>2. HasByte(te, b, AnyChunk(L, te.last)) BY <1>3, <1>6, <1>9, <2>1 DEF ByteInv
    <2>3. te.last \in 0..te.last BY <1>3
    <2> QED BY <1>5, <2>2, <2>3
  <1> HIDE DEF S, te
  <1>10. S = {c} BY <1>7, <1>8
  <1>11. Cardinality(S) = 1 BY <1>10, FS_Singleton
  <1>12. b = te.size - 1 => S = {te.last} BY <1>8, <1>9, <1>10
  <1> QED BY <1>2, <1>11, <1>12 DEF te

\* A chunk with a byte of a tensor is in RoomInv.
LEMMA BoundsFromInv ==
    ASSUME AlignmentAssumption, InputsAssumption, IndInv
    PROVE  TensorChunksInBounds
  <1> SUFFICES ASSUME pc = "done", NEW c \in Chunks, Holders(c) # {}
               PROVE  Writes[c] \subseteq 0..(buffer - 1)
    BY DEF TensorChunksInBounds
  <1> DEFINE g == Geometry
             ch == ChunkAt(L, c)
  <1>1. /\ Finished(L, g) /\ g.tensors = NumTensors /\ g.room = buffer
        /\ Tensors = 0..(g.tensors - 1) /\ c \in Closed(L)
    BY DoneFacts
  <1>2. PICK t \in Tensors : \E p \in Payload[t] : p[2] = c BY DEF Holders
  <1>3. PICK p \in Payload[t] : p[2] = c BY <1>2
  <1>4. PICK b \in Nat : b < L.tensors[t].size /\ HasByte(L.tensors[t], b, ch)
    BY <1>3, PayloadPairs
  <1>5. /\ L.tensors[t].size \in Nat /\ L.tensors[t].foff \in Nat /\ L.tensors[t].doff \in Nat
        /\ t \in Placed(L) /\ ch.foff \in Nat /\ ch.doff \in Nat /\ ch.size \in Nat
    BY <1>1, FinishedFacts
  <1>6. Carries(L.tensors[t], ch) BY <1>4, <1>5, ByteSpan
  <1>7. Sizes(g) /\ RoomInv(L, g) BY <1>1 DEF Finished, StateInv
  <1>8. Top(ch, g) <= g.room BY <1>1, <1>5, <1>6, <1>7 DEF RoomInv
  <1>9. PICK w \in Nat : /\ Writes[c] = ch.doff..(ch.doff + w - 1)
                         /\ ch.doff + w <= Top(ch, g) /\ Top(ch, g) \in Nat
    BY <1>1, WritesAre
  <1>10. g.room \in Nat BY <1>7, SizesOrdered
  <1>11. g.room = buffer BY <1>1
  <1> HIDE DEF g, ch
  <1>12. ch.doff..(ch.doff + w - 1) \subseteq 0..(buffer - 1)
    BY <1>5, <1>8, <1>9, <1>10, <1>11
  <1> QED BY <1>9, <1>12

\* The slices of the ranks: SliceSize, and division by the size of a slice.
LEMMA SlicesFromInv ==
    ASSUME AlignmentAssumption, InputsAssumption, IndInv
    PROVE  RankSlicesFit
  <1> SUFFICES ASSUME pc = "done", NEW c \in Chunks
               PROVE  /\ ChunkAt(L, c).foff % RankAlignment = 0
                      /\ \A r \in 0..(WorldSize - 1) :
                            /\ RankOffset(c, r) % RankAlignment = 0
                            /\ RoundUp(RankSize(c, r), RankAlignment) <= RankChunk
                      /\ UNION {Slice(c, r) : r \in 0..(WorldSize - 1)}
                            = 0..(ChunkAt(L, c).size - 1)
                      /\ \A q, r \in 0..(WorldSize - 1) :
                            q # r => Slice(c, q) \cap Slice(c, r) = {}
    BY DEF RankSlicesFit
  <1> DEFINE S == ChunkAt(L, c).size
             R == RankAlignment
             W == WorldSize
             K == RankChunk
             P == PaddedRankSize(c)
             off(r) == RankOffset(c, r)
             len(r) == RankSize(c, r)
  <1>1. LocalsInv(L, Geometry) /\ Sizes(Geometry) /\ c \in Closed(L)
    BY DoneFacts DEF Finished, StateInv
  <1>2. ChunkAt(L, c).foff % R = 0 /\ S <= Geometry.chunk BY <1>1 DEF LocalsInv
  <1>3. S \in Nat \ {0} /\ R \in Nat \ {0} BY <1>1, Types, SizesOrdered
  <1>4. W \in Nat \ {0} /\ open_args.chunk_size \in Nat
    BY DEF IndInv, InputsAssumption, WorldSize
  <1>5. K \in Nat /\ K % R = 0 BY <1>3, <1>4, RoundUpFacts DEF RankChunk
  <1>6. S <= K * W BY <1>2 DEF Geometry, WorldChunk
  <1>7. P \in Nat \ {0} /\ P % R = 0 /\ P <= K /\ S <= P * W
    <2>1. P = RoundUp(S, R * W) \div W BY DEF PaddedRankSize, WorldChunkAlignment
    <2> HIDE DEF S, R, W, K, P
    <2> QED BY <1>3, <1>4, <1>5, <1>6, <2>1, SliceSize
  <1>8. ASSUME NEW r \in 0..(W - 1)
        PROVE  /\ off(r) = P * r /\ off(r) \in Nat /\ off(r) % R = 0
               /\ len(r) \in 0..P
               /\ len(r) = (IF S > P * r THEN IF S - P * r <= P THEN S - P * r ELSE P ELSE 0)
    <2>1. off(r) = P * r BY DEF RankOffset
    <2>2. len(r) = IF S > off(r) THEN Min({S - off(r), P}) ELSE 0 BY DEF RankSize
    <2> HIDE DEF S, R, W, K, P, off, len
    <2>3. r \in Nat BY <1>4
    <2>4. off(r) \in Nat BY <1>7, <2>1, <2>3
    <2>5. off(r) % R = 0
      <3>1. PICK k \in Nat : P = R * k BY <1>3, <1>7, Multiple
      <3>2. off(r) = R * (k * r) /\ k * r \in Nat BY <1>3, <2>1, <2>3, <3>1
      <3> QED BY <1>3, <3>2, MultipleOf
    <2>6. CASE S > off(r)
      <3> DEFINE d == S - off(r)
      <3>1. d \in Nat BY <1>3, <2>4, <2>6
      <3>2. {d, P} \subseteq Nat /\ {d, P} # {} BY <1>7, <3>1
      <3> HIDE DEF d
      <3>3. Min({d, P}) \in {d, P} /\ \A x \in {d, P} : Min({d, P}) <= x BY <3>2, Least
      <3>4. len(r) = Min({d, P}) BY <2>2, <2>6 DEF d
      <3>5. len(r) \in Nat /\ len(r) <= d /\ len(r) <= P /\ (len(r) = d \/ len(r) = P)
        BY <1>7, <3>1, <3>3, <3>4
      <3>6. len(r) \in 0..P /\ len(r) = IF d <= P THEN d ELSE P BY <1>7, <3>1, <3>5
      <3> QED BY <2>1, <2>4, <2>5, <2>6, <3>6 DEF d
    <2>7. CASE ~ (S > off(r))
      <3>1. len(r) = 0 BY <2>2, <2>7
      <3>2. 0 \in 0..P BY <1>7
      <3> QED BY <2>1, <2>4, <2>5, <2>7, <3>1, <3>2
    <2> QED BY <2>6, <2>7
  <1>9. ASSUME NEW r \in 0..(W - 1) PROVE off(r) % R = 0 /\ RoundUp(len(r), R) <= K
    <2>1. len(r) \in Nat /\ len(r) <= P BY <1>7, <1>8
    <2>2. RoundUp(P, R) = P BY <1>3, <1>7, RoundUpFacts
    <2>3. RoundUp(len(r), R) <= RoundUp(P, R) BY <1>3, <1>7, <2>1, RoundUpMonotone
    <2>4. RoundUp(len(r), R) \in Nat BY <1>3, <2>1, RoundUpFacts
    <2> HIDE DEF S, R, W, K, P, off, len
    <2>5. RoundUp(len(r), R) <= K BY <1>5, <1>7, <2>2, <2>3, <2>4
    <2> QED BY <1>8, <2>5
  <1>10. \A r : Slice(c, r) = off(r)..(off(r) + len(r) - 1) BY DEF Slice
  <1> HIDE DEF S, R, W, K, P, off, len
  <1>11. ASSUME NEW r \in 0..(W - 1), NEW x \in Slice(c, r)
         PROVE  x \in Int /\ P * r <= x /\ x < P * r + P /\ x \in 0..(S - 1)
    <2> DEFINE m == P * r
    <2>1. /\ m \in Nat /\ off(r) = m /\ len(r) \in 0..P
          /\ len(r) = (IF S > m THEN IF S - m <= P THEN S - m ELSE P ELSE 0)
      BY <1>8
    <2>2. x \in m..(m + len(r) - 1) BY <1>10, <2>1
    <2> HIDE DEF m
    <2>3. x \in Int /\ m <= x /\ x < m + P /\ x \in 0..(S - 1) BY <1>3, <1>7, <2>1, <2>2
    <2> QED BY <2>3 DEF m
  <1>12. ASSUME NEW x \in 0..(S - 1) PROVE \E r \in 0..(W - 1) : x \in Slice(c, r)
    <2> DEFINE r == x \div P
               m == P * r
    <2>1. x \in Nat /\ x < S BY <1>3
    <2>2. r \in Nat /\ x = m + (x % P) /\ (x % P) \in 0..(P - 1) BY <1>7, <2>1, DivMod
    <2>3. r \in 0..(W - 1)
      <3>1. P * W = W * P /\ m \in Nat /\ P * W \in Nat BY <1>4, <1>7, <2>2
      <3>2. m < P * W
        <4> HIDE DEF r
        <4>1. m <= x BY <1>7, <2>1, <2>2, <3>1
        <4> HIDE DEF m
        <4> QED BY <1>3, <1>7, <2>1, <3>1, <4>1
      <3>3. r < W
        <4> HIDE DEF r
        <4> QED BY <1>4, <1>7, <2>2, <3>2, LessFactor
      <3> QED BY <1>4, <2>2, <3>3
    <2> HIDE DEF r
    <2>4. /\ m \in Nat /\ off(r) = m /\ len(r) \in 0..P
          /\ len(r) = (IF S > m THEN IF S - m <= P THEN S - m ELSE P ELSE 0)
      BY <1>8, <2>3
    <2> HIDE DEF m
    <2>5. x \in m..(m + len(r) - 1) BY <1>3, <1>7, <2>1, <2>2, <2>4
    <2> QED BY <1>10, <2>3, <2>4, <2>5
  <1>13. UNION {Slice(c, r) : r \in 0..(W - 1)} = 0..(S - 1)
    <2>1. \A x \in UNION {Slice(c, r) : r \in 0..(W - 1)} : x \in 0..(S - 1) BY <1>11
    <2>2. \A x \in 0..(S - 1) : x \in UNION {Slice(c, r) : r \in 0..(W - 1)} BY <1>12
    <2> QED BY <2>1, <2>2
  <1>14. ASSUME NEW q \in 0..(W - 1), NEW r \in 0..(W - 1), q < r
         PROVE  Slice(c, q) \cap Slice(c, r) = {}
    <2> SUFFICES ASSUME NEW x \in Slice(c, q), x \in Slice(c, r) PROVE FALSE OBVIOUS
    <2> DEFINE m == P * q
               n == P * r
    <2>1. x \in Int /\ x < m + P /\ n <= x BY <1>11
    <2>2. q \in Nat /\ r \in Nat BY <1>4
    <2>3. m + P <= n BY <1>7, <1>14, <2>2, LessFactor
    <2>4. m \in Nat /\ n \in Nat BY <1>7, <2>2
    <2> HIDE DEF m, n
    <2> QED BY <1>7, <2>1, <2>3, <2>4
  <1>15. ASSUME NEW q \in 0..(W - 1), NEW r \in 0..(W - 1), q # r
         PROVE  Slice(c, q) \cap Slice(c, r) = {}
    <2>1. q < r \/ r < q BY <1>4, <1>15
    <2> QED BY <1>14, <2>1
  <1> QED BY <1>2, <1>9, <1>13, <1>15 DEF S, R, W, K, off, len

\* Alignment is part of the invariant.
LEMMA AlignedFromInv ==
    ASSUME AlignmentAssumption, InputsAssumption, IndInv
    PROVE  AlignedStart
  <1> SUFFICES ASSUME pc = "done", NEW t \in Tensors
               PROVE  \/ L.tensors[t].doff % FirstTensorAlignment = 0
                      \/ /\ t > 0
                         /\ L.tensors[t].doff - L.tensors[t - 1].doff = L.tensors[t - 1].size
    BY DEF AlignedStart
  <1>1. Finished(L, Geometry) /\ t \in 0..(Geometry.tensors - 1) BY DoneFacts
  <1>2. t \in Placed(L) BY <1>1, FinishedFacts
  <1>3. AlignInv(L) BY <1>1 DEF Finished, StateInv
  <1>4. Follows(L, t, L.tensors[t].doff) BY <1>2, <1>3 DEF AlignInv
  <1> QED BY <1>4 DEF Follows

\* Types and the internal checks are part of the invariant.
LEMMA TypesFromInv ==
    ASSUME AlignmentAssumption, InputsAssumption, IndInv
    PROVE  TypeOK /\ NoInternalError
  <1> DEFINE g == Geometry
             o == offsets
  <1>1. /\ open_args \in Inputs /\ i \in 1..Len(o) /\ pc \in {"tensor", "split", "done"}
        /\ LocalsInv(L, g)
        /\ (pc = "tensor" \/ pc = "split") => L.file = o[i][1]
        /\ pc = "done" => L.file = o[Len(o)][1]
    BY DEF IndInv, StateInv, TensorInv, SplitInv, File
  <1>2. Sizes(g) /\ OffsetsAssumption(o, open_args.buffer_size) BY <1>1, GeometryFacts
  <1>3. /\ L.foff \in Nat /\ L.doff \in Nat /\ L.left \in Nat /\ L.place \in Nat
        /\ L.size \in Nat /\ L.tensor_id \in Nat /\ L.in_buffer \in Nat
        /\ L.left_most \in Nat /\ L.bad \in BOOLEAN /\ L.file \in Nat
        /\ L.in_buffer <= L.left_most /\ L.left_most <= L.tensor_id
        /\ L.tensor_id <= g.tensors
    BY <1>1, <1>2, SizesOrdered, Types
  <1>4. L.size <= g.chunk /\ ~ L.bad BY <1>1 DEF LocalsInv
  <1>5. g.tensors = NumTensors /\ g.chunk = WorldChunk /\ NumFiles = o[Len(o)][1] + 1
    BY DEF Geometry, NumFiles, File
  <1>6. g.tensors \in Nat /\ g.chunk \in Nat /\ RankAlignment \in Nat \ {0} BY <1>2, SizesOrdered
  <1>7. L.file <= o[Len(o)][1] /\ o[Len(o)][1] \in Nat
    <2>1. Len(o) \in Nat \ {0} BY <1>1, <1>2, OffsetFacts
    <2>2. Len(o) \in 1..Len(o) BY <2>1
    <2>3. o[Len(o)][1] \in Nat BY <1>2, <2>2, OffsetFacts
    <2>4. o[i][1] <= o[Len(o)][1] BY <1>1, <1>2, <1>6, FileSlope
    <2> QED BY <1>1, <2>3, <2>4
  <1> HIDE DEF g, o
  <1>8. L.file \in 0..(NumFiles - 1) BY <1>3, <1>5, <1>7
  <1>9. L.size \in 0..WorldChunk BY <1>3, <1>4, <1>5, <1>6
  <1>10. /\ L.tensor_id \in 0..NumTensors /\ L.in_buffer \in 0..L.left_most
         /\ L.left_most \in 0..L.tensor_id
    BY <1>3, <1>5, <1>6
  <1> QED BY <1>1, <1>3, <1>4, <1>8, <1>9, <1>10 DEF TypeOK, NoInternalError, o

\* compute_layout: the inductive invariant holds after every iteration, for every
\* list of tensors and every size of chunks, buffer and world.
THEOREM Invariance ==
    ASSUME AlignmentAssumption, InputsAssumption
    PROVE  Spec => []IndInv
  <1>1. Init => IndInv BY InitIndInv
  <1>2. IndInv /\ [Next]_vars => IndInv' BY StepIndInv
  <1> QED BY <1>1, <1>2, PTL DEF Spec

\* compute_layout: the locals keep their types and bounds.
THEOREM TypeCorrect ==
    ASSUME AlignmentAssumption, InputsAssumption
    PROVE  Spec => []TypeOK
  <1>1. IndInv => TypeOK BY TypesFromInv
  <1> QED BY <1>1, Invariance, PTL

\* compute_layout: what it returns satisfies the contract that the streaming loop
\* assumes.  Watermarks are in order, a tensor is complete after its last chunk,
\* and no chunk up to its watermark overwrites it.
THEOREM Contract ==
    ASSUME AlignmentAssumption, InputsAssumption
    PROVE  Spec => []ContractHolds
  <1>1. IndInv => ContractHolds BY ContractFromInv
  <1> QED BY <1>1, Invariance, PTL

\* compute_layout: exactly one chunk brings a byte of a tensor to its place, and
\* last_chunk_id is the chunk of the last byte.
THEOREM EveryByteOnce ==
    ASSUME AlignmentAssumption, InputsAssumption
    PROVE  Spec => []BytesMappedOnce
  <1>1. IndInv => BytesMappedOnce BY BytesFromInv
  <1> QED BY <1>1, Invariance, PTL

\* compute_layout, init_buffer and the slices of post_read_chunk: chunks with tensor
\* bytes are copied inside the buffer with their padding, the slices of the ranks
\* tile a chunk and fit the host windows, a tensor starts aligned or right behind
\* the one before it, and no internal check fires.
THEOREM LayoutFits ==
    ASSUME AlignmentAssumption, InputsAssumption
    PROVE  Spec => []ChunksFit
  <1>1. IndInv => ChunksFit
    BY TypesFromInv, BoundsFromInv, SlicesFromInv, AlignedFromInv DEF ChunksFit
  <1> QED BY <1>1, Invariance, PTL
=============================================================================
