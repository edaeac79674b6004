------------------------------ MODULE ChunkLayout ------------------------------
(***************************************************************************)
(* Loader::compute_layout: cut the tensors of all files into chunks, place *)
(* them in a device buffer used as a ring, and give every tensor the       *)
(* watermark up to which chunks may be read while it is in use.            *)
(*                                                                         *)
(* One action is one iteration of the loop over tensor_offsets, or one     *)
(* iteration of its inner loop that cuts a tensor at chunk boundaries.     *)
(* The code's locals are the record L; its lambdas finish_chunk,           *)
(* reset_chunk_buffer_offset and reset_chunk_file map L to L.              *)
(***************************************************************************)
EXTENDS LayoutContract, Sequences, FiniteSets, FiniteSetsExt

CONSTANTS
    RankAlignment,          \* rank_alignment: the page size
    FirstTensorAlignment,   \* first_tensor_alignment
    Inputs                  \* the OpenArgs to lay out

AlignmentAssumption ==
    /\ RankAlignment \in Nat \ {0} /\ FirstTensorAlignment \in Nat \ {0}
    /\ (RankAlignment % FirstTensorAlignment) = 0

\* Loader::open rejects a chunk size or a depth of zero.  The front end lists the
\* tensors of each file in order and behind them the end of the file's data, and
\* asks for a buffer of at least the largest tensor.  A tensor without bytes does
\* not begin at a page boundary: the algorithm has no chunk to hold it otherwise.
OffsetsAssumption(offs, size) ==
    /\ offs \in Seq(Nat \X Nat) /\ Len(offs) > 0 /\ offs[1][1] = 0
    /\ \A k \in 1..(Len(offs) - 1) :
          \/ offs[k + 1][1] = offs[k][1] + 1
          \/ /\ offs[k + 1][1] = offs[k][1]
             /\ offs[k + 1][2] - offs[k][2] \in 0..size
             /\ offs[k + 1][2] = offs[k][2] => offs[k][2] % RankAlignment # 0

InputsAssumption ==
    \A args \in Inputs :
        /\ args.world_size \in Nat \ {0} /\ args.chunk_size \in Nat \ {0}
        /\ args.io_depth \in Nat \ {0} /\ args.buffer_size \in Nat
        /\ OffsetsAssumption(args.tensor_offsets, args.buffer_size)

VARIABLES
    open_args,  \* OpenArgs: the sizes and tensor_offsets
    i,          \* the loop index, from 1
    pc,         \* "tensor", "split" or "done"
    L           \* the locals of compute_layout, with chunks and tensors

vars == <<open_args, i, pc, L>>

\* Each file's tensor starts and its end, as pairs <<file, offset>>.
offsets   == open_args.tensor_offsets
WorldSize == open_args.world_size

\* Mutant: rounding up where the code rounds down.
RoundDownUp(x, y) == ((x + y - 1) \div y) * y

DivCeil(x, y)   == (x + y - 1) \div y
RoundUp(x, y)   == DivCeil(x, y) * y
RoundDown(x, y) == (x \div y) * y

WorldChunkAlignment == RankAlignment * WorldSize
RankChunk  == RoundUp(open_args.chunk_size, RankAlignment)
WorldChunk == RankChunk * WorldSize

\* Mutant: no room for the paddings ("can be any value that >= 0").
NoPadding == 0

\* init_buffer: buffer_size with room for the chunks in flight and for paddings.
PaddedSize == 3 * (FirstTensorAlignment + RankAlignment + WorldChunkAlignment)
buffer ==
    Max({open_args.buffer_size, RankChunk * open_args.io_depth * WorldSize})
        + PaddedSize

-----------------------------------------------------------------------------
File(k)   == offsets[k][1]
Offset(k) == offsets[k][2]
NumFiles   == File(Len(offsets)) + 1
NumTensors == Len(offsets) - NumFiles

\* tensors[t] and chunks[c] are the code's; both are numbered from 0.
ChunkAt(s, c) == s.chunks[c + 1]

\* Mutants: the same tensors are treated again by the next chunk; one tensor
\* too many is dropped.
SetPrefetchAgain(s, upto, chunk) ==
    [s EXCEPT !.tensors = [t \in DOMAIN @ |->
                 IF s.in_buffer <= t /\ t < upto
                 THEN [@[t] EXCEPT !.prefetch = chunk] ELSE @[t]]]

\* Set the watermark of the tensors in_buffer..upto-1 and drop them.
SetPrefetch(s, upto, chunk) ==
    [s EXCEPT !.tensors = [t \in DOMAIN @ |->
                 IF s.in_buffer <= t /\ t < upto
                 THEN [@[t] EXCEPT !.prefetch = chunk] ELSE @[t]],
              !.in_buffer = upto]

\* Close the current chunk.  The tensors of the previous lap that start below
\* its padded end are overwritten by it: they allow prefetch up to the chunk
\* before.  An unaligned rest stays behind, to be read again.
finish_chunk(s) ==
    IF s.size = 0 THEN s
    ELSE LET chunk == [size |-> s.size, file |-> s.file, foff |-> s.foff,
                       doff |-> s.doff]
             end   == s.doff + RoundUp(s.size, WorldChunkAlignment)
             \* the first tensor of the previous lap that survives
             upto  == Min({t \in s.in_buffer..s.left_most :
                             \/ t = s.left_most
                             \/ s.tensors[t].doff >= end})
             next  == [s EXCEPT
                         !.chunks = Append(@, chunk),
                         !.foff = @ + RoundDown(s.size, RankAlignment),
                         !.doff = end,
                         !.size = @ % RankAlignment,
                         !.bad = @ \/ s.foff % RankAlignment # 0]
         IN  SetPrefetch(next, upto, Len(next.chunks) - 2)

\* Where a chunk with an unaligned prefix goes so that what follows the prefix
\* starts at a multiple of first_tensor_alignment.
FirstTensorSlot(base, prefix) ==
    base + FirstTensorAlignment - (prefix % FirstTensorAlignment)

\* Start a new lap at the beginning of the buffer with tensor first.
reset_chunk_buffer_offset(s, first) ==
    LET t == SetPrefetch(s, s.left_most, Len(s.chunks) - 1)
    IN  [t EXCEPT
            !.doff = FirstTensorSlot(0, s.size),
            !.left_most = first,
            !.bad = @ \/ s.size >= RankAlignment]

\* Continue with a file whose tensors begin at offset.
reset_chunk_file(s, file, offset) ==
    LET prefix == offset % RankAlignment
    IN  [s EXCEPT
            !.file = file,
            !.foff = RoundDown(offset, RankAlignment),
            !.size = prefix,
            !.doff = FirstTensorSlot(RoundUp(@, FirstTensorAlignment), prefix),
            !.bad = @ \/ s.size >= RankAlignment]

\* What the locals are declared with.
Blank == [file |-> 0, foff |-> 0, doff |-> 0, size |-> 0,
          tensor_id |-> 0, in_buffer |-> 0, left_most |-> 0,
          left |-> 0, place |-> 0,
          chunks |-> <<>>, tensors |-> <<>>, bad |-> FALSE]

\* tensors.resize(num_tensors)
NoTensor == [size |-> 0, file |-> 0, foff |-> 0, doff |-> 0, last |-> 0,
             prefetch |-> 0]

Init ==
    /\ open_args \in Inputs
    /\ i = 1
    /\ pc = "tensor"
    /\ L = reset_chunk_file(
              [Blank EXCEPT !.tensors = [t \in 0..(NumTensors - 1) |-> NoTensor]],
              File(1), Offset(1))

\* The offset is the end of a file: close its last chunk, go to the next file.
NextFile ==
    /\ pc = "tensor" /\ i < Len(offsets)
    /\ File(i) # File(i + 1)
    /\ L' = reset_chunk_file(finish_chunk(L), File(i + 1), Offset(i + 1))
    /\ i' = i + 1
    /\ UNCHANGED <<open_args, pc>>

\* Place the tensor behind the previous one, or at the beginning of the buffer
\* if it does not fit in what is left.
PlaceTensor ==
    /\ pc = "tensor" /\ i < Len(offsets)
    /\ File(i) = File(i + 1)
    /\ LET size  == Offset(i + 1) - Offset(i)
           wraps == L.doff + RoundUp(L.size + size, WorldChunkAlignment) > buffer
           s     == IF wraps
                    THEN reset_chunk_buffer_offset(finish_chunk(L), L.tensor_id)
                    ELSE L
       IN  L' = [s EXCEPT !.left = size,
                          !.place = Offset(i) - s.foff + s.doff,
                          !.bad = @ \/ L.size # Offset(i) - L.foff
                                    \/ size > buffer]
    /\ pc' = "split"
    /\ UNCHANGED <<open_args, i>>

\* The tensor does not end in this chunk: fill the chunk and close it.
SplitTensor ==
    /\ pc = "split"
    /\ L.size + L.left > WorldChunk
    /\ L' = finish_chunk([L EXCEPT !.left = @ - (WorldChunk - L.size),
                                   !.size = WorldChunk])
    /\ UNCHANGED <<open_args, i, pc>>

\* The tensor ends in this chunk: record it.
FinishTensor ==
    /\ pc = "split"
    /\ L.size + L.left <= WorldChunk
    /\ L' = [L EXCEPT
                !.size = @ + L.left,
                !.tensors[L.tensor_id] =
                    [size |-> Offset(i + 1) - Offset(i), file |-> File(i),
                     foff |-> Offset(i), doff |-> L.place,
                     last |-> Len(L.chunks), prefetch |-> 0],
                !.tensor_id = @ + 1,
                !.left = 0]
    /\ i' = i + 1 /\ pc' = "tensor"
    /\ UNCHANGED open_args

\* After the loop: close the last chunk; the tensors of the last two laps may
\* be followed by every chunk there is.
FinishLayout ==
    /\ pc = "tensor" /\ i = Len(offsets)
    /\ L' = reset_chunk_buffer_offset(
                reset_chunk_buffer_offset(finish_chunk(L), L.tensor_id),
                L.tensor_id)
    /\ pc' = "done"
    /\ UNCHANGED <<open_args, i>>

Done == pc = "done" /\ UNCHANGED vars

Next == NextFile \/ PlaceTensor \/ SplitTensor \/ FinishTensor \/ FinishLayout
        \/ Done

Spec == Init /\ [][Next]_vars
-----------------------------------------------------------------------------
(* What the finished layout means.                                           *)

Chunks  == 0..(Len(L.chunks) - 1)
Tensors == DOMAIN L.tensors

\* Bytes of the device buffer the copy of chunk c writes: the logical bytes,
\* or with several ranks all the padded slices of the all-gather.
Writes == [c \in Chunks |->
    LET chunk == ChunkAt(L, c)
        width == IF WorldSize = 1 THEN chunk.size
                 ELSE RoundUp(chunk.size, WorldChunkAlignment)
    IN  chunk.doff..(chunk.doff + width - 1)]

\* The chunks that bring byte b of tensor t to its place on the device.
Carriers(t, b) ==
    {c \in Chunks :
        LET chunk == ChunkAt(L, c)
            pos   == L.tensors[t].foff + b - chunk.foff
        IN  /\ chunk.file = L.tensors[t].file
            /\ pos \in 0..(chunk.size - 1)
            /\ chunk.doff + pos = L.tensors[t].doff + b}

Payload == [t \in Tensors |->
    UNION {{<<L.tensors[t].doff + b, c>> : c \in Carriers(t, b)} :
              b \in 0..(L.tensors[t].size - 1)}]

Holders(c) == {t \in Tensors : \E p \in Payload[t] : p[2] = c}

\* rank_logical_size and the slice of chunk c that rank r reads.
PaddedRankSize(c) == RoundUp(ChunkAt(L, c).size, WorldChunkAlignment) \div WorldSize
RankOffset(c, r) == PaddedRankSize(c) * r
RankSize(c, r) ==
    LET size == ChunkAt(L, c).size
    IN  IF size > RankOffset(c, r)
        THEN Min({size - RankOffset(c, r), PaddedRankSize(c)}) ELSE 0
Slice(c, r) == RankOffset(c, r)..(RankOffset(c, r) + RankSize(c, r) - 1)

-----------------------------------------------------------------------------
TypeOK ==
    /\ i \in 1..Len(offsets)
    /\ pc \in {"tensor", "split", "done"}
    /\ L.file \in 0..(NumFiles - 1)
    /\ L.foff \in Nat /\ L.doff \in Nat /\ L.left \in Nat /\ L.place \in Nat
    /\ L.size \in 0..WorldChunk
    /\ L.tensor_id \in 0..NumTensors
    /\ L.in_buffer \in 0..L.left_most /\ L.left_most \in 0..L.tensor_id
    /\ L.bad \in BOOLEAN

\* None of the "Internal error" checks of the algorithm fires.
NoInternalError == ~L.bad

\* Every byte of every tensor is brought to its place by exactly one chunk, and
\* last_chunk_id is the chunk of the tensor's last byte.
BytesMappedOnce ==
    pc = "done" =>
        \A t \in Tensors : \A b \in 0..(L.tensors[t].size - 1) :
            LET from == Carriers(t, b)
            IN  /\ Cardinality(from) = 1
                /\ b = L.tensors[t].size - 1 => from = {L.tensors[t].last}

\* The layout satisfies the contract that the streaming loop assumes: ordered
\* watermarks that no chunk read under them breaks.
ContractHolds ==
    pc = "done" =>
        LayoutSound(NumTensors, Len(L.chunks),
                    [t \in Tensors |-> L.tensors[t].last],
                    [t \in Tensors |-> L.tensors[t].prefetch],
                    Writes, Payload)

\* Chunks with tensor bytes stay inside the allocated buffer, padding included.
TensorChunksInBounds ==
    pc = "done" =>
        \A c \in Chunks : Holders(c) # {} =>
            Writes[c] \subseteq 0..(buffer - 1)

\* "Layout and overwrite checks must include the full padded Sw": every chunk,
\* header-only chunks too, is copied inside the allocated buffer.
EveryChunkInBounds ==
    pc = "done" => \A c \in Chunks : Writes[c] \subseteq 0..(buffer - 1)

\* Each rank reads whole pages of the file into a host window it fits in, and
\* every byte of the chunk is in the slice of exactly one rank.
RankSlicesFit ==
    pc = "done" => \A c \in Chunks :
        /\ ChunkAt(L, c).foff % RankAlignment = 0
        /\ \A r \in 0..(WorldSize - 1) :
              /\ RankOffset(c, r) % RankAlignment = 0
              /\ RoundUp(RankSize(c, r), RankAlignment) <= RankChunk
        /\ UNION {Slice(c, r) : r \in 0..(WorldSize - 1)} = 0..(ChunkAt(L, c).size - 1)
        /\ \A q, r \in 0..(WorldSize - 1) : q # r => Slice(c, q) \cap Slice(c, r) = {}

\* A tensor that starts a lap or a file starts at a multiple of
\* first_tensor_alignment; any other is at its file distance from the one
\* before, so alignment within the file carries over to the device.
AlignedStart ==
    pc = "done" => \A t \in Tensors :
        \/ L.tensors[t].doff % FirstTensorAlignment = 0
        \/ /\ t > 0
           /\ L.tensors[t].doff - L.tensors[t - 1].doff = L.tensors[t - 1].size

\* What init_buffer and compute_layout owe to the reads and copies: chunks with
\* tensor bytes stay inside the buffer with their padding, every rank's slice fits
\* its host window, tensors start aligned, and no internal check fires.
ChunksFit == NoInternalError /\ TensorChunksInBounds /\ RankSlicesFit /\ AlignedStart
=============================================================================
