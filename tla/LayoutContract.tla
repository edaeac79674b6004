--------------------------- MODULE LayoutContract ---------------------------
(***************************************************************************)
(* What Loader::compute_layout promises to the streaming loop: the static  *)
(* facts about tensors and chunks that make it safe to read ahead in a     *)
(* device buffer smaller than the checkpoint.                              *)
(*                                                                         *)
(* A layout gives, for NT tensors and NC chunks numbered from 0,           *)
(*   last[t]      TensorMetadate::last_chunk_id,                           *)
(*   prefetch[t]  TensorMetadate::prefetch_chunk_id,                       *)
(*   writes[c]    the device cells chunk c's copy overwrites,              *)
(*   payload[t]   the pairs <<x, c>>: cell x of tensor t comes from        *)
(*                chunk c.                                                 *)
(* A cell is a stretch of the device buffer small enough that chunks and   *)
(* tensors are unions of cells.                                            *)
(*                                                                         *)
(* ChunkLayout checks that the algorithm establishes the contract;         *)
(* LoaderRuntime assumes it and nothing else about the layout.             *)
(***************************************************************************)
EXTENDS Integers

\* A tensor can be returned before the loop runs into its own watermark, and
\* the watermarks only move forward, as the loop only moves forward.
WatermarksOrdered(NT, NC, last, prefetch) ==
    /\ \A t \in 0..(NT - 1) :
          /\ last[t] \in 0..(NC - 1)
          /\ prefetch[t] \in 0..(NC - 1)
          /\ last[t] <= prefetch[t]
    /\ \A t, u \in 0..(NT - 1) : t <= u => prefetch[t] <= prefetch[u]

\* Every cell of a tensor has been written once chunk last[t] has.
PayloadComplete(NT, last, writes, payload) ==
    \A t \in 0..(NT - 1) : \A p \in payload[t] :
        p[2] \in 0..last[t] /\ p[1] \in writes[p[2]]

\* "points to the furthest prefetchable chunk without overwriting current
\* tensor's data" (types.hpp).
WatermarkProtects(NT, prefetch, writes, payload) ==
    \A t \in 0..(NT - 1) : \A p \in payload[t] :
        \A c \in (p[2] + 1)..prefetch[t] : p[1] \notin writes[c]

LayoutSound(NT, NC, last, prefetch, writes, payload) ==
    /\ WatermarksOrdered(NT, NC, last, prefetch)
    /\ PayloadComplete(NT, last, writes, payload)
    /\ WatermarkProtects(NT, prefetch, writes, payload)
=============================================================================
