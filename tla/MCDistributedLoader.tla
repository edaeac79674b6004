-------------------------- MODULE MCDistributedLoader --------------------------
(* Two ranks, four tensors in six chunks through a ring of three chunks.     *)
(* Each chunk is two cells, one of each rank's slice, so that tensors cross  *)
(* slice and chunk boundaries.                                               *)
EXTENDS DistributedLoader

MCCells == 0..5
MCOwner == [x \in MCCells |-> x % 2]
MCWrites == [c \in 0..5 |-> {2 * (c % 3), 2 * (c % 3) + 1}]
MCPayload == [t \in 0..3 |->
    CASE t = 0 -> {<<0, 0>>}
      [] t = 1 -> {<<1, 0>>, <<2, 1>>}
      [] t = 2 -> {<<3, 1>>, <<4, 2>>, <<5, 2>>}
      [] t = 3 -> {<<0, 3>>, <<1, 3>>, <<2, 4>>, <<3, 4>>, <<4, 5>>}]
MCLast == [t \in 0..3 |-> CASE t = 0 -> 0 [] t = 1 -> 1 [] t = 2 -> 2 [] t = 3 -> 5]
MCPrefetch == [t \in 0..3 |-> CASE t = 0 -> 2 [] t = 1 -> 2 [] t = 2 -> 3 [] t = 3 -> 5]
=============================================================================
