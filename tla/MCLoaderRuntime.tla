--------------------------- MODULE MCLoaderRuntime ---------------------------
(* A small instance of LoaderRuntime: six tensors in eight chunks through a  *)
(* device buffer of three chunks, so the ring wraps twice.  Every tensor but *)
(* the first straddles chunks, and tensors share chunks.                     *)
EXTENDS LoaderImplementsStream

\* Lap of the ring, first cell and number of cells of each tensor.
Place == [t \in 0..5 |->
    CASE t = 0 -> <<0, 0, 1>> [] t = 1 -> <<0, 1, 2>> [] t = 2 -> <<0, 3, 3>>
      [] t = 3 -> <<1, 0, 3>> [] t = 4 -> <<1, 3, 3>>
      [] t = 5 -> <<2, 0, 4>>]

MCCells == 0..5
MCWrites == [c \in 0..7 |-> {2 * (c % 3), 2 * (c % 3) + 1}]
MCPayload == [t \in 0..5 |->
    {<<x, 3 * Place[t][1] + x \div 2>> :
        x \in Place[t][2]..(Place[t][2] + Place[t][3] - 1)}]
MCLast == [t \in 0..5 |->
    3 * Place[t][1] + (Place[t][2] + Place[t][3] - 1) \div 2]
\* One chunk before the one that comes back to the tensor's first cell.
MCPrefetch == [t \in 0..5 |->
    IF Place[t][1] = 2 THEN 7
    ELSE 3 * Place[t][1] + Place[t][2] \div 2 + 2]
=============================================================================
