------------------------------ MODULE MCReadPlan ------------------------------
(* Bounded shards for ReadPlan: every single entry, consistent or not, and   *)
(* three consistent entries in any order and overlap.                        *)
EXTENDS Integers, Sequences

Entry(shape, itemsize, start, end) ==
    [shape |-> shape, itemsize |-> itemsize, start |-> start, end |-> end,
     well_formed |-> TRUE]

Shapes == {<<>>, <<3>>, <<2, 2>>, <<0>>, <<9, 9>>, <<40, 40, 0>>, <<5, 13>>, <<11>>}
AnyEntry == {Entry(s, b, st, en) :
                s \in Shapes, b \in {1, 2}, st \in {0, 1, 4, 30}, en \in 0..26}
            \cup {[Entry(<<3>>, 1, 0, 3) EXCEPT !.well_formed = FALSE]}

GoodEntry == {Entry(<<n>>, 1, st, st + n) :
                n \in {0, 5, 14}, st \in {0, 1, 3, 6, 12, 19}}

Shard(size, len, json, entries, gap, chunk, merge) ==
    [size |-> size, header_len |-> len, json |-> json, entries |-> entries,
     max_gap |-> gap, chunk_bytes |-> chunk, merge |-> merge]

MCShards ==
    {Shard(size, len, json, <<>>, 0, 8, TRUE) :
        size \in {0, 1, 2, 5}, len \in {0, 1, 4, 9, 30}, json \in BOOLEAN}
    \cup {Shard(23, 5, TRUE, <<e>>, 0, 5, merge) :
        e \in AnyEntry, merge \in BOOLEAN}
    \cup {Shard(39, 5, TRUE, <<e, f, g>>, gap, 7, TRUE) :
        e \in GoodEntry, f \in GoodEntry, g \in GoodEntry, gap \in {0, 5}}
=============================================================================
