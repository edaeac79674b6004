----------------------------- MODULE SafeTensors -----------------------------
(***************************************************************************)
(* gdn: the safetensors reader (safetensors.rs).  Model::open goes through *)
(* the shards of a directory in order; for each it asks for the size, the  *)
(* header length, the header and the whole file in four system calls, and  *)
(* another process may replace the file between any two of them.           *)
(***************************************************************************)
EXTENDS Integers, Sequences, SequencesExt, FiniteSets

CONSTANTS Word,        \* 2^64: u64 and usize
          Directories, \* sequences of files in the order of their paths
          Rewrites     \* <<f, g>>: another process may put g in the place of f

\* The files that may be read.  Sizes and offsets are unsigned.
Files == (UNION {ToSet(d) : d \in Directories}) \cup {r[2] : r \in Rewrites}

OpenAssumption ==
    /\ Directories \subseteq Seq(Files)
    /\ \A f \in Files :
          /\ f.size \in Nat /\ f.header_len \in Nat
          /\ \A n \in DOMAIN f.entries :
                f.entries[n].formed => /\ f.entries[n].from \in Nat /\ f.entries[n].to \in Nat
                                       /\ f.entries[n].shape \in Seq(Nat)

VARIABLES ostage,  \* "stat", "length", "header", "read", "opened" or "failed"
          disk,    \* the directory's files
          rewritten, \* whether the writer has been
          shard,   \* the Shard being opened: file_size, data_start, tensors
          shards, index, bufs \* of the Model: bufs are the lengths of the contents

openVars == <<ostage, disk, rewritten, shard, shards, index, bufs>>

-----------------------------------------------------------------------------
\* Dtype: parse, size.
Sizes == [F32 |-> 4, F16 |-> 2, BF16 |-> 2]

-----------------------------------------------------------------------------
\* Products wrap in a release build; only the last one is checked.
Numel(shape) == FoldLeft(LAMBDA n, d : (n * d) % Word, 1, shape)

\* The checks of Shard::open on one entry: e.formed says that `shape` holds
\* integers and `data_offsets` is a pair.  An end that overflows is past the end
\* of the file too.
EntryOk(e, data_start, file_size) ==
    /\ e.formed /\ e.dtype \in DOMAIN Sizes
    /\ e.from <= e.to
    /\ Numel(e.shape) * Sizes[e.dtype] < Word
    /\ e.to - e.from = Numel(e.shape) * Sizes[e.dtype]
    /\ data_start + e.to <= file_size

Parsed(f) == [n \in DOMAIN f.entries |->
                [dtype |-> f.entries[n].dtype, shape |-> f.entries[n].shape,
                 start |-> shard.data_start + f.entries[n].from, end |-> shard.data_start + f.entries[n].to]]

si == Len(shards) + 1

NoShard == [file_size |-> 0, data_start |-> 0, tensors |-> <<>>]

OpenInit == /\ ostage = "stat" /\ disk \in Directories /\ rewritten = FALSE
            /\ shard = NoShard /\ shards = <<>> /\ index = <<>> /\ bufs = <<>>

Fail == ostage' = "failed" /\ UNCHANGED <<shard, shards, index, bufs>>

\* fs::metadata; a directory without shards is an error, one that has been
\* read to its end is open.
Stat == /\ ostage = "stat"
        /\ CASE disk = <<>>    -> Fail
             [] si > Len(disk) -> ostage' = "opened" /\ UNCHANGED <<shard, shards, index, bufs>>
             [] OTHER          -> /\ ostage' = "length"
                                  /\ shard' = [NoShard EXCEPT !.file_size = disk[si].size]
                                  /\ UNCHANGED <<shards, index, bufs>>
        /\ UNCHANGED <<disk, rewritten>>

\* The first eight bytes.
ReadLength == /\ ostage = "length"
              /\ IF disk[si].size < 8 \/ 8 + disk[si].header_len > shard.file_size THEN Fail
                 ELSE /\ ostage' = "header" /\ shard' = [shard EXCEPT !.data_start = 8 + disk[si].header_len]
                      /\ UNCHANGED <<shards, index, bufs>>
              /\ UNCHANGED <<disk, rewritten>>

\* read_exact of data_start - 8 bytes, the JSON, every entry, and the names
\* other shards have already.  What was read is JSON only if the old length ends
\* inside the padding of the header that is there now.
ReadHeader ==
    /\ ostage = "header"
    /\ LET f == disk[si]
           ts == Parsed(f)
       IN  IF \/ shard.data_start > f.size
              \/ ~(f.json /\ shard.data_start - 8 \in f.json_len .. f.header_len)
              \/ \E n \in DOMAIN f.entries : ~EntryOk(f.entries[n], shard.data_start, shard.file_size)
              \/ DOMAIN f.entries \cap DOMAIN index # {}
           THEN Fail
           ELSE /\ ostage' = "read" /\ shard' = [shard EXCEPT !.tensors = ts]
                /\ index' = [n \in DOMAIN index \cup DOMAIN ts |->
                                 IF n \in DOMAIN index THEN index[n] ELSE <<si, ts[n]>>]
                /\ UNCHANGED <<shards, bufs>>
    /\ UNCHANGED <<disk, rewritten>>

\* Mutant: the size is not asked for again.
ReadFileAnySize ==
    /\ ostage = "read"
    /\ ostage' = "stat" /\ shards' = Append(shards, shard) /\ bufs' = Append(bufs, disk[si].size)
    /\ UNCHANGED <<disk, rewritten, shard, index>>

\* fs::read, and the size again.
ReadFile == /\ ostage = "read"
            /\ IF disk[si].size # shard.file_size THEN Fail
               ELSE /\ ostage' = "stat"
                    /\ shards' = Append(shards, shard) /\ bufs' = Append(bufs, disk[si].size)
                    /\ UNCHANGED <<shard, index>>
            /\ UNCHANGED <<disk, rewritten>>

\* Another process replaces the shard that is being opened.
Rewrite(f, g) == /\ ostage \in {"stat", "length", "header", "read"} /\ ~rewritten /\ si <= Len(disk)
                 /\ disk[si] = f /\ disk' = [disk EXCEPT ![si] = g] /\ rewritten' = TRUE
                 /\ UNCHANGED <<ostage, shard, shards, index, bufs>>

OpenNext == Stat \/ ReadLength \/ ReadHeader \/ ReadFile \/ \E r \in Rewrites : Rewrite(r[1], r[2])

OpenSpec == OpenInit /\ [][OpenNext]_openVars

-----------------------------------------------------------------------------
\* Model::tensor decodes a slice of the shard's contents; whatever a writer did
\* meanwhile, the slice of every tensor of an open model lies inside them, in the
\* data part, and holds as many whole elements as the (wrapped) shape says.
SlicesInside ==
    ostage = "opened" => \A n \in DOMAIN index :
        LET s == index[n][1]
            e == index[n][2]
        IN  /\ shards[s].data_start <= e.start /\ e.start <= e.end /\ e.end <= bufs[s]
            /\ e.end - e.start = Numel(e.shape) * Sizes[e.dtype]
=============================================================================
