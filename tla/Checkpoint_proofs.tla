--------------------------- MODULE Checkpoint_proofs ---------------------------
(***************************************************************************)
(* Proofs about SafeTensors, WeightLoading and Verdict: what qwen35-forward*)
(* reads of a checkpoint and what its checkers say of it, for any directory*)
(* and any process that replaces the shard being opened, any settings, any *)
(* bundle and any invocation of a checker.  The tensors of an open model   *)
(* are slices of the contents that were read, a model that loads fits the  *)
(* kernels, and a checker passes exactly what deserves it.                 *)
(*                                                                         *)
(* Between the header and the contents the entries are checked against the *)
(* size that was asked for first (IndexInv, second case); only the second  *)
(* question makes it the length of the contents (first case).              *)
(*                                                                         *)
(* The lengths asked of the tensors are products of sizes that came from   *)
(* shapes, the kernels' are products of settings; the cross-checks compare *)
(* some of these products.  All of them wrap, and wrapped products are     *)
(* commutative and associative (WrappedProduct), so the comparisons carry  *)
(* over (RealFits) although a wrapped equation says nothing of the factors.*)
(*                                                                         *)
(* The convolution and the delta rule are captured by the number of the    *)
(* call and looked up by the layer's ordinal among the linear layers; that *)
(* the two agree is an induction over the layers (Counting, OrdinalExists, *)
(* OrdinalUnique), and gives that verify_layer compares each capture of the*)
(* layer with its own part and leaves none out (StepsAreCaptures).  The    *)
(* rest is what any_failed stands for at each stage (GdnInv, CompareInv,   *)
(* DeltaInv).                                                              *)
(***************************************************************************)
EXTENDS WeightLoading, Verdict, DataLemmas

\* The control points, and a buffer for every shard read.
TypeInv ==
    /\ ostage \in {"stat", "length", "header", "read", "opened", "failed"}
    /\ disk \in Seq(Files)
    /\ shard \in [file_size : Nat, data_start : Nat, tensors : {shard.tensors}]
    /\ IsSeq(shards) /\ bufs \in Seq(Nat) /\ Len(bufs) = Len(shards)
    /\ ostage \in {"length", "header", "read"} => si <= Len(disk)

\* Tensor e is a slice of contents of n bytes whose data begins at d.
Inside(e, d, n) ==
    /\ d <= e.start /\ e.start <= e.end /\ e.end <= n
    /\ e.end - e.start = Numel(e.shape) * Sizes[e.dtype]

\* Every tensor in the index is one of a shard read, or of the shard whose contents
\* are still to be read and which then has its size.
IndexInv ==
    ostage # "failed" => \A n \in DOMAIN index :
        \/ /\ index[n][1] \in 1..Len(shards)
           /\ Inside(index[n][2], shards[index[n][1]].data_start, bufs[index[n][1]])
        \/ /\ ostage = "read" /\ index[n][1] = si
           /\ Inside(index[n][2], shard.data_start, shard.file_size)

\* The inductive invariant of opening.
IndInv == TypeInv /\ IndexInv
-----------------------------------------------------------------------------
\* The file of the shard being opened.
LEMMA FileOpen ==
    ASSUME OpenAssumption, TypeInv, si <= Len(disk)
    PROVE  /\ Len(shards) \in Nat /\ si = Len(shards) + 1 /\ si \in 1..Len(disk)
           /\ disk[si] \in Files /\ disk[si].size \in Nat /\ disk[si].header_len \in Nat
           /\ \A n \in DOMAIN disk[si].entries :
                 disk[si].entries[n].formed =>
                     disk[si].entries[n].from \in Nat /\ disk[si].entries[n].to \in Nat
  <1>1. IsSeq(shards) /\ disk \in Seq(Files) BY DEF TypeInv
  <1>2. Len(shards) \in Nat BY <1>1, Extend
  <1>3. Len(disk) \in Nat BY <1>1, LenProperties
  <1>4. si = Len(shards) + 1 BY DEF si
  <1>5. si \in 1..Len(disk) BY <1>2, <1>3, <1>4
  <1>6. disk[si] \in Files BY <1>1, <1>5, ElementOfSeq
  <1> QED BY <1>2, <1>4, <1>5, <1>6 DEF OpenAssumption

-----------------------------------------------------------------------------
\* Nothing has been read.
LEMMA InitInv == ASSUME OpenAssumption, OpenInit PROVE IndInv
  <1>1. disk \in Seq(Files) BY DEF OpenInit, OpenAssumption
  <1>2. shards = << >> /\ bufs = << >> /\ index = << >> /\ shard = NoShard /\ ostage = "stat"
    BY DEF OpenInit
  <1>3. IsSeq(shards) /\ Len(shards) = 0 /\ bufs \in Seq(Nat) /\ Len(bufs) = 0
    BY <1>2, EmptySeq DEF IsSeq
  <1>4. shard \in [file_size : Nat, data_start : Nat, tensors : {shard.tensors}]
    BY <1>2 DEF NoShard
  <1>5. DOMAIN index = {} BY <1>2
  <1> QED BY <1>1, <1>2, <1>3, <1>4, <1>5 DEF IndInv, TypeInv, IndexInv

\* Fail: the call returns an error, and there is no model.
LEMMA FailStep ==
    ASSUME IndInv, Fail, UNCHANGED <<disk, rewritten>>
    PROVE  IndInv'
  <1>1. TypeInv' BY DEF IndInv, TypeInv, Fail
  <1> QED BY <1>1 DEF IndInv, IndexInv, Fail

\* A step that leaves the shards and the index alone, and does not leave "read".
LEMMA SameIndex ==
    ASSUME IndexInv, UNCHANGED <<shards, index, bufs>>,
           ostage # "failed", ostage = "read" => ostage' = "read" /\ UNCHANGED shard
    PROVE  IndexInv'
  BY DEF IndexInv, si

\* Stat asks for the size.
LEMMA StatStep == ASSUME OpenAssumption, IndInv, Stat PROVE IndInv'
  <1>1. TypeInv /\ IndexInv BY DEF IndInv
  <1>2. ostage = "stat" /\ UNCHANGED <<disk, rewritten>> BY DEF Stat
  <1>3. CASE Fail BY <1>2, <1>3, FailStep
  <1>4. CASE ostage' = "opened" /\ UNCHANGED <<shard, shards, index, bufs>>
    <2>1. TypeInv' BY <1>1, <1>2, <1>4 DEF TypeInv
    <2>2. IndexInv' BY <1>1, <1>2, <1>4, SameIndex
    <2> QED BY <2>1, <2>2 DEF IndInv
  <1>5. CASE /\ ~(si > Len(disk)) /\ ostage' = "length"
             /\ shard' = [NoShard EXCEPT !.file_size = disk[si].size]
             /\ UNCHANGED <<shards, index, bufs>>
    <2>1. si <= Len(disk)
      <3>1. Len(disk) \in Nat /\ Len(shards) \in Nat
        BY <1>1, LenProperties, Extend DEF TypeInv
      <3> QED BY <1>5, <3>1 DEF si
    <2>2. disk[si].size \in Nat BY <1>1, <2>1, FileOpen
    <2>3. shard' \in [file_size : Nat, data_start : Nat, tensors : {shard'.tensors}]
      BY <1>5, <2>2 DEF NoShard
    <2>4. si' = si BY <1>5 DEF si
    <2>5. TypeInv' BY <1>1, <1>2, <1>5, <2>1, <2>3, <2>4 DEF TypeInv
    <2>6. IndexInv' BY <1>1, <1>2, <1>5, SameIndex
    <2> QED BY <2>5, <2>6 DEF IndInv
  <1> QED BY <1>3, <1>4, <1>5 DEF Stat

\* ReadLength learns where the data begins.
LEMMA LengthStep == ASSUME OpenAssumption, IndInv, ReadLength PROVE IndInv'
  <1>1. TypeInv /\ IndexInv BY DEF IndInv
  <1>2. ostage = "length" /\ UNCHANGED <<disk, rewritten>> BY DEF ReadLength
  <1>3. CASE Fail BY <1>2, <1>3, FailStep
  <1>4. CASE /\ ostage' = "header" /\ UNCHANGED <<shards, index, bufs>>
             /\ shard' = [shard EXCEPT !.data_start = 8 + disk[si].header_len]
    <2>1. si <= Len(disk) BY <1>1, <1>2 DEF TypeInv
    <2>2. disk[si].header_len \in Nat BY <1>1, <2>1, FileOpen
    <2>3. shard' \in [file_size : Nat, data_start : Nat, tensors : {shard'.tensors}]
      <3>1. shard \in [file_size : Nat, data_start : Nat, tensors : {shard.tensors}]
        BY <1>1 DEF TypeInv
      <3> QED BY <1>4, <2>2, <3>1
    <2>4. si' = si BY <1>4 DEF si
    <2>5. TypeInv' BY <1>1, <1>2, <1>4, <2>1, <2>3, <2>4 DEF TypeInv
    <2>6. IndexInv' BY <1>1, <1>2, <1>4, SameIndex
    <2> QED BY <2>5, <2>6 DEF IndInv
  <1> QED BY <1>3, <1>4 DEF ReadLength

\* An entry that passes the checks lies inside a file of the size asked for.
LEMMA EntryInside ==
    ASSUME NEW e, NEW d \in Nat, NEW z \in Nat, EntryOk(e, d, z),
           e.formed => e.from \in Nat /\ e.to \in Nat,
           NEW t, t.start = d + e.from, t.end = d + e.to, t.shape = e.shape, t.dtype = e.dtype
    PROVE  Inside(t, d, z)
  <1> DEFINE p == Numel(e.shape) * Sizes[e.dtype]
             a == e.from
             b == e.to
  <1>1. a \in Nat /\ b \in Nat /\ a <= b /\ b - a = p /\ d + b <= z BY DEF EntryOk
  <1>2. t.start = d + a /\ t.end = d + b OBVIOUS
  <1> DEFINE u == t.start
             v == t.end
  <1>3. Numel(t.shape) * Sizes[t.dtype] = p OBVIOUS
  <1>4. u = d + a /\ v = d + b BY <1>2
  <1> HIDE DEF p, a, b, u, v
  <1>5. d <= u /\ u <= v /\ v <= z /\ v - u = p BY <1>1, <1>4
  <1> QED BY <1>3, <1>5 DEF Inside, u, v

\* ReadHeader enters the tensors into the index.
LEMMA HeaderStep == ASSUME OpenAssumption, IndInv, ReadHeader PROVE IndInv'
  <1> DEFINE f  == disk[si]
             ts == Parsed(f)
             ix == [n \in DOMAIN index \cup DOMAIN ts |->
                       IF n \in DOMAIN index THEN index[n] ELSE <<si, ts[n]>>]
  <1>1. TypeInv /\ IndexInv BY DEF IndInv
  <1>2. ostage = "header" /\ UNCHANGED <<disk, rewritten>> BY DEF ReadHeader
  <1>3. CASE Fail BY <1>2, <1>3, FailStep
  <1>4. CASE /\ \A n \in DOMAIN f.entries : EntryOk(f.entries[n], shard.data_start, shard.file_size)
             /\ ostage' = "read" /\ shard' = [shard EXCEPT !.tensors = ts]
             /\ index' = ix /\ UNCHANGED <<shards, bufs>>
    <2>1. si <= Len(disk) BY <1>1, <1>2 DEF TypeInv
    <2>2. shard \in [file_size : Nat, data_start : Nat, tensors : {shard.tensors}]
      BY <1>1 DEF TypeInv
    <2>3. /\ shard.file_size \in Nat /\ shard.data_start \in Nat
          /\ shard'.file_size = shard.file_size /\ shard'.data_start = shard.data_start
          /\ shard' \in [file_size : Nat, data_start : Nat, tensors : {shard'.tensors}]
      BY <1>4, <2>2
    <2>4. si' = si BY <1>4 DEF si
    <2>5. TypeInv' BY <1>1, <1>2, <1>4, <2>1, <2>3, <2>4 DEF TypeInv
    <2>6. DOMAIN ts = DOMAIN f.entries BY DEF Parsed
    <2>7. \A n \in DOMAIN ts : Inside(ts[n], shard.data_start, shard.file_size)
      <3> SUFFICES ASSUME NEW n \in DOMAIN ts
                   PROVE  Inside(ts[n], shard.data_start, shard.file_size)
        OBVIOUS
      <3> DEFINE e == f.entries[n]
                 t == ts[n]
      <3>1. n \in DOMAIN f.entries BY <2>6
      <3>2. e.formed => e.from \in Nat /\ e.to \in Nat BY <1>1, <2>1, <3>1, FileOpen
      <3>3. EntryOk(e, shard.data_start, shard.file_size) BY <1>4, <3>1
      <3>4. /\ t.start = shard.data_start + e.from /\ t.end = shard.data_start + e.to
            /\ t.shape = e.shape /\ t.dtype = e.dtype
        BY <3>1 DEF Parsed
      <3> HIDE DEF e, t
      <3>5. Inside(t, shard.data_start, shard.file_size)
        BY <2>3, <3>2, <3>3, <3>4, EntryInside
      <3> QED BY <3>5 DEF t
    <2> HIDE DEF ts
    <2>8. /\ DOMAIN index' = DOMAIN index \cup DOMAIN ts
          /\ \A n \in DOMAIN index : index'[n] = index[n]
          /\ \A n \in DOMAIN ts : n \notin DOMAIN index => index'[n] = <<si, ts[n]>>
      BY <1>4
    <2>9. IndexInv'
      <3> SUFFICES ASSUME NEW n \in DOMAIN index'
                   PROVE  \/ /\ index'[n][1] \in 1..Len(shards)
                             /\ Inside(index'[n][2], shards[index'[n][1]].data_start, bufs[index'[n][1]])
                          \/ /\ index'[n][1] = si
                             /\ Inside(index'[n][2], shard.data_start, shard.file_size)
        BY <1>4, <2>3, <2>4 DEF IndexInv
      <3>1. CASE n \in DOMAIN index
        <4>1. index'[n] = index[n] BY <2>8, <3>1
        <4> QED BY <1>1, <1>2, <3>1, <4>1 DEF IndexInv
      <3>2. CASE n \notin DOMAIN index
        <4>1. n \in DOMAIN ts /\ index'[n] = <<si, ts[n]>> BY <2>8, <3>2
        <4> QED BY <2>7, <4>1
      <3> QED BY <3>1, <3>2
    <2> QED BY <2>5, <2>9 DEF IndInv
  <1> QED BY <1>3, <1>4 DEF ReadHeader

\* ReadFile: the contents have the size that the entries were checked against.
LEMMA FileStep == ASSUME OpenAssumption, IndInv, ReadFile PROVE IndInv'
  <1>1. TypeInv /\ IndexInv BY DEF IndInv
  <1>2. ostage = "read" /\ UNCHANGED <<disk, rewritten>> BY DEF ReadFile
  <1>3. CASE Fail BY <1>2, <1>3, FailStep
  <1>4. CASE /\ disk[si].size = shard.file_size /\ ostage' = "stat"
             /\ shards' = Append(shards, shard) /\ bufs' = Append(bufs, disk[si].size)
             /\ UNCHANGED <<shard, index>>
    <2>1. si <= Len(disk) BY <1>1, <1>2 DEF TypeInv
    <2>2. disk[si].size \in Nat /\ Len(shards) \in Nat /\ si = Len(shards) + 1
      BY <1>1, <2>1, FileOpen
    <2>3. /\ IsSeq(shards') /\ Len(shards') = Len(shards) + 1 /\ shards'[Len(shards) + 1] = shard
          /\ \A k \in 1..Len(shards) : shards'[k] = shards[k]
      BY <1>1, <1>4, Extend DEF TypeInv
    <2>4. /\ bufs' \in Seq(Nat) /\ Len(bufs') = Len(shards) + 1
          /\ bufs'[Len(shards) + 1] = shard.file_size
          /\ \A k \in 1..Len(shards) : bufs'[k] = bufs[k]
      BY <1>1, <1>4, <2>2, AppendProperties DEF TypeInv
    <2>5. TypeInv' BY <1>1, <1>2, <1>4, <2>3, <2>4 DEF TypeInv
    <2>6. ASSUME NEW n \in DOMAIN index
          PROVE  /\ index[n][1] \in 1..(Len(shards) + 1)
                 /\ Inside(index[n][2], shards'[index[n][1]].data_start, bufs'[index[n][1]])
      <3>1. CASE /\ index[n][1] \in 1..Len(shards)
                 /\ Inside(index[n][2], shards[index[n][1]].data_start, bufs[index[n][1]])
        BY <2>2, <2>3, <2>4, <3>1
      <3>2. CASE /\ index[n][1] = si /\ Inside(index[n][2], shard.data_start, shard.file_size)
        BY <2>2, <2>3, <2>4, <3>2
      <3> QED BY <1>1, <1>2, <3>1, <3>2 DEF IndexInv
    <2>7. IndexInv' BY <1>4, <2>3, <2>6 DEF IndexInv
    <2> QED BY <2>5, <2>7 DEF IndInv
  <1> QED BY <1>3, <1>4 DEF ReadFile

\* Rewrite: another file of the same directory.
LEMMA RewriteStep ==
    ASSUME OpenAssumption, IndInv, NEW r \in Rewrites, Rewrite(r[1], r[2])
    PROVE  IndInv'
  <1>1. TypeInv /\ IndexInv BY DEF IndInv
  <1>2. /\ ostage \in {"stat", "length", "header", "read"} /\ si <= Len(disk)
        /\ disk' = [disk EXCEPT ![si] = r[2]]
        /\ UNCHANGED <<ostage, shard, shards, index, bufs>>
    BY DEF Rewrite
  <1>3. r[2] \in Files
    <2>1. r[2] \in {q[2] : q \in Rewrites} OBVIOUS
    <2> QED BY <2>1 DEF Files
  <1>4. si \in 1..Len(disk) /\ disk \in Seq(Files) BY <1>1, <1>2, FileOpen DEF TypeInv
  <1>5. disk' \in Seq(Files) /\ Len(disk') = Len(disk) BY <1>2, <1>3, <1>4, ExceptSeq
  <1>6. si' = si BY <1>2 DEF si
  <1>7. TypeInv' BY <1>1, <1>2, <1>5, <1>6 DEF TypeInv
  <1>8. IndexInv' BY <1>1, <1>2, SameIndex
  <1> QED BY <1>7, <1>8 DEF IndInv

\* A step that changes nothing.
LEMMA StutterStep == ASSUME IndInv, UNCHANGED openVars PROVE IndInv'
  BY DEF IndInv, TypeInv, IndexInv, si, openVars

-----------------------------------------------------------------------------
\* The inductive invariant holds whatever the writer does.
THEOREM Invariance == ASSUME OpenAssumption PROVE OpenSpec => []IndInv
  <1>1. OpenInit => IndInv BY InitInv
  <1>2. IndInv /\ [OpenNext]_openVars => IndInv'
    BY StatStep, LengthStep, HeaderStep, FileStep, RewriteStep, StutterStep DEF OpenNext
  <1> QED BY <1>1, <1>2, PTL DEF OpenSpec

\* Model::open: every tensor of an open model is a slice of the contents that were
\* read, in the data part and of whole elements, although the four calls for a shard
\* may see different files.
THEOREM OpenedInside == ASSUME OpenAssumption PROVE OpenSpec => []SlicesInside
  <1>1. OpenSpec => []IndInv BY Invariance
  <1>2. IndInv => SlicesInside BY DEF IndInv, IndexInv, Inside, SlicesInside
  <1> QED BY <1>1, <1>2, PTL

-----------------------------------------------------------------------------
(* Loading.                                                                  *)

\* The shapes in the index are lists of numbers.
ShapesInv == \A n \in DOMAIN index : index[n][2].shape \in Seq(Nat)

\* Until the model is loaded, what it is loaded from is as OpenSpec says; then it
\* fits.
WeightInv ==
    /\ lstage = "open" => IndInv /\ ShapesInv /\ config \in Configs
    /\ lstage = "bundle" => config \in Bundles
    /\ LoadedFits

\* The wrapped product is commutative and associative.
LEMMA WrappedProduct ==
    ASSUME WeightAssumption, NEW x \in Int, NEW y \in Int, NEW z \in Int
    PROVE  x ** y \in Int /\ x ** y = y ** x /\ (x ** y) ** z = x ** (y ** z)
  <1>1. Word \in Nat \ {0} BY DEF WeightAssumption
  <1>2. x * y \in Int /\ y * z \in Int /\ (x * y) % Word \in Int /\ (y * z) % Word \in Int BY <1>1
  <1>3. x * y = y * x OBVIOUS
  <1>4. (x ** y) ** z = ((x * y) * z) % Word BY <1>1, <1>2, ReduceFactor DEF **
  <1>5. (((y * z) % Word) * x) % Word = ((y * z) * x) % Word BY <1>1, <1>2, ReduceFactor
  <1>6. x ** (y ** z) = ((y * z) * x) % Word
    <2> DEFINE m == (y * z) % Word
    <2>1. m \in Int BY <1>2
    <2>2. x ** (y ** z) = (x * m) % Word BY DEF **
    <2> HIDE DEF m
    <2>3. x * m = m * x BY <2>1
    <2>4. (m * x) % Word = ((y * z) * x) % Word BY <1>5 DEF m
    <2> QED BY <2>2, <2>3, <2>4
  <1>7. (x * y) * z = (y * z) * x OBVIOUS
  <1> QED BY <1>2, <1>3, <1>4, <1>6, <1>7 DEF **

\* The parts of the model and of its layers.
Parts == ModelParts \cup BlockParts \cup LinearAttnParts \cup SelfAttnParts

\* What load asks of each tensor is what the kernels assert, once the settings and
\* the shapes have been compared.
LEMMA RealFits ==
    ASSUME WeightAssumption, NEW c \in Configs, NEW d, d.hidden \in Int, CrossChecks(c, d),
           NEW l, NEW p \in Parts
    PROVE  RealWant(c, d, <<l, p>>) = KernelSize(Sizing(c, d), l, p)
  <1> DEFINE z == Sizing(c, d)
  <1>1. /\ z.vocab = d.vocab /\ z.hidden = d.hidden /\ z.intermediate = d.intermediate
        /\ z.num_k_heads = c.linear_num_key_heads /\ z.num_v_heads = d.num_v_heads
        /\ z.head_k_dim = c.linear_key_head_dim /\ z.head_v_dim = d.head_v_dim
        /\ z.conv_kernel = d.conv_kernel /\ z.num_heads = c.num_attention_heads
        /\ z.num_kv_heads = c.num_key_value_heads /\ z.head_dim = c.head_dim
    BY DEF Sizing
  <1> HIDE DEF z
  <1>2. /\ c.linear_num_key_heads \in Int /\ c.linear_key_head_dim \in Int
        /\ c.linear_num_value_heads \in Int /\ c.linear_value_head_dim \in Int
        /\ c.num_attention_heads \in Int /\ c.head_dim \in Int
    <2>1. \A s \in {"head_dim", "num_attention_heads", "linear_num_key_heads",
                     "linear_num_value_heads", "linear_key_head_dim", "linear_value_head_dim"} :
             c[s] \in Int
      BY DEF WeightAssumption, Missing
    <2> QED BY <2>1
  <1>3. key_dim(z) = d.key_dim
    <2>1. key_dim(z) = c.linear_key_head_dim ** c.linear_num_key_heads BY <1>1 DEF key_dim
    <2>2. c.linear_num_key_heads ** c.linear_key_head_dim = d.key_dim BY DEF CrossChecks
    <2> QED BY <1>2, <2>1, <2>2, WrappedProduct
  <1>4. value_dim(z) = d.value_dim
    <2>1. value_dim(z) = c.linear_value_head_dim ** c.linear_num_value_heads
      BY <1>1 DEF value_dim, CrossChecks
    <2>2. c.linear_num_value_heads ** c.linear_value_head_dim = d.value_dim BY DEF CrossChecks
    <2> QED BY <1>2, <2>1, <2>2, WrappedProduct
  <1>5. conv_dim(z) = d.conv_dim
    <2>1. (2 * d.key_dim + d.value_dim) % Word = d.conv_dim BY DEF CrossChecks
    <2> QED BY <1>3, <1>4, <2>1 DEF conv_dim
  <1>6. q_out_dim(z) = d.q_out /\ kv_out_dim(z) = d.kv_out
    BY <1>1 DEF q_out_dim, kv_out_dim, CrossChecks
  <1>7. (d.hidden ** c.num_attention_heads) ** c.head_dim
          = d.hidden ** (c.num_attention_heads ** c.head_dim)
    <2> DEFINE h == d.hidden
               n == c.num_attention_heads
               e == c.head_dim
    <2>1. h \in Int /\ n \in Int /\ e \in Int BY <1>2
    <2> HIDE DEF h, n, e
    <2>2. (h ** n) ** e = h ** (n ** e) BY <2>1, WrappedProduct
    <2> QED BY <2>2 DEF h, n, e
  <1>8. Want(d, c.num_attention_heads, c.head_dim, <<l, p>>) = KernelSize(z, l, p)
    BY <1>1, <1>4, <1>5, <1>6, <1>7
    DEF Want, KernelSize, Parts, ModelParts, BlockParts, LinearAttnParts, SelfAttnParts
  <1> QED BY <1>8 DEF RealWant, z

\* The same of a bundle, which is asked for what the kernels compute.
LEMMA BundleFits ==
    ASSUME WeightAssumption, NEW z, z.hidden \in Int, z.num_heads \in Int, z.head_dim \in Int,
           NEW l, NEW p \in Parts
    PROVE  BundleWant(z, <<l, p>>) = KernelSize(z, l, p)
  <1> DEFINE h == z.hidden
             n == z.num_heads
             e == z.head_dim
  <1>1. h \in Int /\ n \in Int /\ e \in Int OBVIOUS
  <1>2. (h ** n) ** e = h ** (n ** e)
    <2> HIDE DEF h, n, e
    <2> QED BY <1>1, WrappedProduct
  <1> QED BY <1>2
    DEF BundleWant, Want, KernelSize, Parts, ModelParts, BlockParts, LinearAttnParts, SelfAttnParts

\* The places of a model of n layers.
LEMMA KeysFacts ==
    ASSUME NEW types, NEW n
    PROVE  /\ \A p \in ModelParts : <<NoLayer, p>> \in Keys(types, n)
           /\ \A l \in 0 .. n - 1 : \A p \in LayerParts(kind_of(types, l)) : <<l, p>> \in Keys(types, n)
           /\ ModelParts \subseteq Parts /\ \A kind : LayerParts(kind) \subseteq Parts
  <1>1. \A p \in ModelParts : <<NoLayer, p>> \in Keys(types, n) BY DEF Keys
  <1>2. \A l \in 0 .. n - 1 : \A p \in LayerParts(kind_of(types, l)) : <<l, p>> \in LayerKeys(types, n)
    BY DEF LayerKeys
  <1>3. ModelParts \subseteq Parts /\ \A kind : LayerParts(kind) \subseteq Parts BY DEF Parts, LayerParts
  <1> QED BY <1>1, <1>2, <1>3 DEF Keys

\* A model in which every place holds what the kernels assert, and whose heads
\* divide, fits.
LEMMA Fits ==
    ASSUME NEW z, NEW w, NEW types, NEW n,
           Len(z.kinds) = n, \A l \in 0 .. n - 1 : kind_of(z.kinds, l) = kind_of(types, l),
           DOMAIN w = Keys(types, n),
           \A l, p : <<l, p>> \in Keys(types, n) /\ p \in Parts => w[<<l, p>>] = KernelSize(z, l, p)
    PROVE  /\ \A l \in 0 .. Len(z.kinds) - 1 : \A p \in LayerParts(kind_of(z.kinds, l)) :
                  <<l, p>> \in DOMAIN w /\ w[<<l, p>>] = KernelSize(z, l, p)
           /\ \A p \in {"embed_tokens", "lm_head", "norm"} : w[<<NoLayer, p>>] = KernelSize(z, NoLayer, p)
  <1>1. ASSUME NEW l \in 0 .. Len(z.kinds) - 1, NEW p \in LayerParts(kind_of(z.kinds, l))
        PROVE  <<l, p>> \in DOMAIN w /\ w[<<l, p>>] = KernelSize(z, l, p)
    BY <1>1, KeysFacts
  <1>2. ASSUME NEW p \in ModelParts PROVE w[<<NoLayer, p>>] = KernelSize(z, NoLayer, p)
    BY <1>2, KeysFacts
  <1> QED BY <1>1, <1>2 DEF ModelParts

\* load: a checkpoint that is loaded fits.
LEMMA RealStep == ASSUME WeightAssumption, WeightInv, LoadReal PROVE WeightInv'
  <1> DEFINE c == config
             d == Derived(c)
             n == c.num_hidden_layers
             keys == Keys(c.layer_types, n)
             emb == T(NoLayer, "embed_tokens")
  <1>1. lstage = "open" /\ ShapesInv /\ c \in Configs BY DEF LoadReal, WeightInv
  <1>2. CASE lstage' \in {"refused", "panic"} BY <1>2 DEF WeightInv, LoadedFits
  <1>3. CASE /\ ~(Len(c.layer_types) < n) /\ Len(Shape(emb)) = 2
             /\ CrossChecks(c, d) /\ RotaryOk(rotary_dim(c), c.head_dim)
             /\ \A key \in keys : Source(c, key) \in Names /\ Length(Source(c, key)) = RealWant(c, d, key)
             /\ lstage' = "loaded" /\ sizes' = Sizing(c, d)
             /\ weights' = [key \in keys |-> Length(Source(c, key))]
    <2>1. c.layer_types \in Seq(STRING) /\ n \in Nat BY <1>1 DEF WeightAssumption
    <2>2. d.hidden \in Int
      <3>1. <<NoLayer, "embed_tokens">> \in keys BY <2>1, KeysFacts DEF ModelParts
      <3>2. Source(c, <<NoLayer, "embed_tokens">>) = emb BY DEF Source
      <3>3. emb \in Names BY <1>3, <3>1, <3>2
      <3>4. Shape(emb) \in Seq(Nat) BY <1>1, <3>3 DEF ShapesInv, Names, Shape
      <3>5. Shape(emb)[2] \in Nat BY <1>3, <3>4, ElementOfSeq
      <3>6. d.hidden = Shape(emb)[2] BY DEF Derived
      <3> QED BY <3>5, <3>6
    <2> HIDE DEF d
    <2>3. \A l, p : <<l, p>> \in keys /\ p \in Parts =>
             weights'[<<l, p>>] = KernelSize(sizes', l, p)
      BY <1>1, <1>3, <2>2, RealFits
    <2>4. /\ sizes'.kinds = SubSeq(c.layer_types, 1, n)
          /\ sizes'.num_v_heads = d.num_v_heads /\ sizes'.num_k_heads = c.linear_num_key_heads
          /\ sizes'.num_heads = c.num_attention_heads /\ sizes'.num_kv_heads = c.num_key_value_heads
          /\ sizes'.rotary_dim = rotary_dim(c) /\ sizes'.head_dim = c.head_dim
      BY <1>3 DEF Sizing
    <2>5. /\ Len(sizes'.kinds) = n
          /\ \A l \in 0 .. n - 1 : kind_of(sizes'.kinds, l) = kind_of(c.layer_types, l)
      <3>1. Len(c.layer_types) \in Nat /\ n <= Len(c.layer_types) BY <1>3, <2>1, LenProperties
      <3>2. /\ Len(sizes'.kinds) = n
            /\ \A k \in 1 .. n : sizes'.kinds[k] = c.layer_types[k]
        BY <2>1, <2>4, <3>1, SubSeqProperties
      <3> QED BY <2>1, <3>1, <3>2 DEF kind_of
    <2>6. DOMAIN weights' = keys BY <1>3
    <2>7. LoadedFits'
      <3>1. /\ \A l \in 0 .. Len(sizes'.kinds) - 1 : \A p \in LayerParts(kind_of(sizes'.kinds, l)) :
                  <<l, p>> \in DOMAIN weights' /\ weights'[<<l, p>>] = KernelSize(sizes', l, p)
            /\ \A p \in {"embed_tokens", "lm_head", "norm"} :
                  weights'[<<NoLayer, p>>] = KernelSize(sizes', NoLayer, p)
        BY <2>1, <2>3, <2>5, <2>6, Fits
      <3>2. /\ sizes'.num_v_heads % sizes'.num_k_heads = 0
            /\ sizes'.num_heads % sizes'.num_kv_heads = 0
        BY <1>3, <2>4 DEF CrossChecks
      <3>3. RotaryOk(sizes'.rotary_dim, sizes'.head_dim) BY <1>3, <2>4
      <3> QED BY <3>1, <3>2, <3>3 DEF LoadedFits
    <2> QED BY <1>3, <2>7 DEF WeightInv
  <1> QED BY <1>2, <1>3 DEF LoadReal, Refuse

\* load_model and the weights: a bundle that is loaded fits.
LEMMA BundleStep == ASSUME WeightAssumption, WeightInv, LoadBundle PROVE WeightInv'
  <1> DEFINE z == BundleSizing
             keys == Keys(z.kinds, Len(z.kinds))
             ln == <<0, "input_layernorm">>
  <1>1. lstage = "bundle" /\ config \in Bundles BY DEF LoadBundle, WeightInv
  <1>2. CASE lstage' \in {"refused", "panic"} BY <1>2 DEF WeightInv, LoadedFits
  <1>3. CASE /\ \A k \in BundleProbes : Has(k)
             /\ DimsConsistent(z) /\ RotaryOk(z.rotary_dim, z.head_dim) /\ z.num_heads % z.num_kv_heads = 0
             /\ \A k \in keys : Has(k) /\ Numel(config.shapes[k]) = BundleWant(z, k)
             /\ lstage' = "loaded" /\ sizes' = z
             /\ weights' = [k \in keys |-> Numel(config.shapes[k])]
    <2>1. z.hidden \in Int
      <3>1. ln \in BundleProbes BY DEF BundleProbes
      <3>2. config.shapes[ln] \in Seq(Nat) BY <1>1, <1>3, <3>1 DEF Has, WeightAssumption
      <3>3. FirstAxis(ln) \in Nat BY <3>2 DEF FirstAxis
      <3>4. z.hidden = FirstAxis(ln) BY DEF BundleSizing
      <3> QED BY <3>3, <3>4
    <2>2. z.num_heads \in Int /\ z.head_dim \in Int
      <3>1. config["num_attention_heads"] \in Int /\ config["head_dim"] \in Int
        BY <1>1 DEF WeightAssumption, Missing
      <3>2. z.num_heads = config.num_attention_heads /\ z.head_dim = config.head_dim
        BY DEF BundleSizing
      <3> QED BY <3>1, <3>2
    <2> HIDE DEF z
    <2>3. \A l, p : <<l, p>> \in keys /\ p \in Parts => weights'[<<l, p>>] = KernelSize(z, l, p)
      BY <1>3, <2>1, <2>2, BundleFits
    <2>4. DOMAIN weights' = keys BY <1>3
    <2>5. /\ \A l \in 0 .. Len(z.kinds) - 1 : \A p \in LayerParts(kind_of(z.kinds, l)) :
               <<l, p>> \in DOMAIN weights' /\ weights'[<<l, p>>] = KernelSize(z, l, p)
          /\ \A p \in {"embed_tokens", "lm_head", "norm"} :
               weights'[<<NoLayer, p>>] = KernelSize(z, NoLayer, p)
      <3> HIDE DEF keys
      <3> QED BY <2>3, <2>4, Fits DEF keys
    <2>6. LoadedFits' BY <1>3, <2>5 DEF LoadedFits, DimsConsistent
    <2> QED BY <1>3, <2>6 DEF WeightInv
  <1> QED BY <1>2, <1>3 DEF LoadBundle, Refuse

\* Opening: only ReadHeader enters tensors into the index, and their shapes are
\* well formed.
LEMMA ShapesStep == ASSUME OpenAssumption, IndInv, ShapesInv, OpenNext PROVE ShapesInv'
  <1>1. CASE UNCHANGED index BY <1>1 DEF ShapesInv
  <1>2. CASE /\ ostage = "header" /\ \A n \in DOMAIN disk[si].entries : disk[si].entries[n].formed
             /\ index' = [n \in DOMAIN index \cup DOMAIN Parsed(disk[si]) |->
                             IF n \in DOMAIN index THEN index[n] ELSE <<si, Parsed(disk[si])[n]>>]
    <2>1. \A n \in DOMAIN disk[si].entries : disk[si].entries[n].shape \in Seq(Nat)
      <3>1. si <= Len(disk) BY <1>2 DEF IndInv, TypeInv
      <3>2. disk[si] \in Files BY <3>1, FileOpen DEF IndInv
      <3> QED BY <1>2, <3>2 DEF OpenAssumption
    <2>2. /\ DOMAIN Parsed(disk[si]) = DOMAIN disk[si].entries
          /\ \A n \in DOMAIN disk[si].entries : Parsed(disk[si])[n].shape = disk[si].entries[n].shape
      BY DEF Parsed
    <2> QED BY <1>2, <2>1, <2>2 DEF ShapesInv
  <1>3. ReadHeader => \/ UNCHANGED index
                      \/ /\ ostage = "header"
                         /\ \A n \in DOMAIN disk[si].entries : disk[si].entries[n].formed
                         /\ index' = [n \in DOMAIN index \cup DOMAIN Parsed(disk[si]) |->
                                        IF n \in DOMAIN index THEN index[n] ELSE <<si, Parsed(disk[si])[n]>>]
    BY DEF ReadHeader, Fail, EntryOk
  <1>4. Stat \/ ReadLength \/ ReadFile \/ (\E r \in Rewrites : Rewrite(r[1], r[2])) => UNCHANGED index
    BY DEF Stat, ReadLength, ReadFile, Rewrite, Fail
  <1> QED BY <1>1, <1>2, <1>3, <1>4 DEF OpenNext

\* One call of Model::open or of load.
LEMMA WeightStep ==
    ASSUME OpenAssumption, WeightAssumption, WeightInv, [WeightNext]_weightVars
    PROVE  WeightInv'
  <1>1. CASE lstage = "open" /\ OpenNext /\ UNCHANGED <<lstage, config, sizes, weights>>
    <2>1. IndInv' /\ ShapesInv'
      BY <1>1, StatStep, LengthStep, HeaderStep, FileStep, RewriteStep, ShapesStep
      DEF OpenNext, WeightInv
    <2> QED BY <1>1, <2>1 DEF WeightInv, LoadedFits
  <1>2. CASE UNCHANGED weightVars
    <2>1. UNCHANGED openVars /\ UNCHANGED <<lstage, config, sizes, weights>> BY <1>2 DEF weightVars
    <2>2. IndInv => IndInv' BY <2>1, StutterStep
    <2>3. ShapesInv => ShapesInv' BY <2>1 DEF ShapesInv, openVars
    <2> QED BY <2>1, <2>2, <2>3 DEF WeightInv, LoadedFits
  <1> QED BY <1>1, <1>2, RealStep, BundleStep DEF WeightNext

\* A model that loads, from a checkpoint another process may be rewriting or from a
\* bundle, satisfies every size assertion of the forward pass, for every settings and
\* shapes: the products that were compared wrap as the kernels' do.
THEOREM LoadedModelFits ==
    ASSUME OpenAssumption, WeightAssumption PROVE WeightSpec => []LoadedFits
  <1>1. WeightInit => WeightInv
    <2> SUFFICES ASSUME WeightInit PROVE WeightInv OBVIOUS
    <2>1. lstage # "loaded" BY DEF WeightInit
    <2>2. CASE lstage = "open" /\ OpenInit /\ config \in Configs
      <3>1. IndInv BY <2>2, InitInv
      <3>2. DOMAIN index = {} BY <2>2 DEF OpenInit
      <3> QED BY <2>1, <2>2, <3>1, <3>2 DEF WeightInv, ShapesInv, LoadedFits
    <2>3. CASE lstage = "bundle" /\ config \in Bundles
      BY <2>1, <2>3 DEF WeightInv, LoadedFits
    <2> QED BY <2>2, <2>3 DEF WeightInit
  <1>2. WeightInv /\ [WeightNext]_weightVars => WeightInv' BY WeightStep
  <1>3. WeightInv => LoadedFits BY DEF WeightInv
  <1> QED BY <1>1, <1>2, <1>3, PTL DEF WeightSpec

-----------------------------------------------------------------------------
(* gdncheck: the names of the captures.                                      *)

\* The linear layers among the first n.
LinearBefore(n) == {k \in 0 .. n - 1 : is_linear(k)}
Earlier(n) == Cardinality(LinearBefore(n))

\* They are counted one by one.
LEMMA Counting ==
    ASSUME NEW n \in Nat
    PROVE  /\ IsFiniteSet(LinearBefore(n)) /\ Earlier(n) \in Nat
           /\ LinearBefore(0) = {} /\ Earlier(0) = 0
           /\ Earlier(n + 1) = IF is_linear(n) THEN Earlier(n) + 1 ELSE Earlier(n)
  <1>1. IsFiniteSet(LinearBefore(n)) /\ Earlier(n) \in Nat
    <2>1. IsFiniteSet(0 .. n - 1) BY FS_Interval
    <2>2. LinearBefore(n) \in SUBSET (0 .. n - 1) BY DEF LinearBefore
    <2> QED BY <2>1, <2>2, FS_Subset, FS_CardinalityType DEF Earlier
  <1>2. LinearBefore(0) = {} BY DEF LinearBefore
  <1>3. Earlier(0) = 0 BY <1>2, FS_EmptySet DEF Earlier
  <1>4. 0 .. (n + 1) - 1 = (0 .. n - 1) \cup {n} /\ n \notin 0 .. n - 1 OBVIOUS
  <1>5. CASE is_linear(n)
    <2>1. LinearBefore(n + 1) = LinearBefore(n) \cup {n} /\ n \notin LinearBefore(n)
      BY <1>4, <1>5, Zenon DEF LinearBefore
    <2>2. Earlier(n + 1) = Earlier(n) + 1 BY <1>1, <2>1, FS_AddElement DEF Earlier
    <2> QED BY <1>1, <1>2, <1>3, <1>5, <2>2, Zenon
  <1>6. CASE ~is_linear(n)
    <2>1. LinearBefore(n + 1) = LinearBefore(n) BY <1>4, <1>6, Zenon DEF LinearBefore
    <2>2. Earlier(n + 1) = Earlier(n) BY <2>1, Zenon DEF Earlier
    <2> QED BY <1>1, <1>2, <1>3, <1>6, <2>2, Zenon
  <1> QED BY <1>1, <1>2, <1>3, <1>5, <1>6

\* Two linear layers have different ordinals.
LEMMA OrdinalUnique ==
    ASSUME NEW l \in Nat, NEW m \in Nat, is_linear(l), is_linear(m), Earlier(l) = Earlier(m)
    PROVE  l = m
  <1>1. ASSUME NEW a \in Nat, NEW b \in Nat, is_linear(a), a < b PROVE Earlier(a) < Earlier(b)
    <2>1. Earlier(a + 1) = Earlier(a) + 1 /\ Earlier(a) \in Nat BY <1>1, Counting
    <2>2. IsFiniteSet(LinearBefore(b)) /\ Earlier(b) \in Nat BY Counting
    <2>3. LinearBefore(a + 1) \in SUBSET LinearBefore(b)
      <3>1. \A k \in 0 .. (a + 1) - 1 : k \in 0 .. b - 1 BY <1>1
      <3> QED BY <3>1, Zenon DEF LinearBefore
    <2>4. Earlier(a + 1) <= Earlier(b) BY <2>2, <2>3, FS_Subset DEF Earlier
    <2> QED BY <2>1, <2>2, <2>4
  <1>2. Earlier(l) \in Nat BY Counting
  <1>3. ~(l < m) /\ ~(m < l) BY <1>1, <1>2
  <1> QED BY <1>3

\* Every ordinal is that of a linear layer.
LEMMA OrdinalExists ==
    ASSUME NEW n \in Nat, NEW k \in 0 .. Earlier(n) - 1
    PROVE  \E l \in 0 .. n - 1 : is_linear(l) /\ Earlier(l) = k
  <1> DEFINE Numbered(i) == \A j \in 0 .. Earlier(i) - 1 : \E l \in 0 .. i - 1 : is_linear(l) /\ Earlier(l) = j
             Good == {i \in Nat : Numbered(i)}
  <1>1. 0 \in Good
    <2>1. Earlier(0) = 0 BY Counting
    <2>2. 0 .. Earlier(0) - 1 = {} BY <2>1
    <2> QED BY <2>2
  <1>2. ASSUME NEW i \in Nat, i \in Good PROVE i + 1 \in Good
    <2>1. Numbered(i) BY <1>2
    <2>2. Earlier(i) \in Nat /\ Earlier(i + 1) = IF is_linear(i) THEN Earlier(i) + 1 ELSE Earlier(i) BY Counting
    <2>3. \A l \in 0 .. i - 1 : l \in 0 .. (i + 1) - 1 OBVIOUS
    <2>4. ASSUME NEW j \in 0 .. Earlier(i + 1) - 1
          PROVE  \E l \in 0 .. (i + 1) - 1 : is_linear(l) /\ Earlier(l) = j
      <3>1. CASE j \in 0 .. Earlier(i) - 1
        <4>1. PICK l \in 0 .. i - 1 : is_linear(l) /\ Earlier(l) = j BY <2>1, <3>1
        <4> QED BY <2>3, <4>1
      <3>2. CASE j \notin 0 .. Earlier(i) - 1
        <4>1. is_linear(i) /\ j = Earlier(i) BY <2>2, <3>2
        <4>2. i \in 0 .. (i + 1) - 1 OBVIOUS
        <4> QED BY <4>1, <4>2
      <3> QED BY <3>1, <3>2
    <2> QED BY <2>4
  <1>3. \A i \in Nat : i \in Good
    <2> HIDE DEF Good
    <2> QED BY <1>1, <1>2, Induct
  <1>4. Numbered(n) BY <1>3
  <1> QED BY <1>4

\* The reference's hooks see the k-th linear layer at the k-th call, and the checker
\* names that call by the layer's ordinal.
LEMMA Nth ==
    ASSUME Len(job.kinds) \in Nat
    PROVE  /\ \A l \in Layers : is_linear(l) =>
                 /\ ssm_ordinal(l) = Earlier(l)
                 /\ Earlier(l) \in 0 .. Earlier(Len(job.kinds)) - 1 /\ NthLinear(Earlier(l)) = l
           /\ \A k \in 0 .. Earlier(Len(job.kinds)) - 1 :
                 /\ NthLinear(k) \in Layers /\ is_linear(NthLinear(k)) /\ Earlier(NthLinear(k)) = k
  <1> DEFINE N == Len(job.kinds)
  <1>1. Layers = 0 .. N - 1 /\ Layers \subseteq Nat BY DEF Layers
  <1>2. \A k : NthLinear(k) = CHOOSE l \in Layers : is_linear(l) /\ Earlier(l) = k
    BY DEF NthLinear, Earlier, LinearBefore
  <1>3. ASSUME NEW k \in 0 .. Earlier(N) - 1
        PROVE  NthLinear(k) \in Layers /\ is_linear(NthLinear(k)) /\ Earlier(NthLinear(k)) = k
    <2>1. \E l \in Layers : is_linear(l) /\ Earlier(l) = k BY <1>1, OrdinalExists
    <2> QED BY <1>2, <2>1
  <1>4. ASSUME NEW l \in Layers, is_linear(l)
        PROVE  /\ ssm_ordinal(l) = Earlier(l)
               /\ Earlier(l) \in 0 .. Earlier(N) - 1 /\ NthLinear(Earlier(l)) = l
    <2>1. ssm_ordinal(l) = Earlier(l) BY <1>4 DEF ssm_ordinal, Earlier, LinearBefore
    <2>2. l \in Nat /\ l + 1 \in Nat /\ l < N BY <1>1
    <2>3. Earlier(l) \in Nat /\ Earlier(l + 1) = Earlier(l) + 1 BY <1>4, <2>2, Counting
    <2>4. Earlier(l + 1) <= Earlier(N)
      <3>1. IsFiniteSet(LinearBefore(N)) BY Counting
      <3>2. \A k \in 0 .. (l + 1) - 1 : k \in 0 .. N - 1 BY <2>2
      <3>3. LinearBefore(l + 1) \in SUBSET LinearBefore(N) BY <3>2, Zenon DEF LinearBefore
      <3> QED BY <3>1, <3>3, FS_Subset DEF Earlier
    <2>5. Earlier(N) \in Nat BY Counting
    <2>6. Earlier(l) \in 0 .. Earlier(N) - 1 BY <2>3, <2>4, <2>5
    <2> DEFINE m == NthLinear(Earlier(l))
    <2>7. m \in Layers /\ is_linear(m) /\ Earlier(m) = Earlier(l) BY <1>3, <2>6
    <2> HIDE DEF m
    <2>8. m \in Nat BY <1>1, <2>7
    <2>9. m = l BY <1>4, <2>2, <2>7, <2>8, OrdinalUnique
    <2> QED BY <2>1, <2>6, <2>9 DEF m
  <1> QED BY <1>3, <1>4

\* The captures of a layer.
CapturesOf(l) == {n \in Captures : Origin(n)[1] = l}

\* verify_layer compares each part of a layer with a capture of that part, and leaves
\* no capture of the layer out.
LEMMA StepsAreCaptures ==
    ASSUME Len(job.kinds) \in Nat, NEW l \in Layers
    PROVE  /\ \A s \in LayerSteps(l) : s[2] # <<>> /\ s[2] \in CapturesOf(l) /\ Origin(s[2]) = <<l, s[1]>>
           /\ \A n \in CapturesOf(l) : \E s \in LayerSteps(l) : s[2] = n
  <1> DEFINE N == Len(job.kinds)
             ks == 0 .. Cardinality({m \in Layers : is_linear(m)}) - 1
             per(m) == MlpParts \cup {"input_layernorm"} \cup IF is_linear(m) THEN LinearParts ELSE FullParts
             o == Earlier(l)
  <1>1. l \in Nat /\ l # None BY DEF Layers, None
  <1>2. \A n : n \in Captures <=>
               \/ \E m \in Layers : \E p \in per(m) : n = <<"layer", m, p>>
               \/ \E k \in ks : \E p \in ConvParts : n = <<"conv", k, p>>
               \/ \E k \in ks : \E p \in DeltaParts : n = <<"delta", k, p>>
               \/ \E p \in {"embed_tokens", "norm", "lm_head", "rope"} : n = <<"model", 0, p>>
    <2> DEFINE A == UNION {{"layer"} \X {m} \X per(m) : m \in Layers}
               B == {"conv"} \X ks \X ConvParts
               C == {"delta"} \X ks \X DeltaParts
               D == {"model"} \X {0} \X {"embed_tokens", "norm", "lm_head", "rope"}
    <2>1. Captures = A \cup B \cup C \cup D BY DEF Captures
    <2> HIDE DEF ks, per
    <2>2. \A n : n \in A <=> \E m \in Layers : n \in {"layer"} \X {m} \X per(m) BY Zenon
    <2>3. \A n, m : n \in {"layer"} \X {m} \X per(m) <=> \E p \in per(m) : n = <<"layer", m, p>> OBVIOUS
    <2>4. \A n : n \in B <=> \E k \in ks : \E p \in ConvParts : n = <<"conv", k, p>> OBVIOUS
    <2>5. \A n : n \in C <=> \E k \in ks : \E p \in DeltaParts : n = <<"delta", k, p>> OBVIOUS
    <2>6. \A n : n \in D <=> \E p \in {"embed_tokens", "norm", "lm_head", "rope"} : n = <<"model", 0, p>> OBVIOUS
    <2> HIDE DEF A, B, C, D
    <2>7. \A n : n \in Captures <=> n \in A \/ n \in B \/ n \in C \/ n \in D BY <2>1
    <2> QED BY <2>2, <2>3, <2>4, <2>5, <2>6, <2>7
  <1>3. \A m, p : Origin(<<"layer", m, p>>) = <<m, p>> BY DEF Origin
  <1>4. \A k, p : /\ Origin(<<"conv", k, p>>) = <<NthLinear(k), p>>
                 /\ Origin(<<"delta", k, p>>) = <<NthLinear(k), p>>
    BY DEF Origin
  <1>5. \A p : Origin(<<"model", 0, p>>) = <<None, p>> BY DEF Origin
  <1>0. ks = 0 .. Earlier(N) - 1 BY DEF Earlier, LinearBefore, Layers
  <1> HIDE DEF ks
  <1>6. is_linear(l) => ssm_ordinal(l) = o /\ o \in ks /\ NthLinear(o) = l /\ o # None
    <2>1. o \in Nat BY <1>1, Counting
    <2> QED BY <1>0, <2>1, Nth DEF None
  <1>7. \A k \in ks : NthLinear(k) = l => is_linear(l) /\ k = o BY <1>0, Nth
  <1> HIDE DEF o
  <1>8. \A s : s \in LayerSteps(l) <=>
               \/ \E p \in per(l) : s = <<p, <<"layer", l, p>>>>
               \/ is_linear(l) /\ \E p \in ConvParts : s = <<p, <<"conv", o, p>>>>
               \/ is_linear(l) /\ \E p \in DeltaParts : s = <<p, <<"delta", o, p>>>>
    <2>1. CASE is_linear(l)
      <3>1. \A p : conv(ssm_ordinal(l), p) = <<"conv", o, p>> /\ delta(ssm_ordinal(l), p) = <<"delta", o, p>>
        BY <1>6, <2>1 DEF conv, delta
      <3> QED BY <2>1, <3>1, Zenon DEF LayerSteps, Named
    <2>2. CASE ~is_linear(l) BY <2>2, Zenon DEF LayerSteps, Named
    <2> QED BY <2>1, <2>2
  <1> HIDE DEF per
  <1>9. ASSUME NEW s \in LayerSteps(l)
        PROVE  s[2] # <<>> /\ s[2] \in CapturesOf(l) /\ Origin(s[2]) = <<l, s[1]>>
    <2>1. CASE \E p \in per(l) : s = <<p, <<"layer", l, p>>>>
      <3>1. PICK p \in per(l) : s = <<p, <<"layer", l, p>>>> BY <2>1
      <3>2. s[1] = p /\ s[2] = <<"layer", l, p>> BY <3>1
      <3>3. s[2] \in Captures BY <1>2, <3>2
      <3>4. Origin(s[2]) = <<l, p>> BY <1>3, <3>2
      <3> QED BY <3>2, <3>3, <3>4 DEF CapturesOf
    <2>2. CASE is_linear(l) /\ \E p \in ConvParts : s = <<p, <<"conv", o, p>>>>
      <3>1. PICK p \in ConvParts : s = <<p, <<"conv", o, p>>>> BY <2>2
      <3>2. s[1] = p /\ s[2] = <<"conv", o, p>> BY <3>1
      <3>3. s[2] \in Captures BY <1>2, <1>6, <2>2, <3>2
      <3>4. Origin(s[2]) = <<l, p>> BY <1>4, <1>6, <2>2, <3>2
      <3> QED BY <3>2, <3>3, <3>4 DEF CapturesOf
    <2>3. CASE is_linear(l) /\ \E p \in DeltaParts : s = <<p, <<"delta", o, p>>>>
      <3>1. PICK p \in DeltaParts : s = <<p, <<"delta", o, p>>>> BY <2>3
      <3>2. s[1] = p /\ s[2] = <<"delta", o, p>> BY <3>1
      <3>3. s[2] \in Captures BY <1>2, <1>6, <2>3, <3>2
      <3>4. Origin(s[2]) = <<l, p>> BY <1>4, <1>6, <2>3, <3>2
      <3> QED BY <3>2, <3>3, <3>4 DEF CapturesOf
    <2> QED BY <1>8, <2>1, <2>2, <2>3
  <1>10. ASSUME NEW n \in CapturesOf(l) PROVE \E s \in LayerSteps(l) : s[2] = n
    <2>1. n \in Captures /\ Origin(n)[1] = l BY DEF CapturesOf
    <2>2. ASSUME NEW p, <<p, n>> \in LayerSteps(l) PROVE \E s \in LayerSteps(l) : s[2] = n
      <3>1. <<p, n>>[2] = n OBVIOUS
      <3> QED BY <2>2, <3>1, Zenon
    <2>3. ASSUME NEW m \in Layers, NEW p \in per(m), n = <<"layer", m, p>>
          PROVE  <<p, n>> \in LayerSteps(l)
      <3>1. m = l BY <1>3, <2>1, <2>3
      <3> QED BY <1>8, <2>3, <3>1
    <2>4. ASSUME NEW k \in ks, NEW p \in ConvParts, n = <<"conv", k, p>>
          PROVE  <<p, n>> \in LayerSteps(l)
      <3>1. NthLinear(k) = l BY <1>4, <2>1, <2>4
      <3>2. is_linear(l) /\ k = o BY <1>7, <3>1
      <3> QED BY <1>8, <2>4, <3>2
    <2>5. ASSUME NEW k \in ks, NEW p \in DeltaParts, n = <<"delta", k, p>>
          PROVE  <<p, n>> \in LayerSteps(l)
      <3>1. NthLinear(k) = l BY <1>4, <2>1, <2>5
      <3>2. is_linear(l) /\ k = o BY <1>7, <3>1
      <3> QED BY <1>8, <2>5, <3>2
    <2>6. ASSUME NEW p, n = <<"model", 0, p>> PROVE FALSE BY <1>1, <1>5, <2>1, <2>6
    <2> QED BY <1>2, <2>1, <2>2, <2>3, <2>4, <2>5, <2>6
  <1> QED BY <1>9, <1>10

\* What a layer must be fed with.
InputOf(l) == IF l = 0 THEN <<None, "embed_tokens">> ELSE <<l - 1, "out">>
Fed(l) == reads_exact(input_name(l))

\* The name the input is read under is the right one.
LEMMA InputNamed == \A l : Origin(input_name(l)) = InputOf(l)
  BY DEF Origin, input_name, InputOf

\* verify_layer passes a layer exactly when the layer deserves it.
LEMMA LayerChecked ==
    ASSUME Len(job.kinds) \in Nat, NEW l \in Layers, NEW mode, NEW sized \in BOOLEAN
    PROVE  /\ verify_layer(mode, l, InputOf(l), sized) = "ok" <=> LayerDeserves(mode, l) /\ sized
           /\ verify_layer(mode, l, InputOf(l), sized) = "panic" => ~sized
  <1> DEFINE ok(s) == step_opt(mode, l, TRUE, s)
  <1>1. \A s \in LayerSteps(l) : ok(s) <=> reads_exact(s[2]) /\ Dev(mode, Origin(s[2])) <= tol
    <2> TAKE s \in LayerSteps(l)
    <2>1. s[2] # <<>> /\ Origin(s[2]) = <<l, s[1]>> BY StepsAreCaptures
    <2>2. max_abs_diff(mode, <<l, s[1]>>, TRUE, s[2]) = Dev(mode, Origin(s[2])) BY <2>1 DEF max_abs_diff
    <2> QED BY <2>1, <2>2, Zenon DEF step_opt
  <1>2. (\A s \in LayerSteps(l) : ok(s)) <=> \A n \in CapturesOf(l) : reads_exact(n) /\ Dev(mode, Origin(n)) <= tol
    <2> HIDE DEF ok
    <2>1. \A s \in LayerSteps(l) : s[2] \in CapturesOf(l) BY StepsAreCaptures
    <2>2. \A n \in CapturesOf(l) : \E s \in LayerSteps(l) : s[2] = n BY StepsAreCaptures
    <2> QED BY <1>1, <2>1, <2>2, Zenon
  <1>3. failed(mode, l, TRUE) = {} <=> \A s \in LayerSteps(l) : ok(s) BY Zenon DEF failed
  <1>4. LayerDeserves(mode, l) <=>
            l \notin job.weights /\ \A n \in CapturesOf(l) : reads_exact(n) /\ Dev(mode, Origin(n)) <= tol
    BY Zenon DEF LayerDeserves, CapturesOf
  <1> HIDE DEF ok
  <1>5. LayerDeserves(mode, l) <=> l \notin job.weights /\ failed(mode, l, TRUE) = {} BY <1>2, <1>3, <1>4, Zenon
  <1>6. verify_layer(mode, l, InputOf(l), sized) =
            IF l \in job.weights THEN "error"
            ELSE IF ~sized THEN "panic"
            ELSE IF failed(mode, l, TRUE) # {} THEN "failed" ELSE "ok"
    BY DEF verify_layer, InputOf
  <1> QED BY <1>5, <1>6

-----------------------------------------------------------------------------
\* The parts of what gdncheck is about, in the order it looks at them.
RopeRead == reads_exact(<<"model", 0, "rope">>)
RopeFine == Dev("rope", <<None, "rope">>) <= tol
Alone == IF job.only = None THEN Layers ELSE {job.only}
IsolatedFine(S) == \A l \in S : LayerDeserves("isolated", l) /\ Fed(l)
ChainFine(n) == \A l \in 0 .. n - 1 : LayerDeserves("chain", l) /\ Fed(0)
Chained == job.chain /\ job.only = None => ChainFine(Len(job.kinds))
ModelFine == /\ \A p \in {"embed_tokens", "norm", "lm_head"} :
                    reads_exact(<<"model", 0, p>>) /\ Dev("model", <<None, p>>) <= tol
             /\ \A l \in Layers : reads_exact(<<"layer", l, "out">>) /\ Dev("model", <<l, "out">>) <= tol
GreedyFine == /\ \A k \in DOMAIN job.greedy : job.greedy[k].got = job.greedy[k].argmax_token
                                               /\ (job.greedy[k].readable => job.greedy[k].logit_abs <= tol)
              /\ job.final_ids = job.prompt \o [k \in DOMAIN job.greedy |-> job.greedy[k].argmax_token]
LayersFine == RopeFine /\ IsolatedFine(Alone) /\ Chained

\* Together they are what it promises.
LEMMA GdnParts ==
    ASSUME Len(job.kinds) \in Nat \ {0}, job.opens \in BOOLEAN, job.chain \in BOOLEAN, job.model \in BOOLEAN
    PROVE  GdnDeserves <=>
              /\ job.opens /\ RopeRead
              /\ LayerOnly \/ RopeFine
              /\ IsolatedFine(Alone) /\ Chained
              /\ job.model => job.weights = {} /\ job.errs = {} /\ ModelFine /\ GreedyFine
  <1>1. Layers = 0 .. Len(job.kinds) - 1 /\ 0 \in Layers BY DEF Layers
  <1>2. Chained <=> (job.chain /\ job.only = None => Fed(0) /\ \A l \in Layers : LayerDeserves("chain", l))
    BY <1>1, Zenon DEF Chained, ChainFine
  <1>3. IsolatedFine(Alone) <=>
            \A l \in IF job.only # None THEN {job.only} ELSE Layers :
                LayerDeserves("isolated", l) /\ reads_exact(input_name(l))
    <2>1. Alone = IF job.only # None THEN {job.only} ELSE Layers BY DEF Alone
    <2> QED BY <2>1, Zenon DEF IsolatedFine, Fed
  <1> QED BY <1>2, <1>3, Zenon DEF GdnDeserves, RopeRead, RopeFine, ModelFine, GreedyFine, Fed

\* What depends on the invocation alone does not change.
LEMMA SameJob ==
    ASSUME job' = job
    PROVE  /\ Layers' = Layers /\ Alone' = Alone /\ RopeRead' = RopeRead /\ RopeFine' = RopeFine
           /\ \A mode, l : LayerDeserves(mode, l)' <=> LayerDeserves(mode, l)
           /\ \A l : Fed(l)' <=> Fed(l)
           /\ \A S : IsolatedFine(S)' <=> IsolatedFine(S)
           /\ \A n : ChainFine(n)' <=> ChainFine(n)
           /\ (Chained' <=> Chained) /\ (ModelFine' <=> ModelFine) /\ (GreedyFine' <=> GreedyFine)
           /\ (GdnDeserves' <=> GdnDeserves)
  <1>1. Layers' = Layers /\ \A l : is_linear(l)' <=> is_linear(l) BY DEF Layers, is_linear
  <1>2. Alone' = Alone BY <1>1 DEF Alone
  <1>3. tol' = tol BY DEF tol
  <1>4. \A mode, o : Dev(mode, o)' = Dev(mode, o) BY DEF Dev
  <1>5. Captures' = Captures BY DEF Captures, Layers, is_linear
  <1>6. \A n : Origin(n)' = Origin(n) BY DEF Origin, NthLinear, Layers, is_linear
  <1>7. \A n : reads_exact(n)' <=> reads_exact(n) BY <1>5 DEF reads_exact, Fault
  <1>8. \A mode, l : LayerDeserves(mode, l)' <=> LayerDeserves(mode, l) BY <1>3, <1>4, <1>5, <1>6, <1>7 DEF LayerDeserves
  <1>9. \A l : Fed(l)' <=> Fed(l) BY <1>7 DEF Fed, input_name
  <1>10. RopeRead' = RopeRead /\ RopeFine' = RopeFine BY <1>3, <1>4, <1>7 DEF RopeRead, RopeFine
  <1>11. \A S : IsolatedFine(S)' <=> IsolatedFine(S) BY <1>8, <1>9 DEF IsolatedFine
  <1>12. \A n : ChainFine(n)' <=> ChainFine(n) BY <1>8, <1>9 DEF ChainFine
  <1>13. Chained' <=> Chained BY <1>12 DEF Chained
  <1>14. ModelFine' <=> ModelFine BY <1>1, <1>3, <1>4, <1>7 DEF ModelFine
  <1>15. GreedyFine' <=> GreedyFine BY <1>3 DEF GreedyFine
  <1>16. GdnDeserves' <=> GdnDeserves
    BY <1>1, <1>3, <1>4, <1>7, <1>8 DEF GdnDeserves, LayerOnly, input_name
  <1> QED BY <1>1, <1>2, <1>8, <1>9, <1>10, <1>11, <1>12, <1>13, <1>14, <1>15, <1>16

-----------------------------------------------------------------------------
\* What gdncheck has found out at each of its stages.
GdnStages == {"single", "tables", "isolated", "chain", "model", "greedy", "report"}
GdnInv ==
    /\ vstage \in GdnStages => job.tool = "gdncheck" /\ job.opens
    /\ vstage = "single" => job.only # None /\ any_failed = (RopeRead /\ ~RopeFine)
    /\ vstage = "tables" =>
          /\ job.only # None => job.model /\ job.only \in Layers /\ IsolatedFine(Alone)
          /\ any_failed = (RopeRead /\ ~RopeFine)
    /\ vstage \in {"isolated", "chain"} => job.only = None /\ RopeRead /\ cursor \in 0 .. Len(job.kinds)
    /\ vstage = "isolated" => any_failed = ~(RopeFine /\ IsolatedFine(0 .. cursor - 1))
    /\ vstage = "chain" => job.chain /\ any_failed = ~(RopeFine /\ IsolatedFine(Layers) /\ ChainFine(cursor))
    /\ vstage \in {"model", "greedy", "report"} => RopeRead /\ (job.only = None \/ job.only \in Layers)
    /\ vstage = "model" => job.model /\ any_failed = ~LayersFine
    /\ vstage = "greedy" => job.model /\ job.weights = {} /\ job.errs \subseteq {"greedy"} /\ any_failed = ~(LayersFine /\ ModelFine)
    /\ vstage = "report" => any_failed = ~GdnDeserves

\* A tensor of the golden bundle that compare does not object to.
TensorFine(k) ==
    LET t == job.golden.tensors[k]
    IN  job.group \in {"all", t.group} =>
            \E u \in Range(job.cand.tensors) : u.name = t.name /\ (t.read /\ u.read => diff(t.data, u.data, job.max_rel))

\* The same for bundlecmp and deltacheck.
CompareInv ==
    vstage = "compare" =>
        /\ job.tool = "compare" /\ Opens(job.golden) /\ Opens(job.cand)
        /\ cursor \in 0 .. Len(job.golden.tensors)
        /\ any_failed = ~(\A k \in 1 .. cursor : TensorFine(k))

DeltaInv ==
    vstage = "cases" =>
        /\ job.tool = "deltacheck" /\ job.opens /\ ~job.list /\ discover # {} /\ cursor \in Nat
        /\ any_failed = ~(\A k \in discover : k <= cursor => CaseOk(job.cases[k]))

VerdictInv ==
    /\ job \in Jobs /\ any_failed \in BOOLEAN
    /\ vstage \in GdnStages \cup {"start", "compare", "cases", "done"}
    /\ GdnInv /\ CompareInv /\ DeltaInv /\ VerdictExact

\* The invocations of gdncheck.
LEMMA GdnJobs ==
    ASSUME VerdictAssumption, job \in Jobs, job.tool = "gdncheck"
    PROVE  /\ Len(job.kinds) \in Nat \ {0} /\ Layers = 0 .. Len(job.kinds) - 1
           /\ job.opens \in BOOLEAN /\ job.chain \in BOOLEAN /\ job.model \in BOOLEAN
           /\ tol \in Int /\ tol >= 1 /\ \A mode, o : Dev(mode, o) \in Int
           /\ None \notin Layers
  <1>1. /\ job.kinds \in Seq(STRING) /\ job.kinds # <<>>
        /\ {job.opens, job.chain, job.model} \subseteq BOOLEAN
        /\ job.ssm_gain \in Int /\ \A d \in DOMAIN job.dev : job.dev[d] \in Int
    BY DEF VerdictAssumption
  <1>2. Len(job.kinds) \in Nat \ {0} BY <1>1
  <1>3. tol \in Int /\ tol >= 1
    <2>1. \A g \in Int : Max({1, g}) \in Int /\ Max({1, g}) >= 1
      <3> TAKE g \in Int
      <3> DEFINE m == Max({1, g})
      <3>1. m = Max({1, g}) /\ 1 \in Int OBVIOUS
      <3> HIDE DEF m
      <3>2. m \in Int /\ m >= 1 BY <3>1, Larger
      <3> QED BY <3>2 DEF m
    <2> QED BY <1>1, <2>1 DEF tol, tolerance_for
  <1>4. \A mode, o : Dev(mode, o) \in Int BY <1>1 DEF Dev
  <1> QED BY <1>1, <1>2, <1>3, <1>4 DEF Layers, None

\* The verdict on a gdncheck.
LEMMA GdnEnds ==
    ASSUME VerdictInv, job.tool = "gdncheck", NEW v, Exit(v),
           v = "PASS" <=> (job.only = None \/ job.only \in Layers) /\ GdnDeserves
    PROVE  VerdictInv'
  <1>1. job' = job /\ vstage' = "done" /\ verdict' = v /\ any_failed' = any_failed BY DEF Exit
  <1>2. verdict' = "PASS" <=> (job.only' = None \/ job.only' \in Layers') /\ GdnDeserves' BY <1>1, SameJob
  <1> QED BY <1>1, <1>2 DEF VerdictInv, GdnInv, CompareInv, DeltaInv, VerdictExact, GdnStages

\* The bundle is opened and the rope tables compared, if they can be read.
LEMMA OpenGdnStep == ASSUME VerdictAssumption, VerdictInv, OpenGdn PROVE VerdictInv'
  <1>1. job' = job /\ job \in Jobs /\ job.tool = "gdncheck" /\ vstage = "start" BY DEF OpenGdn, Exit, Go, VerdictInv
  <1>2. Len(job.kinds) \in Nat \ {0} /\ job.opens \in BOOLEAN /\ job.chain \in BOOLEAN /\ job.model \in BOOLEAN
    BY <1>1, GdnJobs
  <1>3. CASE ~job.opens /\ Exit("FAIL")
    <2>1. ~GdnDeserves BY <1>2, <1>3, GdnParts
    <2> QED BY <1>1, <1>3, <2>1, GdnEnds
  <1>4. CASE /\ job.opens
             /\ any_failed' = (reads_exact(<<"model", 0, "rope">>) /\ Dev("rope", <<None, "rope">>) > tol)
             /\ Go(IF job.only = None THEN "tables" ELSE "single")
    <2>1. tol \in Int /\ Dev("rope", <<None, "rope">>) \in Int BY <1>1, GdnJobs
    <2>2. any_failed' = (RopeRead /\ ~RopeFine) BY <1>4, <2>1 DEF RopeRead, RopeFine
    <2>3. any_failed' = (RopeRead' /\ ~RopeFine') BY <1>1, <2>2, SameJob
    <2> QED BY <1>1, <1>4, <2>3 DEF VerdictInv, Go, GdnInv, CompareInv, DeltaInv, VerdictExact, GdnStages
  <1> QED BY <1>3, <1>4 DEF OpenGdn

\* A tensor of the right length can be read.
LEMMA ExactReads == \A n : reads_exact(n) => Readable(n) BY DEF reads_exact, Readable

\* One layer: the program goes on, with --model, only after a layer that was fine.
LEMMA SingleStep == ASSUME VerdictAssumption, VerdictInv, Single PROVE VerdictInv'
  <1> DEFINE l == job.only
             r == verify_layer("isolated", l, Origin(input_name(l)), reads_exact(input_name(l)))
  <1>1. /\ job \in Jobs /\ job.tool = "gdncheck" /\ vstage = "single" /\ job.opens /\ l # None
        /\ any_failed = (RopeRead /\ ~RopeFine) /\ any_failed \in BOOLEAN
    BY DEF Single, VerdictInv, GdnInv, GdnStages
  <1>2. Len(job.kinds) \in Nat \ {0} /\ job.opens \in BOOLEAN /\ job.chain \in BOOLEAN /\ job.model \in BOOLEAN
    BY <1>1, GdnJobs
  <1>3. Alone = {l} /\ (IsolatedFine(Alone) <=> LayerDeserves("isolated", l) /\ Fed(l))
    BY <1>1 DEF Alone, IsolatedFine
  <1>4. l \in Layers => (r = "ok" <=> LayerDeserves("isolated", l) /\ Fed(l))
    <2>1. Fed(l) \in BOOLEAN BY DEF Fed, reads_exact
    <2> QED BY <1>2, <2>1, LayerChecked, InputNamed DEF Fed
  <1> HIDE DEF r
  <1>5. GdnDeserves => RopeRead /\ Readable(input_name(l)) /\ (l \in Layers => r = "ok")
    BY <1>2, <1>3, <1>4, GdnParts, ExactReads DEF Fed
  <1>6. CASE l \notin Layers /\ Exit("usage") BY <1>1, <1>6, GdnEnds
  <1>7. CASE l \in Layers /\ (~Readable(input_name(l)) \/ ~RopeRead) /\ Exit("FAIL")
    BY <1>1, <1>5, <1>7, GdnEnds
  <1>8. CASE l \in Layers /\ RopeRead /\ r # "ok" /\ Exit(IF r = "panic" THEN "panic" ELSE "FAIL")
    BY <1>1, <1>5, <1>8, GdnEnds
  <1>9. CASE l \in Layers /\ RopeRead /\ r = "ok" /\ ~job.model /\ Exit("PASS")
    <2>1. Chained BY <1>1 DEF Chained
    <2>2. GdnDeserves BY <1>1, <1>2, <1>3, <1>4, <1>9, <2>1, GdnParts DEF LayerOnly
    <2> QED BY <1>1, <1>9, <2>2, GdnEnds
  <1>10. CASE l \in Layers /\ RopeRead /\ r = "ok" /\ job.model /\ Go("tables") /\ UNCHANGED any_failed
    <2>1. job' = job /\ vstage' = "tables" /\ any_failed' = any_failed BY <1>10 DEF Go
    <2>2. IsolatedFine(Alone) BY <1>3, <1>4, <1>10
    <2>3. IsolatedFine(Alone)' BY <2>1, <2>2, SameJob DEF IsolatedFine
    <2>4. job.only' \in Layers' /\ job.model' BY <1>10, <2>1, SameJob
    <2>5. any_failed' = (RopeRead' /\ ~RopeFine') BY <1>1, <2>1, SameJob
    <2> QED BY <1>1, <2>1, <2>3, <2>4, <2>5
        DEF VerdictInv, GdnInv, CompareInv, DeltaInv, VerdictExact, GdnStages
  <1> QED BY <1>1, <1>2, <1>6, <1>7, <1>8, <1>9, <1>10 DEF Single, RopeRead, r

\* Past this stage the rope tables were read.
LEMMA TablesStep == ASSUME VerdictAssumption, VerdictInv, Tables PROVE VerdictInv'
  <1>1. /\ job \in Jobs /\ job.tool = "gdncheck" /\ vstage = "tables" /\ job.opens
        /\ job.only # None => job.model /\ job.only \in Layers /\ IsolatedFine(Alone)
        /\ any_failed = (RopeRead /\ ~RopeFine) /\ any_failed \in BOOLEAN
    BY DEF Tables, VerdictInv, GdnInv, GdnStages
  <1>2. Len(job.kinds) \in Nat \ {0} /\ job.opens \in BOOLEAN /\ job.chain \in BOOLEAN /\ job.model \in BOOLEAN
    BY <1>1, GdnJobs
  <1>3. CASE ~RopeRead /\ Exit("FAIL")
    <2>1. ~GdnDeserves BY <1>2, <1>3, GdnParts
    <2> QED BY <1>1, <1>3, <2>1, GdnEnds
  <1>4. CASE RopeRead /\ Go(IF job.only = None THEN "isolated" ELSE "model") /\ UNCHANGED any_failed
    <2>1. /\ job' = job /\ any_failed' = any_failed /\ cursor' = 0
          /\ vstage' = IF job.only = None THEN "isolated" ELSE "model"
      BY <1>4 DEF Go
    <2>2. any_failed = ~RopeFine /\ RopeRead BY <1>1, <1>4
    <2>3. CASE job.only = None
      <3>1. IsolatedFine(0 .. cursor - 1)' BY <2>1 DEF IsolatedFine
      <3>2. RopeRead' /\ any_failed' = ~(RopeFine' /\ IsolatedFine(0 .. cursor - 1)')
        BY <2>1, <2>2, <3>1, SameJob
      <3>3. cursor' \in 0 .. Len(job.kinds) BY <1>2, <2>1
      <3> QED BY <1>1, <2>1, <2>3, <3>2, <3>3
          DEF VerdictInv, GdnInv, CompareInv, DeltaInv, VerdictExact, GdnStages
    <2>4. CASE job.only # None
      <3>1. Chained BY <2>4 DEF Chained
      <3>2. any_failed = ~LayersFine BY <1>1, <2>2, <2>4, <3>1 DEF LayersFine
      <3>3. LayersFine' <=> LayersFine BY <2>1, SameJob DEF LayersFine, IsolatedFine
      <3>4. RopeRead' /\ any_failed' = ~LayersFine' /\ job.only' \in Layers'
        BY <1>1, <2>1, <2>2, <2>4, <3>2, <3>3, SameJob
      <3> QED BY <1>1, <2>1, <2>4, <3>4
          DEF VerdictInv, GdnInv, CompareInv, DeltaInv, VerdictExact, GdnStages
    <2> QED BY <2>3, <2>4
  <1> QED BY <1>3, <1>4 DEF Tables, RopeRead

\* One more layer.
LEMMA OneMore ==
    ASSUME NEW n \in Nat
    PROVE  /\ IsolatedFine(0 .. n) <=> IsolatedFine(0 .. n - 1) /\ LayerDeserves("isolated", n) /\ Fed(n)
           /\ ChainFine(n + 1) <=> ChainFine(n) /\ LayerDeserves("chain", n) /\ Fed(0)
  <1>1. 0 .. n = (0 .. n - 1) \cup {n} /\ 0 .. (n + 1) - 1 = (0 .. n - 1) \cup {n} OBVIOUS
  <1>2. IsolatedFine(0 .. n) <=> IsolatedFine(0 .. n - 1) /\ LayerDeserves("isolated", n) /\ Fed(n)
    BY <1>1, Zenon DEF IsolatedFine
  <1>3. ChainFine(n + 1) <=> ChainFine(n) /\ LayerDeserves("chain", n) /\ Fed(0) BY <1>1, Zenon DEF ChainFine
  <1> QED BY <1>2, <1>3

\* One more layer on the golden input; a panic ends the program without PASS.
LEMMA IsolatedStep == ASSUME VerdictAssumption, VerdictInv, Isolated PROVE VerdictInv'
  <1> DEFINE name == input_name(cursor)
             r == verify_layer("isolated", cursor, Origin(name), reads_exact(name))
  <1>1. /\ job \in Jobs /\ job.tool = "gdncheck" /\ vstage = "isolated" /\ job.opens
        /\ job.only = None /\ RopeRead /\ cursor \in 0 .. Len(job.kinds)
        /\ any_failed = ~(RopeFine /\ IsolatedFine(0 .. cursor - 1)) /\ any_failed \in BOOLEAN
    BY DEF Isolated, VerdictInv, GdnInv, GdnStages
  <1>2. /\ Len(job.kinds) \in Nat \ {0} /\ job.opens \in BOOLEAN /\ job.chain \in BOOLEAN /\ job.model \in BOOLEAN
        /\ Layers = 0 .. Len(job.kinds) - 1
    BY <1>1, GdnJobs
  <1>3. Alone = Layers BY <1>1 DEF Alone
  <1>4. cursor \in Layers =>
            /\ r = "ok" <=> LayerDeserves("isolated", cursor) /\ Fed(cursor)
            /\ r = "panic" => ~Fed(cursor)
    <2>1. Fed(cursor) \in BOOLEAN BY DEF Fed, reads_exact
    <2> QED BY <1>2, <2>1, LayerChecked, InputNamed DEF Fed
  <1> HIDE DEF r
  <1>5. CASE /\ cursor \notin Layers /\ UNCHANGED any_failed
             /\ Go(IF job.chain THEN "chain" ELSE IF job.model THEN "model" ELSE "report")
    <2>1. /\ job' = job /\ any_failed' = any_failed /\ cursor' = 0
          /\ vstage' = IF job.chain THEN "chain" ELSE IF job.model THEN "model" ELSE "report"
      BY <1>5 DEF Go
    <2>2. cursor = Len(job.kinds) BY <1>1, <1>2, <1>5
    <2>3. any_failed = ~(RopeFine /\ IsolatedFine(Layers)) BY <1>1, <1>2, <2>2
    <2>4. CASE job.chain
      <3>1. ChainFine(cursor)' BY <2>1 DEF ChainFine
      <3>2. /\ RopeRead' /\ cursor' \in 0 .. Len(job.kinds')
            /\ any_failed' = ~(RopeFine' /\ IsolatedFine(Layers)' /\ ChainFine(cursor)')
        <4>1. IsolatedFine(Layers)' <=> IsolatedFine(Layers) BY <2>1, SameJob DEF IsolatedFine
        <4> QED BY <1>1, <1>2, <2>1, <2>3, <3>1, <4>1, SameJob
      <3> QED BY <1>1, <2>1, <2>4, <3>2
          DEF VerdictInv, GdnInv, CompareInv, DeltaInv, VerdictExact, GdnStages
    <2>5. CASE ~job.chain
      <3>1. Chained BY <2>5 DEF Chained
      <3>2. any_failed = ~LayersFine BY <1>3, <2>3, <3>1 DEF LayersFine
      <3>3. LayersFine' <=> LayersFine BY <2>1, SameJob DEF LayersFine, IsolatedFine
      <3>4. ~job.model => (LayersFine <=> GdnDeserves)
        BY <1>1, <1>2, <1>3, <3>1, GdnParts DEF LayersFine, LayerOnly
      <3>5. /\ RopeRead' /\ job.only' = None /\ any_failed' = ~LayersFine'
            /\ ~job.model => any_failed' = ~GdnDeserves'
        BY <1>1, <2>1, <3>2, <3>3, <3>4, SameJob
      <3> QED BY <1>1, <1>2, <2>1, <2>5, <3>5
          DEF VerdictInv, GdnInv, CompareInv, DeltaInv, VerdictExact, GdnStages
    <2> QED BY <1>2, <2>4, <2>5
  <1>6. CASE cursor \in Layers /\ Readable(name) /\ r = "panic" /\ Exit("panic")
    <2>1. ~IsolatedFine(Alone) BY <1>3, <1>4, <1>6 DEF IsolatedFine
    <2>2. ~GdnDeserves BY <1>2, <2>1, GdnParts
    <2> QED BY <1>1, <1>6, <2>2, GdnEnds
  <1>7. CASE /\ cursor \in Layers
             /\ cursor' = cursor + 1 /\ any_failed' = (any_failed \/ ~Readable(name) \/ r # "ok")
             /\ UNCHANGED <<vstage, job, verdict>>
    <2>1. Fed(cursor) => Readable(name) BY ExactReads DEF Fed
    <2>2. any_failed' = ~(RopeFine /\ IsolatedFine(0 .. cursor)) /\ cursor \in Nat
      <3>1. cursor \in Nat BY <1>2, <1>7
      <3>2. IsolatedFine(0 .. cursor) <=> IsolatedFine(0 .. cursor - 1) /\ r = "ok"
        BY <1>4, <1>7, <3>1, OneMore
      <3>3. any_failed' = (any_failed \/ r # "ok") BY <1>1, <1>4, <1>7, <2>1
      <3> QED BY <1>1, <3>1, <3>2, <3>3
    <2>3. (cursor + 1) - 1 = cursor BY <2>2
    <2>4. IsolatedFine(0 .. cursor - 1)' <=> IsolatedFine(0 .. cursor)
      BY <1>7, <2>3, SameJob DEF IsolatedFine
    <2>5. /\ RopeRead' /\ job.only' = None /\ cursor' \in 0 .. Len(job.kinds')
          /\ any_failed' = ~(RopeFine' /\ IsolatedFine(0 .. cursor - 1)')
      BY <1>1, <1>2, <1>7, <2>2, <2>4, SameJob
    <2> QED BY <1>1, <1>7, <2>5
        DEF VerdictInv, GdnInv, CompareInv, DeltaInv, VerdictExact, GdnStages
  <1> QED BY <1>5, <1>6, <1>7 DEF Isolated, r

\* On from the layers, to the whole model or to the report.
LEMMA LayersDone ==
    ASSUME VerdictAssumption, VerdictInv, job.tool = "gdncheck", job.opens, RopeRead,
           job.only = None, Go(IF job.model THEN "model" ELSE "report"), any_failed' = ~LayersFine
    PROVE  VerdictInv'
  <1>1. /\ job' = job /\ vstage' = IF job.model THEN "model" ELSE "report" BY DEF Go
  <1>2. job \in Jobs BY DEF VerdictInv
  <1>3. Len(job.kinds) \in Nat \ {0} /\ job.opens \in BOOLEAN /\ job.chain \in BOOLEAN /\ job.model \in BOOLEAN
    BY <1>2, GdnJobs
  <1>4. ~job.model => (LayersFine <=> GdnDeserves) BY <1>3, GdnParts DEF LayersFine, LayerOnly
  <1>5. LayersFine' <=> LayersFine BY <1>1, SameJob DEF LayersFine, IsolatedFine
  <1>6. /\ RopeRead' /\ job.only' = None /\ any_failed' = ~LayersFine'
        /\ ~job.model => any_failed' = ~GdnDeserves'
    BY <1>1, <1>4, <1>5, SameJob
  <1> QED BY <1>1, <1>2, <1>3, <1>6
      DEF VerdictInv, GdnInv, CompareInv, DeltaInv, VerdictExact, GdnStages

\* One more layer on the output of the one before it; the first error is a failure of
\* the whole chain.
LEMMA ChainStep == ASSUME VerdictAssumption, VerdictInv, Chain PROVE VerdictInv'
  <1> DEFINE N == Len(job.kinds)
             first == input_name(chain_layers[1])
             input == IF cursor = 0 THEN Origin(first) ELSE <<chain_layers[cursor], "out">>
             r == verify_layer("chain", chain_layers[cursor + 1], input, cursor > 0 \/ reads_exact(first))
  <1>1. /\ job \in Jobs /\ job.tool = "gdncheck" /\ vstage = "chain" /\ job.opens /\ job.chain
        /\ job.only = None /\ RopeRead /\ cursor \in 0 .. N /\ any_failed \in BOOLEAN
        /\ any_failed = ~(RopeFine /\ IsolatedFine(Layers) /\ ChainFine(cursor))
    BY DEF Chain, VerdictInv, GdnInv, GdnStages
  <1>2. N \in Nat \ {0} /\ Layers = 0 .. N - 1 BY <1>1, GdnJobs
  <1>3. Alone = Layers /\ (Chained <=> ChainFine(N)) BY <1>1 DEF Alone, Chained
  <1>4. /\ Len(chain_layers) = N /\ chain_layers[1] = 0
        /\ cursor < N => chain_layers[cursor + 1] = cursor
        /\ cursor > 0 => chain_layers[cursor] = cursor - 1
    BY <1>1, <1>2 DEF chain_layers
  <1>5. first = input_name(0) /\ (reads_exact(first) <=> Fed(0)) /\ Fed(0) \in BOOLEAN BY <1>4 DEF Fed, reads_exact
  <1>6. input = InputOf(cursor)
    <2>1. CASE cursor = 0 BY <1>5, <2>1, InputNamed
    <2>2. CASE cursor # 0
      <3>1. cursor > 0 BY <1>1, <1>2, <2>2
      <3> QED BY <1>4, <2>2, <3>1 DEF InputOf
    <2> QED BY <2>1, <2>2
  <1> HIDE DEF first, input
  <1>7. cursor < N => (r = "ok" <=> LayerDeserves("chain", cursor) /\ (cursor > 0 \/ Fed(0)))
    <2> SUFFICES ASSUME cursor < N PROVE r = "ok" <=> LayerDeserves("chain", cursor) /\ (cursor > 0 \/ Fed(0))
      OBVIOUS
    <2>1. cursor \in Layers BY <1>1, <1>2
    <2> DEFINE sized == cursor > 0 \/ reads_exact(first)
    <2>2. sized \in BOOLEAN /\ (sized <=> cursor > 0 \/ Fed(0)) BY <1>5
    <2>3. r = verify_layer("chain", cursor, InputOf(cursor), sized) BY <1>4, <1>6
    <2> HIDE DEF r, sized
    <2>4. r = "ok" <=> LayerDeserves("chain", cursor) /\ sized BY <1>2, <2>1, <2>2, <2>3, LayerChecked
    <2> QED BY <2>2, <2>4
  <1> HIDE DEF r
  <1>8. \A m \in 1 .. N : ChainFine(m) => Fed(0)
    <2> TAKE m \in 1 .. N
    <2>1. 0 \in 0 .. m - 1 OBVIOUS
    <2> QED BY <2>1 DEF ChainFine
  <1>9. cursor < N => (ChainFine(cursor + 1) <=> ChainFine(cursor) /\ r = "ok")
    <2>1. cursor \in Nat /\ (cursor > 0 => cursor \in 1 .. N) BY <1>1, <1>2
    <2>2. ChainFine(cursor + 1) <=> ChainFine(cursor) /\ LayerDeserves("chain", cursor) /\ Fed(0) BY <2>1, OneMore
    <2> QED BY <1>7, <1>8, <2>1, <2>2
  <1>10. \A m \in 0 .. N : ChainFine(N) => ChainFine(m)
    <2> TAKE m \in 0 .. N
    <2>1. \A l \in 0 .. m - 1 : l \in 0 .. N - 1 BY <1>2
    <2> QED BY <2>1, Zenon DEF ChainFine
  <1>11. CASE cursor >= N /\ Go(IF job.model THEN "model" ELSE "report") /\ UNCHANGED any_failed
    <2>1. cursor = N BY <1>1, <1>2, <1>11
    <2>2. any_failed' = ~LayersFine BY <1>1, <1>3, <1>11, <2>1 DEF LayersFine
    <2> QED BY <1>1, <1>11, <2>2, LayersDone
  <1>12. CASE /\ cursor < N /\ ((cursor = 0 /\ ~Readable(first)) \/ r = "error")
              /\ Go(IF job.model THEN "model" ELSE "report") /\ any_failed' = TRUE
    <2>1. ~ChainFine(N)
      <3>1. CASE cursor = 0 /\ ~Readable(first)
        <4>1. ~Fed(0) BY <1>5, <3>1, ExactReads
        <4>2. N \in 1 .. N BY <1>2
        <4> QED BY <1>8, <4>1, <4>2
      <3>2. CASE r = "error"
        <4>1. ~ChainFine(cursor + 1) BY <1>9, <1>12, <3>2
        <4>2. cursor + 1 \in 0 .. N BY <1>1, <1>2, <1>12
        <4> QED BY <1>10, <4>1, <4>2
      <3> QED BY <1>12, <3>1, <3>2
    <2>2. any_failed' = ~LayersFine BY <1>3, <1>12, <2>1 DEF LayersFine
    <2> QED BY <1>1, <1>12, <2>2, LayersDone
  <1>13. CASE /\ cursor < N /\ cursor' = cursor + 1 /\ any_failed' = (any_failed \/ r # "ok")
              /\ UNCHANGED <<vstage, job, verdict>>
    <2>1. any_failed' = ~(RopeFine /\ IsolatedFine(Layers) /\ ChainFine(cursor + 1)) BY <1>1, <1>9, <1>13
    <2>2. cursor' \in 0 .. Len(job.kinds') BY <1>1, <1>2, <1>13
    <2>3. ChainFine(cursor)' <=> ChainFine(cursor + 1) BY <1>13, SameJob DEF ChainFine
    <2>4. IsolatedFine(Layers)' <=> IsolatedFine(Layers) BY <1>13, SameJob DEF IsolatedFine
    <2>5. /\ RopeRead' /\ any_failed' = ~(RopeFine' /\ IsolatedFine(Layers)' /\ ChainFine(cursor)')
      BY <1>1, <1>13, <2>1, <2>3, <2>4, SameJob
    <2> QED BY <1>1, <1>13, <2>2, <2>5
        DEF VerdictInv, GdnInv, CompareInv, DeltaInv, VerdictExact, GdnStages
  <1>14. cursor >= N \/ cursor < N BY <1>1, <1>2
  <1> QED BY <1>4, <1>11, <1>12, <1>13, <1>14 DEF Chain, r, input, first

\* The whole model is compared once all weights have loaded.
LEMMA ModelStep == ASSUME VerdictAssumption, VerdictInv, WholeModel PROVE VerdictInv'
  <1>1. /\ job \in Jobs /\ job.tool = "gdncheck" /\ vstage = "model" /\ job.opens /\ job.model /\ RopeRead
        /\ job.only = None \/ job.only \in Layers
        /\ any_failed = ~LayersFine /\ any_failed \in BOOLEAN
    BY DEF WholeModel, VerdictInv, GdnInv, GdnStages
  <1>2. Len(job.kinds) \in Nat \ {0} /\ job.opens \in BOOLEAN /\ job.chain \in BOOLEAN /\ job.model \in BOOLEAN
    BY <1>1, GdnJobs
  <1>e. job.errs \subseteq {"model_weights", "forward", "greedy"} BY <1>1 DEF VerdictAssumption
  <1>3. CASE (job.weights # {} \/ job.errs \cap {"model_weights", "forward"} # {}) /\ Exit("FAIL")
    <2>1. ~GdnDeserves BY <1>1, <1>2, <1>3, GdnParts
    <2> QED BY <1>1, <1>3, <2>1, GdnEnds
  <1>4. CASE /\ job.weights = {} /\ job.errs \cap {"model_weights", "forward"} = {} /\ Go("greedy")
             /\ any_failed' = (any_failed \/ \E s \in ModelSteps : ~ModelOk(s))
    <2>1. job' = job /\ vstage' = "greedy" BY <1>4 DEF Go
    <2>2. \A p : ModelOk(<<<<None, p>>, <<"model", 0, p>>>>) <=>
                    reads_exact(<<"model", 0, p>>) /\ Dev("model", <<None, p>>) <= tol
      <3> TAKE p
      <3>1. Origin(<<"model", 0, p>>) = <<None, p>> BY DEF Origin
      <3>2. max_abs_diff("model", <<None, p>>, TRUE, <<"model", 0, p>>) = Dev("model", <<None, p>>)
        BY <3>1 DEF max_abs_diff
      <3> QED BY <3>2 DEF ModelOk
    <2>3. \A l : ModelOk(<<<<l, "out">>, <<"layer", l, "out">>>>) <=>
                    reads_exact(<<"layer", l, "out">>) /\ Dev("model", <<l, "out">>) <= tol
      <3> TAKE l
      <3>1. Origin(<<"layer", l, "out">>) = <<l, "out">> BY DEF Origin
      <3>2. max_abs_diff("model", <<l, "out">>, TRUE, <<"layer", l, "out">>) = Dev("model", <<l, "out">>)
        BY <3>1 DEF max_abs_diff
      <3> QED BY <3>2 DEF ModelOk
    <2>4. ModelFine <=> \A s \in ModelSteps : ModelOk(s)
      <3>1. (\A s \in ModelSteps : ModelOk(s)) <=>
               /\ \A p \in {"embed_tokens", "norm", "lm_head"} : ModelOk(<<<<None, p>>, <<"model", 0, p>>>>)
               /\ \A l \in Layers : ModelOk(<<<<l, "out">>, <<"layer", l, "out">>>>)
        BY Zenon DEF ModelSteps
      <3> QED BY <2>2, <2>3, <3>1, Zenon DEF ModelFine
    <2>5. any_failed' = ~(LayersFine /\ ModelFine) BY <1>1, <1>4, <2>4
    <2>6. LayersFine' <=> LayersFine BY <2>1, SameJob DEF LayersFine, IsolatedFine
    <2>7. /\ RopeRead' /\ any_failed' = ~(LayersFine' /\ ModelFine')
          /\ job.only' = None \/ job.only' \in Layers'
      BY <1>1, <2>1, <2>5, <2>6, SameJob
    <2>8. job.errs' \subseteq {"greedy"} BY <1>e, <1>4, <2>1
    <2> QED BY <1>1, <1>4, <2>1, <2>7, <2>8
        DEF VerdictInv, GdnInv, CompareInv, DeltaInv, VerdictExact, GdnStages
  <1> QED BY <1>3, <1>4 DEF WholeModel

\* The numbers in a sequence are bounded.
LEMMA BoundedBy ==
    ASSUME NEW n \in Nat, NEW f, \A k \in 1 .. n : f[k] \in Nat
    PROVE  \E v \in Nat : \A k \in 1 .. n : f[k] <= v
  <1> DEFINE Good == {m \in Nat : m <= n => \E v \in Nat : \A k \in 1 .. m : f[k] <= v}
  <1>1. 0 \in Good
    <2>1. \A k \in 1 .. 0 : f[k] <= 0 OBVIOUS
    <2> QED BY <2>1
  <1>2. ASSUME NEW m \in Nat, m \in Good PROVE m + 1 \in Good
    <2> SUFFICES ASSUME m + 1 <= n PROVE \E v \in Nat : \A k \in 1 .. m + 1 : f[k] <= v OBVIOUS
    <2>1. PICK v \in Nat : \A k \in 1 .. m : f[k] <= v BY <1>2
    <2>2. f[m + 1] \in Nat OBVIOUS
    <2>3. v + f[m + 1] \in Nat BY <2>2
    <2>4. \A k \in 1 .. m + 1 : f[k] <= v + f[m + 1]
      <3> TAKE k \in 1 .. m + 1
      <3>1. f[k] \in Nat OBVIOUS
      <3>2. CASE k \in 1 .. m BY <2>1, <2>2, <3>1, <3>2
      <3>3. CASE k = m + 1 BY <2>2, <3>1, <3>3
      <3> QED BY <3>2, <3>3
    <2> QED BY <2>3, <2>4
  <1>3. \A m \in Nat : m \in Good
    <2> HIDE DEF Good
    <2> QED BY <1>1, <1>2, Induct
  <1>4. n \in Good
    <2> HIDE DEF Good
    <2> QED BY <1>3
  <1>5. n <= n OBVIOUS
  <1> QED BY <1>4, <1>5

\* The trace: tokens are counted, the worst logit is a maximum, and both say that every
\* step is fine.
LEMMA GreedyStep == ASSUME VerdictAssumption, VerdictInv, Greedy PROVE VerdictInv'
  <1> DEFINE steps == job.greedy
             right == {k \in DOMAIN steps : steps[k].got = steps[k].argmax_token}
             readable == {k \in DOMAIN steps : steps[k].readable}
             S == {0} \cup {steps[k].logit_abs : k \in readable}
             worst_logit == Max(S)
             mine_ids == job.prompt \o [k \in DOMAIN steps |-> steps[k].got]
  <1>1. /\ job \in Jobs /\ job.tool = "gdncheck" /\ vstage = "greedy" /\ job.opens /\ job.model /\ RopeRead
        /\ job.only = None \/ job.only \in Layers
        /\ job.weights = {} /\ job.errs \subseteq {"greedy"}
        /\ any_failed = ~(LayersFine /\ ModelFine) /\ any_failed \in BOOLEAN
    BY DEF Greedy, VerdictInv, GdnInv, GdnStages
  <1>2. /\ Len(job.kinds) \in Nat \ {0} /\ job.opens \in BOOLEAN /\ job.chain \in BOOLEAN /\ job.model \in BOOLEAN
        /\ tol \in Int /\ tol >= 1
    BY <1>1, GdnJobs
  <1>e. CASE "greedy" \in job.errs
    <2>1. Exit("FAIL") BY <1>e DEF Greedy
    <2>2. ~GdnDeserves BY <1>1, <1>2, <1>e, GdnParts
    <2> QED BY <1>1, <2>1, <2>2, GdnEnds
  <1> SUFFICES ASSUME "greedy" \notin job.errs PROVE VerdictInv' BY <1>e
  <1>s. job.errs = {} BY <1>1
  <1>3. job' = job /\ vstage' = "report" BY DEF Greedy, Go
  <1>4. /\ any_failed' = (any_failed \/ Cardinality(right) # Len(steps) \/ worst_logit > tol \/ mine_ids # job.final_ids)
    BY DEF Greedy
  <1>5. /\ steps \in Seq(Range(steps)) /\ Len(steps) \in Nat /\ DOMAIN steps = 1 .. Len(steps)
        /\ \A k \in DOMAIN steps : steps[k].readable \in BOOLEAN /\ steps[k].logit_abs \in Nat
    <2>1. steps \in Seq(Range(steps)) /\ \A s \in Range(steps) : s.readable \in BOOLEAN /\ s.logit_abs \in Nat
      BY <1>1 DEF VerdictAssumption
    <2>2. \A k \in DOMAIN steps : steps[k] \in Range(steps) BY DEF Range
    <2> QED BY <2>1, <2>2
  <1>6. Cardinality(right) = Len(steps) <=> \A k \in DOMAIN steps : steps[k].got = steps[k].argmax_token
    <2>1. IsFiniteSet(DOMAIN steps) /\ Cardinality(DOMAIN steps) = Len(steps)
      <3>1. 1 \in Int /\ Len(steps) \in Int BY <1>5
      <3>2. IsFiniteSet(1 .. Len(steps)) /\ Cardinality(1 .. Len(steps)) = IF 1 > Len(steps) THEN 0 ELSE Len(steps) - 1 + 1
        BY <3>1, FS_Interval
      <3> QED BY <1>5, <3>2
    <2>2. right \in SUBSET DOMAIN steps OBVIOUS
    <2>3. Cardinality(right) = Len(steps) <=> right = DOMAIN steps BY <2>1, <2>2, FS_Subset
    <2> QED BY <2>3
  <1>7. worst_logit > tol <=> \E k \in DOMAIN steps : steps[k].readable /\ steps[k].logit_abs > tol
    <2> DEFINE f == [k \in 1 .. Len(steps) |-> steps[k].logit_abs]
    <2>1. PICK v \in Nat : \A k \in 1 .. Len(steps) : f[k] <= v
      <3>1. \A k \in 1 .. Len(steps) : f[k] \in Nat BY <1>5
      <3> HIDE DEF f
      <3> QED BY <1>5, <3>1, BoundedBy
    <2>2. S \subseteq 0 .. v /\ S # {}
      <3>1. ASSUME NEW k \in readable PROVE steps[k].logit_abs \in 0 .. v
        <4>1. k \in 1 .. Len(steps) /\ steps[k].logit_abs \in Nat BY <1>5
        <4>2. f[k] = steps[k].logit_abs BY <4>1
        <4>3. f[k] <= v BY <2>1, <4>1
        <4> QED BY <4>1, <4>2, <4>3
      <3> QED BY <3>1
    <2>3. worst_logit \in S /\ \A x \in S : worst_logit >= x
      <3> HIDE DEF S
      <3> QED BY <2>2, Greatest
    <2> HIDE DEF worst_logit
    <2>4. \A x \in S : x \in Nat BY <2>2
    <2>5. \A x \in S : x = 0 \/ \E k \in readable : x = steps[k].logit_abs OBVIOUS
    <2>6. \A k \in readable : steps[k].logit_abs \in S OBVIOUS
    <2> HIDE DEF S
    <2>7. ASSUME worst_logit > tol PROVE \E k \in DOMAIN steps : steps[k].readable /\ steps[k].logit_abs > tol
      <3>1. worst_logit # 0 BY <1>2, <2>7
      <3>2. PICK k \in readable : worst_logit = steps[k].logit_abs BY <2>3, <2>5, <3>1
      <3> QED BY <2>7, <3>2
    <2>8. ASSUME NEW k \in DOMAIN steps, steps[k].readable, steps[k].logit_abs > tol PROVE worst_logit > tol
      <3>1. steps[k].logit_abs \in S BY <2>6, <2>8
      <3>2. worst_logit \in Nat /\ steps[k].logit_abs \in Nat /\ worst_logit >= steps[k].logit_abs
        BY <2>3, <2>4, <3>1
      <3> QED BY <1>2, <2>8, <3>2
    <2> QED BY <2>7, <2>8
  <1>8. \A k \in DOMAIN steps : steps[k].logit_abs > tol <=> ~(steps[k].logit_abs <= tol) BY <1>2, <1>5
  <1>9. (\A k \in DOMAIN steps : steps[k].got = steps[k].argmax_token) =>
            mine_ids = job.prompt \o [k \in DOMAIN steps |-> steps[k].argmax_token]
    <2> SUFFICES ASSUME \A k \in DOMAIN steps : steps[k].got = steps[k].argmax_token
                 PROVE  [k \in DOMAIN steps |-> steps[k].got] = [k \in DOMAIN steps |-> steps[k].argmax_token]
      OBVIOUS
    <2> QED OBVIOUS
  <1> HIDE DEF right, worst_logit, mine_ids
  <1>10. GreedyFine <=> /\ \A k \in DOMAIN steps : steps[k].got = steps[k].argmax_token
                        /\ ~(\E k \in DOMAIN steps : steps[k].readable /\ steps[k].logit_abs > tol)
                        /\ mine_ids = job.final_ids
    <2>1. GreedyFine <=> /\ \A k \in DOMAIN steps : steps[k].got = steps[k].argmax_token
                         /\ \A k \in DOMAIN steps : steps[k].readable => steps[k].logit_abs <= tol
                         /\ job.final_ids = job.prompt \o [k \in DOMAIN steps |-> steps[k].argmax_token]
      BY Zenon DEF GreedyFine
    <2>2. (\A k \in DOMAIN steps : steps[k].readable => steps[k].logit_abs <= tol) <=>
              ~(\E k \in DOMAIN steps : steps[k].readable /\ steps[k].logit_abs > tol)
      BY <1>8, Zenon
    <2> QED BY <1>9, <2>1, <2>2, Zenon
  <1>11. any_failed' = ~(LayersFine /\ ModelFine /\ GreedyFine) BY <1>1, <1>4, <1>6, <1>7, <1>10, Zenon
  <1>12. GdnDeserves <=> LayersFine /\ ModelFine /\ GreedyFine
    BY <1>1, <1>2, <1>s, GdnParts DEF LayersFine, LayerOnly
  <1>13. /\ any_failed' = ~GdnDeserves' /\ RopeRead' /\ (job.only' = None \/ job.only' \in Layers')
    BY <1>1, <1>3, <1>11, <1>12, SameJob
  <1> QED BY <1>1, <1>3, <1>13
      DEF VerdictInv, GdnInv, CompareInv, DeltaInv, VerdictExact, GdnStages

\* The verdict is what was remembered.
LEMMA ReportStep == ASSUME VerdictAssumption, VerdictInv, Report PROVE VerdictInv'
  <1>1. /\ job \in Jobs /\ job.tool = "gdncheck"
        /\ job.only = None \/ job.only \in Layers
        /\ any_failed = ~GdnDeserves /\ any_failed \in BOOLEAN
    BY DEF Report, VerdictInv, GdnInv, GdnStages
  <1>2. Exit(IF any_failed THEN "FAIL" ELSE "PASS") BY DEF Report
  <1> QED BY <1>1, <1>2, GdnEnds

-----------------------------------------------------------------------------
(* bundlecmp.                                                                *)

\* Nor does what bundlecmp and deltacheck are about.
LEMMA SamePromise ==
    ASSUME job' = job
    PROVE  /\ CompareDeserves' <=> CompareDeserves
           /\ SelftestDeserves' <=> SelftestDeserves
           /\ DeltaDeserves' <=> DeltaDeserves
           /\ \A k : TensorFine(k)' <=> TensorFine(k)
           /\ discover' = discover
  BY DEF CompareDeserves, SelftestDeserves, DeltaDeserves, TensorFine, discover

\* The verdict of the other tools.
LEMMA OtherEnds ==
    ASSUME VerdictInv, NEW v, Exit(v),
           \/ job.tool = "compare" /\ (v = "PASS" <=> CompareDeserves)
           \/ job.tool = "selftest" /\ (v = "PASS" <=> SelftestDeserves)
           \/ job.tool = "deltacheck" /\ (v = "PASS" <=> DeltaDeserves)
    PROVE  VerdictInv'
  <1>1. job' = job /\ vstage' = "done" /\ verdict' = v /\ any_failed' = any_failed BY DEF Exit
  <1>2. \/ job.tool' = "compare" /\ (verdict' = "PASS" <=> CompareDeserves')
        \/ job.tool' = "selftest" /\ (verdict' = "PASS" <=> SelftestDeserves')
        \/ job.tool' = "deltacheck" /\ (verdict' = "PASS" <=> DeltaDeserves')
    BY <1>1, SamePromise
  <1>3. VerdictExact'
    <2>1. CASE job.tool' = "compare" /\ (verdict' = "PASS" <=> CompareDeserves') BY <2>1 DEF VerdictExact
    <2>2. CASE job.tool' = "selftest" /\ (verdict' = "PASS" <=> SelftestDeserves') BY <2>2 DEF VerdictExact
    <2>3. CASE job.tool' = "deltacheck" /\ (verdict' = "PASS" <=> DeltaDeserves') BY <2>3 DEF VerdictExact
    <2> QED BY <1>2, <2>1, <2>2, <2>3
  <1>4. GdnInv' /\ CompareInv' /\ DeltaInv' BY <1>1 DEF GdnInv, CompareInv, DeltaInv, GdnStages
  <1> QED BY <1>1, <1>3, <1>4 DEF VerdictInv

\* Bundles that do not open are not compared.
LEMMA OpenCompareStep == ASSUME VerdictAssumption, VerdictInv, OpenCompare PROVE VerdictInv'
  <1>1. job' = job /\ job \in Jobs /\ job.tool = "compare" /\ vstage = "start"
    BY DEF OpenCompare, Exit, Go, VerdictInv
  <1>2. CASE (~Opens(job.golden) \/ ~Opens(job.cand)) /\ Exit("FAIL")
    <2>1. ~CompareDeserves BY <1>2 DEF CompareDeserves
    <2> QED BY <1>1, <1>2, <2>1, OtherEnds
  <1>3. CASE Opens(job.golden) /\ Opens(job.cand) /\ Go("compare") /\ any_failed' = FALSE
    <2>1. vstage' = "compare" /\ cursor' = 0 BY <1>3 DEF Go
    <2>2. Opens(job.golden)' /\ Opens(job.cand)' BY <1>1, <1>3 DEF Opens
    <2>3. Len(job.golden.tensors) \in Nat BY <1>1 DEF VerdictAssumption
    <2>4. cursor' \in 0 .. Len(job.golden.tensors') BY <1>1, <2>1, <2>3
    <2>5. 1 .. cursor' = {} BY <2>1
    <2>6. CompareInv' BY <1>1, <1>3, <2>2, <2>4, <2>5 DEF CompareInv
    <2> QED BY <1>1, <1>3, <2>1, <2>6 DEF VerdictInv, GdnInv, DeltaInv, VerdictExact, GdnStages
  <1> QED BY <1>2, <1>3 DEF OpenCompare

\* Names being unique, a tensor passes its comparison exactly when it is fine.
LEMMA Compared ==
    ASSUME NEW e, Opens(job.cand)
    PROVE  (\E u \in Range(job.cand.tensors) :
                u.name = e.name /\ (e.read /\ u.read => diff(e.data, u.data, job.max_rel)))
           <=> ~(\/ Entry(job.cand, e.name) = {}
                 \/ \E c \in Entry(job.cand, e.name) : e.read /\ c.read /\ ~diff(e.data, c.data, job.max_rel))
  <1> DEFINE F == Entry(job.cand, e.name)
  <1>1. \A t, u \in F : t = u
    <2> TAKE t, u \in F
    <2>1. t \in Range(job.cand.tensors) /\ u \in Range(job.cand.tensors) /\ t.name = u.name BY DEF Entry
    <2>2. PICK j \in DOMAIN job.cand.tensors : t = job.cand.tensors[j] BY <2>1 DEF Range
    <2>3. PICK k \in DOMAIN job.cand.tensors : u = job.cand.tensors[k] BY <2>1 DEF Range
    <2> QED BY <2>1, <2>2, <2>3 DEF Opens
  <1>2. \A u : u \in F <=> u \in Range(job.cand.tensors) /\ u.name = e.name BY DEF Entry
  <1> HIDE DEF F
  <1>3. (\E u \in F : e.read /\ u.read => diff(e.data, u.data, job.max_rel))
           <=> ~(F = {} \/ \E c \in F : e.read /\ c.read /\ ~diff(e.data, c.data, job.max_rel))
    BY <1>1
  <1>4. (\E u \in Range(job.cand.tensors) :
            u.name = e.name /\ (e.read /\ u.read => diff(e.data, u.data, job.max_rel)))
           <=> \E u \in F : e.read /\ u.read => diff(e.data, u.data, job.max_rel)
    BY <1>2
  <1> QED BY <1>3, <1>4 DEF F

\* One more tensor of the golden bundle.
LEMMA CompareStep == ASSUME VerdictAssumption, VerdictInv, Compare PROVE VerdictInv'
  <1> DEFINE e == job.golden.tensors[cursor + 1]
             found == Entry(job.cand, e.name)
             bad == \/ found = {}
                    \/ \E c \in found : e.read /\ c.read /\ ~diff(e.data, c.data, job.max_rel)
  <1>1. /\ job \in Jobs /\ job.tool = "compare" /\ vstage = "compare" /\ Opens(job.golden) /\ Opens(job.cand)
        /\ cursor \in 0 .. Len(job.golden.tensors) /\ cursor < Len(job.golden.tensors)
        /\ any_failed = ~(\A k \in 1 .. cursor : TensorFine(k)) /\ any_failed \in BOOLEAN
    BY DEF Compare, VerdictInv, CompareInv
  <1>2. /\ job' = job /\ vstage' = vstage /\ cursor' = cursor + 1
        /\ any_failed' = (any_failed \/ (job.group \in {"all", e.group} /\ bad))
    BY DEF Compare
  <1>3. Len(job.golden.tensors) \in Nat BY <1>1 DEF VerdictAssumption
  <1>4. TensorFine(cursor + 1) <=> (job.group \in {"all", e.group} => ~bad)
    <2>1. TensorFine(cursor + 1) <=>
            (job.group \in {"all", e.group} =>
               \E u \in Range(job.cand.tensors) :
                  u.name = e.name /\ (e.read /\ u.read => diff(e.data, u.data, job.max_rel)))
      BY DEF TensorFine
    <2>2. (\E u \in Range(job.cand.tensors) :
               u.name = e.name /\ (e.read /\ u.read => diff(e.data, u.data, job.max_rel))) <=> ~bad
      BY <1>1, Compared
    <2> QED BY <2>1, <2>2, Zenon
  <1> HIDE DEF bad
  <1>5. any_failed' = ~((\A k \in 1 .. cursor : TensorFine(k)) /\ TensorFine(cursor + 1)) BY <1>1, <1>2, <1>4, Zenon
  <1>6. \A k : k \in 1 .. cursor' <=> k \in 1 .. cursor \/ k = cursor + 1 BY <1>1, <1>2, <1>3
  <1>7. any_failed' = ~(\A k \in 1 .. cursor' : TensorFine(k)')
    <2>1. \A k : TensorFine(k)' <=> TensorFine(k) BY <1>2, SamePromise
    <2> QED BY <1>5, <1>6, <2>1, Zenon
  <1>8. cursor' \in 0 .. Len(job.golden.tensors') BY <1>1, <1>2, <1>3
  <1>9. Opens(job.golden)' /\ Opens(job.cand)' BY <1>1, <1>2 DEF Opens
  <1>10. CompareInv' BY <1>1, <1>2, <1>7, <1>8, <1>9 DEF CompareInv
  <1>11. any_failed' \in BOOLEAN BY <1>7, Zenon
  <1> QED BY <1>1, <1>2, <1>10, <1>11 DEF VerdictInv, GdnInv, DeltaInv, VerdictExact, GdnStages

\* All tensors have been compared; the tokens are compared now.
LEMMA CompareResultStep == ASSUME VerdictAssumption, VerdictInv, CompareResult PROVE VerdictInv'
  <1> DEFINE G == job.golden
             Fine == /\ ~any_failed /\ diff_tokens(G, job.cand)
                     /\ check_token_selfconsistency(G) = {} /\ check_token_selfconsistency(job.cand) = {}
  <1>1. /\ job \in Jobs /\ job.tool = "compare" /\ Opens(G) /\ Opens(job.cand)
        /\ cursor = Len(G.tensors)
        /\ any_failed = ~(\A k \in 1 .. cursor : TensorFine(k)) /\ any_failed \in BOOLEAN
    BY DEF CompareResult, VerdictInv, CompareInv
  <1>2. Exit(IF Fine THEN "PASS" ELSE "FAIL") BY DEF CompareResult
  <1>3. DOMAIN G.tensors = 1 .. cursor BY <1>1 DEF VerdictAssumption
  <1>4. ~any_failed <=> \A t \in Range(G.tensors) : job.group \in {"all", t.group} =>
               \E u \in Range(job.cand.tensors) :
                  u.name = t.name /\ (t.read /\ u.read => diff(t.data, u.data, job.max_rel))
    <2>1. ~any_failed <=> \A k \in DOMAIN G.tensors : TensorFine(k) BY <1>1, <1>3
    <2>2. \A t : t \in Range(G.tensors) <=> \E k \in DOMAIN G.tensors : t = G.tensors[k] BY DEF Range
    <2> DEFINE Ok(t) == job.group \in {"all", t.group} =>
               \E u \in Range(job.cand.tensors) :
                  u.name = t.name /\ (t.read /\ u.read => diff(t.data, u.data, job.max_rel))
    <2>3. \A k : TensorFine(k) <=> Ok(G.tensors[k]) BY DEF TensorFine
    <2> HIDE DEF Ok
    <2>4. ~any_failed <=> \A t \in Range(G.tensors) : Ok(t) BY <2>1, <2>2, <2>3
    <2> QED BY <2>4 DEF Ok
  <1>5. CompareDeserves <=> Fine BY <1>1, <1>4, Zenon DEF CompareDeserves, diff_tokens
  <1> HIDE DEF Fine
  <1> DEFINE v == IF Fine THEN "PASS" ELSE "FAIL"
  <1>6. v = "PASS" <=> CompareDeserves BY <1>5
  <1> HIDE DEF v
  <1>7. Exit(v) BY <1>2 DEF v
  <1> QED BY <1>1, <1>6, <1>7, OtherEnds

\* A tensor equals itself, unless it holds a value that is no number.
LEMMA SelfDiff ==
    ASSUME NEW d \in Seq(Int)
    PROVE  diff(d, d, 0) <=> NonFinite \notin Range(d)
  <1> DEFINE W == {0} \cup {AbsV(d[k] - d[k]) : k \in DOMAIN d \cap DOMAIN d}
  <1>1. \A k \in DOMAIN d : AbsV(d[k] - d[k]) = 0 BY DEF AbsV
  <1>2. W = {0} BY <1>1
  <1>3. Max(W) = 0
    <2>1. {0} \subseteq 0 .. 0 /\ {0} # {} /\ 0 \in Nat OBVIOUS
    <2>2. Max({0}) \in {0} BY <2>1, Greatest
    <2> QED BY <1>2, <2>2
  <1> HIDE DEF W
  <1> DEFINE scale == Max({0} \cup {AbsV(d[k]) : k \in DOMAIN d})
  <1>4. diff(d, d, 0) <=> /\ Len(d) = Len(d) /\ NonFinite \notin Range(d) \cup Range(d)
                          /\ Max(W) = 0 \/ (scale > 0 /\ 100 * Max(W) <= 0 * scale)
    BY Zenon DEF diff, W
  <1> HIDE DEF scale
  <1> QED BY <1>3, <1>4

\* A bundle against itself.
LEMMA SelftestStep == ASSUME VerdictAssumption, VerdictInv, Selftest PROVE VerdictInv'
  <1> DEFINE G == job.golden
             Fine == /\ Opens(G)
                     /\ \A k \in DOMAIN G.tensors : G.tensors[k].read /\ diff(G.tensors[k].data, G.tensors[k].data, 0)
                     /\ diff_tokens(G, G)
  <1>1. job \in Jobs /\ job.tool = "selftest" BY DEF Selftest, VerdictInv
  <1>2. Exit(IF Fine THEN "PASS" ELSE "FAIL") BY DEF Selftest
  <1>3. \A t \in Range(G.tensors) : diff(t.data, t.data, 0) <=> NonFinite \notin Range(t.data)
    <2>1. \A t \in Range(G.tensors) : t.data \in Seq(Int) BY <1>1 DEF VerdictAssumption
    <2> QED BY <2>1, SelfDiff
  <1>4. \A t : t \in Range(G.tensors) <=> \E k \in DOMAIN G.tensors : t = G.tensors[k] BY DEF Range
  <1>5. SelftestDeserves <=> Fine BY <1>3, <1>4, Zenon DEF SelftestDeserves, diff_tokens
  <1> HIDE DEF Fine
  <1> DEFINE v == IF Fine THEN "PASS" ELSE "FAIL"
  <1>6. v = "PASS" <=> SelftestDeserves BY <1>5
  <1> HIDE DEF v
  <1>7. Exit(v) BY <1>2 DEF v
  <1> QED BY <1>1, <1>6, <1>7, OtherEnds

-----------------------------------------------------------------------------
(* deltacheck.                                                               *)

\* What deltacheck is about, case by case.
LEMMA DeltaCases ==
    DeltaDeserves <=> /\ job.opens /\ ~job.list /\ discover # {}
                      /\ \A k \in discover : CaseOk(job.cases[k])
  <1>1. \A c : c \in Range(job.cases) <=> \E k \in DOMAIN job.cases : c = job.cases[k] BY DEF Range
  <1>2. \A k : k \in discover <=> k \in DOMAIN job.cases /\ parse_tag(job.cases[k].tag) # Unparsed BY DEF discover
  <1> DEFINE Case(c) == parse_tag(c.tag) # Unparsed
  <1>3. (\E c \in Range(job.cases) : Case(c)) <=> discover # {}
    <2> HIDE DEF Case
    <2>1. \A k : k \in discover <=> k \in DOMAIN job.cases /\ Case(job.cases[k]) BY <1>2 DEF Case
    <2> QED BY <1>1, <2>1
  <1>4. (\A c \in Range(job.cases) : Case(c) => CaseOk(c)) <=> \A k \in discover : CaseOk(job.cases[k])
    <2>1. \A k : k \in discover <=> k \in DOMAIN job.cases /\ Case(job.cases[k]) BY <1>2
    <2> HIDE DEF Case
    <2> QED BY <1>1, <2>1
  <1> QED BY <1>3, <1>4 DEF DeltaDeserves

\* A bundle without a case fails, --list compares nothing.
LEMMA OpenDeltaStep == ASSUME VerdictAssumption, VerdictInv, OpenDelta PROVE VerdictInv'
  <1>1. job' = job /\ job \in Jobs /\ job.tool = "deltacheck" /\ vstage = "start"
    BY DEF OpenDelta, Exit, Go, VerdictInv
  <1>2. CASE (~job.opens \/ discover = {}) /\ Exit("FAIL")
    <2>1. ~DeltaDeserves BY <1>2, DeltaCases
    <2> QED BY <1>1, <1>2, <2>1, OtherEnds
  <1>3. CASE job.list /\ Exit("listed")
    <2>1. ~DeltaDeserves BY <1>3, DeltaCases
    <2> QED BY <1>1, <1>3, <2>1, OtherEnds
  <1>4. CASE job.opens /\ discover # {} /\ ~job.list /\ Go("cases") /\ any_failed' = FALSE
    <2>1. vstage' = "cases" /\ cursor' = 0 BY <1>4 DEF Go
    <2>2. discover' = discover BY <1>1, SamePromise
    <2>3. \A k \in discover : ~(k <= 0)
      <3>1. DOMAIN job.cases = 1 .. Len(job.cases) /\ Len(job.cases) \in Nat BY <1>1 DEF VerdictAssumption
      <3>2. \A k \in discover : k \in 1 .. Len(job.cases) BY <3>1 DEF discover
      <3> QED BY <3>1, <3>2
    <2>4. DeltaInv' BY <1>1, <1>4, <2>1, <2>2, <2>3 DEF DeltaInv
    <2> QED BY <1>1, <1>4, <2>1, <2>4 DEF VerdictInv, GdnInv, CompareInv, VerdictExact, GdnStages
  <1> QED BY <1>2, <1>3, <1>4 DEF OpenDelta

\* The next case: those before it in the bundle have been looked at or are no cases.
LEMMA DeltaCaseStep == ASSUME VerdictAssumption, VerdictInv, DeltaCase PROVE VerdictInv'
  <1>1. /\ job \in Jobs /\ job.tool = "deltacheck" /\ vstage = "cases" /\ job.opens /\ ~job.list /\ discover # {}
        /\ cursor \in Nat
        /\ any_failed = ~(\A k \in discover : k <= cursor => CaseOk(job.cases[k])) /\ any_failed \in BOOLEAN
    BY DEF DeltaCase, VerdictInv, DeltaInv
  <1>2. job' = job /\ vstage' = vstage BY DEF DeltaCase
  <1>3. PICK k \in Left : /\ \A n \in Left : k <= n
                          /\ any_failed' = (any_failed \/ ~CaseOk(job.cases[k])) /\ cursor' = k
    BY DEF DeltaCase
  <1>4. discover \subseteq Nat
    <2>1. DOMAIN job.cases = 1 .. Len(job.cases) /\ Len(job.cases) \in Nat BY <1>1 DEF VerdictAssumption
    <2>2. \A n \in discover : n \in 1 .. Len(job.cases) BY <2>1 DEF discover
    <2> QED BY <2>1, <2>2
  <1>5. k \in discover /\ k \in Nat /\ cursor < k BY <1>3, <1>4 DEF Left
  <1>6. \A n \in discover : n <= k <=> n <= cursor \/ n = k
    <2> TAKE n \in discover
    <2>1. n \in Nat BY <1>4
    <2>2. cursor < n => k <= n BY <1>3 DEF Left
    <2> QED BY <1>1, <1>5, <2>1, <2>2
  <1>7. any_failed' = ~(\A n \in discover : n <= k => CaseOk(job.cases[n])) BY <1>1, <1>3, <1>5, <1>6, Zenon
  <1>8. discover' = discover /\ \A n : CaseOk(job.cases[n])' <=> CaseOk(job.cases[n])
    BY <1>2, SamePromise DEF CaseOk
  <1>9. any_failed' = ~(\A n \in discover' : n <= cursor' => CaseOk(job.cases[n])') BY <1>3, <1>7, <1>8, Zenon
  <1>10. any_failed' \in BOOLEAN BY <1>9, Zenon
  <1>11. DeltaInv' BY <1>1, <1>2, <1>3, <1>5, <1>8, <1>9, Zenon DEF DeltaInv
  <1> QED BY <1>1, <1>2, <1>10, <1>11 DEF VerdictInv, GdnInv, CompareInv, VerdictExact, GdnStages

\* No case is left.
LEMMA DeltaResultStep == ASSUME VerdictAssumption, VerdictInv, DeltaResult PROVE VerdictInv'
  <1>1. /\ job \in Jobs /\ job.tool = "deltacheck" /\ job.opens /\ ~job.list /\ discover # {} /\ cursor \in Nat
        /\ any_failed = ~(\A k \in discover : k <= cursor => CaseOk(job.cases[k])) /\ any_failed \in BOOLEAN
    BY DEF DeltaResult, VerdictInv, DeltaInv
  <1>2. Exit(IF any_failed THEN "FAIL" ELSE "PASS") BY DEF DeltaResult
  <1>3. \A k \in discover : k <= cursor
    <2>1. DOMAIN job.cases = 1 .. Len(job.cases) /\ Len(job.cases) \in Nat BY <1>1 DEF VerdictAssumption
    <2>2. \A k \in discover : k \in Nat /\ ~(cursor < k) BY <2>1 DEF discover, DeltaResult, Left
    <2> QED BY <1>1, <2>2
  <1>4. DeltaDeserves <=> ~any_failed BY <1>1, <1>3, DeltaCases
  <1> DEFINE v == IF any_failed THEN "FAIL" ELSE "PASS"
  <1>5. v = "PASS" <=> DeltaDeserves BY <1>1, <1>4
  <1> HIDE DEF v
  <1>6. Exit(v) BY <1>2 DEF v
  <1> QED BY <1>1, <1>5, <1>6, OtherEnds

-----------------------------------------------------------------------------
\* A step that changes nothing.
LEMMA VerdictStutter == ASSUME VerdictAssumption, VerdictInv, UNCHANGED verdictVars PROVE VerdictInv'
  <1>1. /\ job' = job /\ vstage' = vstage /\ cursor' = cursor /\ any_failed' = any_failed /\ verdict' = verdict
    BY DEF verdictVars
  <1>2. GdnInv' BY <1>1, SameJob DEF VerdictInv, GdnInv, LayersFine, GdnStages
  <1>3. CompareInv' BY <1>1, SamePromise DEF VerdictInv, CompareInv, Opens
  <1>4. DeltaInv' BY <1>1, SamePromise DEF VerdictInv, DeltaInv, CaseOk
  <1>5. VerdictExact'
    <2>1. /\ Layers' = Layers /\ (GdnDeserves' <=> GdnDeserves) /\ (CompareDeserves' <=> CompareDeserves)
          /\ (SelftestDeserves' <=> SelftestDeserves) /\ (DeltaDeserves' <=> DeltaDeserves)
      BY <1>1, SameJob, SamePromise
    <2>2. VerdictExact /\ job.tool \in {"gdncheck", "compare", "selftest", "deltacheck"}
      BY DEF VerdictInv, VerdictAssumption
    <2>3. CASE job.tool = "gdncheck" BY <1>1, <2>1, <2>2, <2>3 DEF VerdictExact
    <2>4. CASE job.tool = "compare"
      <3>1. vstage = "done" => (verdict = "PASS" <=> CompareDeserves) BY <2>2, <2>4 DEF VerdictExact
      <3>2. vstage' = "done" => (verdict' = "PASS" <=> CompareDeserves') BY <1>1, <2>1, <3>1
      <3>3. job.tool' = "compare" BY <1>1, <2>4
      <3> QED BY <3>2, <3>3 DEF VerdictExact
    <2>5. CASE job.tool = "selftest"
      <3>1. vstage = "done" => (verdict = "PASS" <=> SelftestDeserves) BY <2>2, <2>5 DEF VerdictExact
      <3>2. vstage' = "done" => (verdict' = "PASS" <=> SelftestDeserves') BY <1>1, <2>1, <3>1
      <3>3. job.tool' = "selftest" BY <1>1, <2>5
      <3> QED BY <3>2, <3>3 DEF VerdictExact
    <2>6. CASE job.tool = "deltacheck"
      <3>1. vstage = "done" => (verdict = "PASS" <=> DeltaDeserves) BY <2>2, <2>6 DEF VerdictExact
      <3>2. vstage' = "done" => (verdict' = "PASS" <=> DeltaDeserves') BY <1>1, <2>1, <3>1
      <3>3. job.tool' = "deltacheck" BY <1>1, <2>6
      <3> QED BY <3>2, <3>3 DEF VerdictExact
    <2> QED BY <2>2, <2>3, <2>4, <2>5, <2>6
  <1> QED BY <1>1, <1>2, <1>3, <1>4, <1>5 DEF VerdictInv

\* The verdict of every checker is exact, for every model, bundle, flag and deviation: it
\* exits with PASS when its invocation deserves it and never otherwise, whichever of its
\* steps failed and whatever order the layers have.
THEOREM VerdictIsExact == ASSUME VerdictAssumption PROVE VerdictSpec => []VerdictExact
  <1>1. VerdictInit => VerdictInv
    BY DEF VerdictInit, VerdictInv, GdnInv, CompareInv, DeltaInv, VerdictExact, GdnStages
  <1>2. VerdictInv /\ [VerdictNext]_verdictVars => VerdictInv'
    BY OpenGdnStep, SingleStep, TablesStep, IsolatedStep, ChainStep, ModelStep, GreedyStep, ReportStep,
       OpenCompareStep, CompareStep, CompareResultStep, SelftestStep, OpenDeltaStep, DeltaCaseStep,
       DeltaResultStep, VerdictStutter DEF VerdictNext
  <1>3. VerdictInv => VerdictExact BY DEF VerdictInv
  <1> QED BY <1>1, <1>2, <1>3, PTL DEF VerdictSpec
=============================================================================
