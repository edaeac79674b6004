---------------------------- MODULE Stloader_proofs ----------------------------
(***************************************************************************)
(* Proofs about the parts of stloader: the plan of the reads (ReadPlan),   *)
(* the probe of the page cache (ResidencyProbe) and the reader             *)
(* (UringReader), each for every value of its constants.                   *)
(***************************************************************************)
EXTENDS ReadPlan, ResidencyProbe, UringReader, DataLemmas

(***************************************************************************)
(* ReadPlan, for every checkpoint, block size, gap and read size.          *)
(*                                                                         *)
(* Offsets are compared as numbers of blocks: a range or job is a whole    *)
(* number of them (Whole), so what it covers is an interval of blocks, and *)
(* the block sizes cancel (QuotientOrder, CeilExact).  The argument: the   *)
(* sorted tensors are planned in order, so a block that an earlier range   *)
(* has is behind the next tensor, and the one pending range ends within    *)
(* max_gap of it or is closed (MergeInv, PendingInv).  The jobs cut so far *)
(* are an exact prefix of the ranges (JobInv).  The numbers of elements    *)
(* and the merge are given by recursive functions; that these exist is     *)
(* proved by induction over the naturals, with the induction theorem       *)
(* instantiated for a set (DataLemmas, Induct and Recursion).              *)
(***************************************************************************)
\* An entry that was accepted.
Accepted(t) ==
    /\ t.well_formed
    /\ t.start <= t.end /\ data_start + t.end <= file_read.size
    /\ t.end - t.start = Product(t.shape) * t.itemsize

\* A planned range, and its first block and the one behind its last.
RangeType == [offset : Nat, end : Nat]
Lo(r) == r.offset \div Block
Hi(r) == r.end \div Block

\* A range of whole blocks, up to the block of the file's last byte.
Whole(r) == /\ r.offset = Block * Lo(r) /\ r.end = Block * Hi(r) /\ r.offset < r.end
            /\ r.end < file_read.size + Block

\* The control points and what has not been built yet at each.
PlanTypes ==
    /\ file_read \in Shards
    /\ plan_pc \in {"header", "entry", "plan", "jobs", "done", "rejected"}
    /\ at \in Nat \ {0} /\ off \in Nat
    /\ plan_pc \in {"header", "entry"} => ranges = <<>> /\ jobs = <<>>
    /\ plan_pc = "plan" => jobs = <<>>

\* read_header: the entries read so far are accepted and kept as they are.
EntryInv ==
    /\ plan_pc = "header" => at = 1 /\ tensors = <<>>
    /\ plan_pc = "entry" =>
          /\ data_start <= file_read.size
          /\ at <= Len(file_read.entries) + 1
          /\ tensors \in Seq(InHeader) /\ Len(tensors) = at - 1
          /\ \A k \in 1..Len(tensors) : tensors[k] = file_read.entries[k] /\ Accepted(tensors[k])

\* Later: all of them, in order.
OrderInv ==
    plan_pc \in {"plan", "jobs", "done"} =>
        /\ tensors \in Seq(InHeader) /\ ToSet(tensors) = InHeader
        /\ \A t \in InHeader : Accepted(t)
        /\ \A j, k \in DOMAIN tensors : j < k => ~Before(tensors[k], tensors[j])

\* A tensor that has bytes.
Filled(t) == t.start < t.end

\* A block that some range has.
Covered(b) == \E k \in DOMAIN ranges : b \in BlocksOf(ranges[k])

\* Every block but the last of a range has one with tensor bytes close behind it.
NoGap(r) == \A b \in BlocksOf(r) \ {Hi(r) - 1} :
                \E c \in Needed : b < c /\ (c - b - 1) * Block <= file_read.max_gap

\* The ranges are whole, merged or not.
RangeInv ==
    plan_pc \in {"plan", "jobs", "done"} =>
        /\ ranges \in Seq(RangeType) /\ \A k \in DOMAIN ranges : Whole(ranges[k])

\* The merged ranges, when n - 1 tensors have been planned: they have these tensors'
\* blocks, begin and end at blocks with tensor bytes, and are more than max_gap apart.
MergeInv(n) ==
    /\ \A k \in DOMAIN tensors :
          k < n /\ Filled(tensors[k]) => \A b \in BlocksWith(tensors[k]) : Covered(b)
    /\ \A k \in DOMAIN ranges :
          /\ Lo(ranges[k]) \in Needed /\ Hi(ranges[k]) - 1 \in Needed
          /\ NoGap(ranges[k])
          /\ k > 1 => ranges[k].offset > ranges[k - 1].end + file_read.max_gap

\* What is still to be planned does not begin before the last range.
PendingInv(n) ==
    \A k \in DOMAIN tensors : k >= n /\ ranges # <<>> =>
        Lo(Last(ranges)) <= (data_start + tensors[k].start) \div Block

\* plan_shard, with merging, between two tensors and when it has ended.
PlanInv ==
    /\ plan_pc = "plan" => at <= Len(tensors) + 1
    /\ file_read.merge =>
          /\ plan_pc = "plan" => MergeInv(at) /\ PendingInv(at)
          /\ plan_pc \in {"jobs", "done"} => MergeInv(Len(tensors) + 1)

\* A job is an aligned piece of a range that fits a buffer.
JobOk(j) ==
    /\ j.offset % Block = 0 /\ j.len % Block = 0 /\ j.len \in 1..Chunk
    /\ j.range \in DOMAIN ranges

\* The job after j begins at byte o of range k: where j ends, or at the next range.
Follows(j, k, o) ==
    \/ j.offset + j.len < ranges[j.range].end /\ k = j.range /\ o = j.offset + j.len
    \/ j.offset + j.len = ranges[j.range].end /\ k = j.range + 1 /\ o = ranges[k].offset

\* A job.
JobType == [range : Nat, offset : Nat, len : Nat]

\* read_files: the jobs cut so far follow one another from the first range to
\* byte off of range at, in the end to the end of the last range.
JobInv ==
    /\ plan_pc \in {"jobs", "done"} =>
          /\ jobs \in Seq(JobType) /\ \A n \in DOMAIN jobs : JobOk(jobs[n])
          /\ \A n \in DOMAIN jobs : n < Len(jobs) =>
                Follows(jobs[n], jobs[n + 1].range, jobs[n + 1].offset)
          /\ jobs # <<>> => Begins(jobs[1], 1)
    /\ plan_pc = "jobs" =>
          /\ at \in DOMAIN ranges /\ off % Block = 0
          /\ ranges[at].offset <= off /\ off <= ranges[at].end
          /\ jobs = <<>> => at = 1 /\ off = ranges[1].offset
          /\ jobs # <<>> => LET j == jobs[Len(jobs)] IN
                \/ j.range = at /\ off = j.offset + j.len
                \/ off = ranges[at].offset /\ at = j.range + 1 /\ j.offset + j.len = ranges[j.range].end
    /\ plan_pc = "done" =>
          /\ jobs = <<>> <=> ranges = <<>>
          /\ jobs # <<>> => LET j == jobs[Len(jobs)] IN
                j.range = Len(ranges) /\ j.offset + j.len = ranges[j.range].end

\* The inductive invariant.
PlanIndInv == PlanTypes /\ EntryInv /\ OrderInv /\ RangeInv /\ PlanInv /\ JobInv
-----------------------------------------------------------------------------
\* What the assumption says of the file that is read.
LEMMA FileFacts ==
    ASSUME file_read \in Shards
    PROVE  /\ MaxWord \in Nat /\ Block \in Nat \ {0} /\ data_start \in Nat
           /\ file_read.size \in Nat /\ file_read.size + 2 * Block <= MaxWord
           /\ file_read.max_gap \in Nat /\ file_read.chunk_bytes \in Nat
           /\ file_read.entries \in Seq(InHeader)
           /\ \A e \in InHeader : e.well_formed =>
                /\ e.start \in Nat /\ e.end \in Nat /\ e.itemsize \in Nat
                /\ e.shape \in Seq(Nat)
  BY PlanAssumption DEF data_start, InHeader

\* The recursive function that Product defines exists.
LEMMA ProductExists ==
    ASSUME MaxWord \in Nat, NEW N \in Nat, NEW s, \A k \in 1..N : s[k] \in Nat
    PROVE  \E g \in [0..N -> Int] :
             g = [k \in 0..N |-> IF k = 0 THEN 1 ELSE g[k - 1] * s[k]]
  <1> DEFINE F == [p \in (1..N) \X Int |-> p[2] * s[p[1]]]
  <1>1. F \in [(1..N) \X Int -> Int] BY DEF CheckedMul, Overflow
  <1>2. \A k \in 1..N, x \in Int : F[<<k, x>>] = x * s[k] OBVIOUS
  <1> DEFINE S == Int
             a == 1
  <1>3. a \in S /\ F \in [(1..N) \X S -> S] BY <1>1
  <1> HIDE DEF F, S, a
  <1>a. \E g \in [0..N -> S] : g[0] = a /\ \A k \in 1..N : g[k] = F[<<k, g[k - 1]>>]
    BY <1>3, Recursion
  <1>4. PICK g \in [0..N -> Int] :
           g[0] = 1 /\ \A k \in 1..N : g[k] = F[<<k, g[k - 1]>>]
    BY <1>a DEF S, a
  <1>5. ASSUME NEW k \in 0..N
        PROVE  g[k]
                  = IF k = 0 THEN 1 ELSE g[k - 1] * s[k]
    <2>1. CASE k = 0 BY <1>4, <2>1
    <2>2. CASE k # 0
      <3>1. k \in 1..N /\ k - 1 \in 0..N BY <2>2
      <3>2. g[k - 1] \in Int BY <3>1
      <3> QED BY <1>2, <1>4, <2>2, <3>1, <3>2
    <2> QED BY <2>1, <2>2
  <1> QED BY <1>4, <1>5

\* And the one that shape_numel defines.
LEMMA NumelExists ==
    ASSUME MaxWord \in Nat, NEW N \in Nat, NEW s, \A k \in 1..N : s[k] \in Nat
    PROVE  \E g \in [0..N -> Int] :
             g = [k \in 0..N |-> IF k = 0 THEN 1 ELSE CheckedMul(g[k - 1], s[k])]
  <1> DEFINE F == [p \in (1..N) \X Int |-> CheckedMul(p[2], s[p[1]])]
  <1>1. F \in [(1..N) \X Int -> Int] BY DEF CheckedMul, Overflow
  <1>2. \A k \in 1..N, x \in Int : F[<<k, x>>] = CheckedMul(x, s[k]) OBVIOUS
  <1> DEFINE S == Int
             a == 1
  <1>3. a \in S /\ F \in [(1..N) \X S -> S] BY <1>1
  <1> HIDE DEF F, S, a
  <1>a. \E g \in [0..N -> S] : g[0] = a /\ \A k \in 1..N : g[k] = F[<<k, g[k - 1]>>]
    BY <1>3, Recursion
  <1>4. PICK g \in [0..N -> Int] :
           g[0] = 1 /\ \A k \in 1..N : g[k] = F[<<k, g[k - 1]>>]
    BY <1>a DEF S, a
  <1>5. ASSUME NEW k \in 0..N
        PROVE  g[k]
                  = IF k = 0 THEN 1 ELSE CheckedMul(g[k - 1], s[k])
    <2>1. CASE k = 0 BY <1>4, <2>1
    <2>2. CASE k # 0
      <3>1. k \in 1..N /\ k - 1 \in 0..N BY <2>2
      <3>2. g[k - 1] \in Int BY <3>1
      <3> QED BY <1>2, <1>4, <2>2, <3>1, <3>2
    <2> QED BY <2>1, <2>2
  <1> QED BY <1>4, <1>5

\* What shape_numel computes, when it does not overflow, is the product.
LEMMA NumelIsProduct ==
    ASSUME MaxWord \in Nat, NEW s \in Seq(Nat), shape_numel(s) # Overflow
    PROVE  Product(s) = shape_numel(s) /\ Product(s) \in Nat
  <1> DEFINE N == Len(s)
             P == CHOOSE n : n = [k \in 0..N |-> IF k = 0 THEN 1 ELSE n[k - 1] * s[k]]
             Q == CHOOSE n : n = [k \in 0..N |-> IF k = 0 THEN 1 ELSE CheckedMul(n[k - 1], s[k])]
  <1>1. N \in Nat /\ \A k \in 1..N : s[k] \in Nat BY LenProperties, ElementOfSeq
  <1>2. Product(s) = P[N] BY DEF Product
  <1>3. shape_numel(s) = Q[N] BY DEF shape_numel
  <1> HIDE DEF N
  <1>4. P = [k \in 0..N |-> IF k = 0 THEN 1 ELSE P[k - 1] * s[k]]
    <2>0. N \in Nat /\ \A k \in 1..N : s[k] \in Nat BY <1>1
    <2>1. \E g \in [0..N -> Int] : g = [k \in 0..N |-> IF k = 0 THEN 1 ELSE g[k - 1] * s[k]]
      <3> HIDE DEF P, Q
      <3> QED BY <2>0, ProductExists, Zenon
    <2> QED BY <2>1
  <1>5. Q = [k \in 0..N |-> IF k = 0 THEN 1 ELSE CheckedMul(Q[k - 1], s[k])]
    <2>0. N \in Nat /\ \A k \in 1..N : s[k] \in Nat BY <1>1
    <2>1. \E g \in [0..N -> Int] : g = [k \in 0..N |-> IF k = 0 THEN 1 ELSE CheckedMul(g[k - 1], s[k])]
      <3> HIDE DEF P, Q
      <3> QED BY <2>0, NumelExists, Zenon
    <2> QED BY <2>1
  <1> HIDE DEF P, Q
  <1> DEFINE T == {k \in Nat : k <= N => Q[k] = Overflow \/ (Q[k] = P[k] /\ P[k] \in Nat)}
  <1>6. 0 \in T BY <1>1, <1>4, <1>5
  <1>7. ASSUME NEW k \in Nat, k \in T PROVE k + 1 \in T
    <2> SUFFICES ASSUME k + 1 <= N, Q[k + 1] # Overflow
                 PROVE Q[k + 1] = P[k + 1] /\ P[k + 1] \in Nat
      OBVIOUS
    <2>1. k + 1 \in 1..N /\ k + 1 \in 0..N /\ k + 1 # 0 /\ (k + 1) - 1 = k /\ k <= N BY <1>1
    <2>2. P[k + 1] = P[k] * s[k + 1] BY <1>4, <2>1
    <2>3. Q[k + 1] = CheckedMul(Q[k], s[k + 1]) BY <1>5, <2>1
    <2>4. Q[k] # Overflow /\ Q[k + 1] = Q[k] * s[k + 1] BY <2>3 DEF CheckedMul
    <2>5. Q[k] = P[k] /\ P[k] \in Nat BY <1>7, <2>1, <2>4
    <2>6. s[k + 1] \in Nat BY <1>1, <2>1
    <2> QED BY <2>2, <2>4, <2>5, <2>6
  <1>8. \A k \in Nat : k \in T
    <2> HIDE DEF T
    <2> QED BY <1>6, <1>7, Induct
  <1>9. N \in T /\ N <= N BY <1>1, <1>8
  <1> QED BY <1>2, <1>3, <1>9

-----------------------------------------------------------------------------
(* Rounding to blocks.                                                       *)

\* The quotient is monotonic.
LEMMA QuotientOrder ==
    ASSUME NEW y \in Nat \ {0}, NEW a \in Nat, NEW b \in Nat, a <= b
    PROVE  a \div y <= b \div y
  <1> DEFINE p == a \div y
             q == b \div y
  <1>1. p \in Nat /\ (a % y) \in 0..(y - 1) /\ a = y * p + (a % y) BY DivMod
  <1>2. q \in Nat /\ (b % y) \in 0..(y - 1) /\ b = y * q + (b % y) BY DivMod
  <1> HIDE DEF p, q
  <1> SUFFICES ASSUME q + 1 <= p PROVE FALSE BY <1>1, <1>2
  <1>3. y * (q + 1) <= y * p BY <1>1, <1>2
  <1>4. y * (q + 1) = y * q + y BY <1>2
  <1> QED BY <1>1, <1>2, <1>3, <1>4

\* Rounding up does not saturate for what lies in a file or one block behind it.
LEMMA CeilExact ==
    ASSUME MaxWord \in Nat, Block \in Nat \ {0}, NEW x \in Nat, x + Block <= MaxWord
    PROVE  /\ CeilTo(x) = Block * ((x + Block - 1) \div Block)
           /\ CeilTo(x) \in Nat /\ x <= CeilTo(x) /\ CeilTo(x) < x + Block
           /\ (x + Block - 1) \div Block \in Nat
           /\ x > 0 => (x + Block - 1) \div Block = (x - 1) \div Block + 1
  <1> DEFINE q == (x + Block - 1) \div Block
             c == q * Block
  <1>1. x + Block - 1 \in Nat OBVIOUS
  <1>2. /\ q \in Nat /\ (x + Block - 1) % Block \in 0..(Block - 1)
        /\ x + Block - 1 = Block * q + ((x + Block - 1) % Block)
    BY <1>1, DivMod
  <1>a. CeilTo(x) = Min({MaxWord, c}) BY DEF CeilTo
  <1>b. x > 0 => q = (x - 1) \div Block + 1
    <2> SUFFICES ASSUME x > 0 PROVE q = (x - 1) \div Block + 1 OBVIOUS
    <2> DEFINE p == (x - 1) \div Block
               r == (x - 1) % Block
    <2>1. x - 1 \in Nat OBVIOUS
    <2>2. p \in Nat /\ r \in 0..(Block - 1) /\ x - 1 = Block * p + r BY <2>1, DivMod
    <2> HIDE DEF p, r
    <2>3. x + Block - 1 = Block * (p + 1) + r BY <2>2
    <2>4. p + 1 \in Int BY <2>2
    <2> QED BY <2>2, <2>3, <2>4, DivUnique
  <1> HIDE DEF q
  <1>3. c = Block * q /\ c \in Nat /\ c >= x /\ c < x + Block BY <1>2
  <1>4. c <= MaxWord BY <1>3
  <1> HIDE DEF c
  <1>5. CeilTo(x) = c
    <2>1. MaxWord \in Int /\ c \in Int BY <1>3
    <2>2. (CeilTo(x) = MaxWord \/ CeilTo(x) = c) /\ CeilTo(x) <= c BY <2>1, <1>a, Smaller, Zenon
    <2> QED BY <1>3, <1>4, <2>2
  <1> QED BY <1>2, <1>3, <1>5, <1>b DEF q

\* A multiple is not rounded.
LEMMA CeilWhole ==
    ASSUME MaxWord \in Nat, Block \in Nat \ {0}, NEW x \in Nat, x <= MaxWord, x % Block = 0
    PROVE  CeilTo(x) = x
  <1>1. PICK q \in Nat : x = Block * q BY Multiple
  <1>2. x + Block - 1 = Block * q + (Block - 1) BY <1>1
  <1>3. Block - 1 \in 0..(Block - 1) OBVIOUS
  <1>4. (x + Block - 1) \div Block = q BY <1>2, <1>3, DivUnique
  <1>5. q * Block = x BY <1>1
  <1>6. CeilTo(x) = Min({MaxWord, x}) BY <1>4, <1>5 DEF CeilTo
  <1>7. MaxWord \in Int /\ x \in Int OBVIOUS
  <1>8. (CeilTo(x) = MaxWord \/ CeilTo(x) = x) /\ CeilTo(x) <= x BY <1>6, <1>7, Smaller, Zenon
  <1> QED BY <1>7, <1>8

\* A rounded number that was cut at the largest word is no multiple, but large.
LEMMA CeilAny ==
    ASSUME MaxWord \in Nat \ {0}, Block \in Nat \ {0}, NEW x \in Nat \ {0}
    PROVE  CeilTo(x) \in Nat \ {0} /\ (CeilTo(x) = MaxWord \/ CeilTo(x) % Block = 0)
           /\ (x <= MaxWord => x <= CeilTo(x))
  <1> DEFINE q == (x + Block - 1) \div Block
             c == q * Block
  <1>1. x + Block - 1 \in Nat OBVIOUS
  <1>2. /\ q \in Nat /\ (x + Block - 1) % Block \in 0..(Block - 1)
        /\ x + Block - 1 = Block * q + ((x + Block - 1) % Block)
    BY <1>1, DivMod
  <1>a. CeilTo(x) = Min({MaxWord, c}) BY DEF CeilTo
  <1> HIDE DEF q
  <1>3. c = Block * q /\ c \in Nat /\ c >= x BY <1>2
  <1>4. c % Block = 0 BY <1>2, <1>3, MultipleOf
  <1> HIDE DEF c
  <1>5. MaxWord \in Int /\ c \in Int BY <1>3
  <1>6. CeilTo(x) = MaxWord \/ CeilTo(x) = c BY <1>a, <1>5, Smaller, Zenon
  <1> QED BY <1>3, <1>4, <1>6

\* The range of a tensor is the blocks from its first byte's to its last byte's.
LEMMA RangeBlocks ==
    ASSUME file_read \in Shards, NEW t \in InHeader, Accepted(t), Filled(t)
    PROVE  /\ RangeOf(t) \in RangeType /\ Whole(RangeOf(t))
           /\ Lo(RangeOf(t)) = (data_start + t.start) \div Block
           /\ Hi(RangeOf(t)) = (data_start + t.end - 1) \div Block + 1
           /\ BlocksOf(RangeOf(t)) = BlocksWith(t)
  <1> DEFINE z == file_read.size
             s == data_start + t.start
             e == data_start + t.end
             lo == s \div Block
             hi == (e - 1) \div Block + 1
             r == RangeOf(t)
             fc == CeilTo(z)
  <1>1. /\ MaxWord \in Nat /\ Block \in Nat \ {0} /\ data_start \in Nat
        /\ z \in Nat /\ z + 2 * Block <= MaxWord
    BY FileFacts
  <1>0. t.start \in Nat /\ t.end \in Nat BY FileFacts DEF Accepted
  <1>2. s \in Nat /\ e \in Nat /\ s < e /\ e <= z BY FileFacts DEF Accepted, Filled
  <1>3. /\ lo \in Nat /\ s % Block \in 0..(Block - 1) /\ s = Block * lo + (s % Block)
    BY <1>1, <1>2, DivMod
  <1>4. /\ CeilTo(e) = Block * hi /\ CeilTo(e) \in Nat /\ e <= CeilTo(e) /\ CeilTo(e) < e + Block
        /\ hi \in Nat
    <2>1. e + Block <= MaxWord /\ e > 0 BY <1>1, <1>2
    <2> QED BY <1>1, <1>2, <2>1, CeilExact
  <1>5. /\ fc = Block * ((z + Block - 1) \div Block) /\ fc \in Nat /\ z <= fc
        /\ (z + Block - 1) \div Block \in Nat
    <2>1. z + Block <= MaxWord BY <1>1
    <2> QED BY <1>1, <2>1, CeilExact
  <1>6. CeilTo(e) <= fc
    <2>1. CeilTo(e) = Block * ((e + Block - 1) \div Block) /\ (e + Block - 1) \div Block \in Nat
      <3>1. e + Block <= MaxWord BY <1>1, <1>2
      <3> QED BY <1>1, <1>2, <3>1, CeilExact
    <2>2. (e + Block - 1) \div Block <= (z + Block - 1) \div Block
      <3>1. e + Block - 1 \in Nat /\ z + Block - 1 \in Nat /\ e + Block - 1 <= z + Block - 1
        BY <1>1, <1>2
      <3> HIDE DEF e, z
      <3> QED BY <1>1, <3>1, QuotientOrder
    <2> DEFINE p == (e + Block - 1) \div Block
               q == (z + Block - 1) \div Block
    <2>3. p \in Nat /\ q \in Nat /\ p <= q /\ CeilTo(e) = Block * p /\ fc = Block * q BY <1>5, <2>1, <2>2
    <2> HIDE DEF p, q, fc, e
    <2>4. Block * p <= Block * q BY <1>1, <2>3
    <2> QED BY <2>3, <2>4
  <1>7. FloorTo(s) = Block * lo /\ FloorTo(s) \in Nat /\ FloorTo(s) <= s
    BY <1>1, <1>2, <1>3 DEF FloorTo
  <1>8. r = [offset |-> Min({fc, FloorTo(s)}), end |-> Min({fc, CeilTo(e)})]
    BY DEF RangeOf
  <1> HIDE DEF z, s, e, lo, hi, r, fc
  <1>9. Min({fc, FloorTo(s)}) = FloorTo(s)
    <2>1. fc \in Int /\ FloorTo(s) \in Int BY <1>5, <1>7
    <2>2. \/ Min({fc, FloorTo(s)}) = fc
          \/ Min({fc, FloorTo(s)}) = FloorTo(s)
      BY <2>1, Smaller, Zenon
    <2>3. Min({fc, FloorTo(s)}) <= FloorTo(s) BY <2>1, Smaller, Zenon
    <2>4. FloorTo(s) <= fc BY <1>2, <1>5, <1>7, <1>1
    <2> QED BY <2>1, <2>2, <2>3, <2>4
  <1>10. Min({fc, CeilTo(e)}) = CeilTo(e)
    <2>1. fc \in Int /\ CeilTo(e) \in Int BY <1>4, <1>5
    <2>2. \/ Min({fc, CeilTo(e)}) = fc
          \/ Min({fc, CeilTo(e)}) = CeilTo(e)
      BY <2>1, Smaller, Zenon
    <2>3. Min({fc, CeilTo(e)}) <= CeilTo(e) BY <2>1, Smaller, Zenon
    <2> QED BY <1>6, <2>1, <2>2, <2>3
  <1>11. r = [offset |-> Block * lo, end |-> Block * hi] BY <1>4, <1>7, <1>8, <1>9, <1>10
  <1>12. /\ Block * lo \in Nat /\ Block * hi \in Nat /\ Block * lo < Block * hi
         /\ Block * hi < z + Block
    BY <1>1, <1>2, <1>4, <1>7
  <1>13. (Block * lo) \div Block = lo /\ (Block * hi) \div Block = hi
    <2>1. 0 \in 0..(Block - 1) /\ lo \in Int /\ hi \in Int BY <1>1, <1>3, <1>4
    <2>2. (Block * lo + 0) \div Block = lo /\ (Block * hi + 0) \div Block = hi BY <1>1, <2>1, DivUnique
    <2> QED BY <1>12, <2>2
  <1>14. r \in RangeType /\ Lo(r) = lo /\ Hi(r) = hi BY <1>11, <1>12, <1>13 DEF RangeType, Lo, Hi
  <1>15. Whole(r) BY <1>11, <1>12, <1>14 DEF Whole, z
  <1>16. BlocksOf(r) = lo..(hi - 1) BY <1>14 DEF BlocksOf, Lo, Hi
  <1>17. hi - 1 = (data_start + t.end - 1) \div Block
    <2> DEFINE q == (e - 1) \div Block
    <2>1. q \in Int /\ hi = q + 1 BY <1>1, <1>2, DivMod DEF hi
    <2>2. e - 1 = data_start + t.end - 1 BY <1>1, <1>0 DEF e
    <2>3. q = (data_start + t.end - 1) \div Block BY <2>2
    <2> HIDE DEF q
    <2> QED BY <2>1, <2>3
  <1>18. BlocksWith(t) = lo..(hi - 1) BY <1>17 DEF BlocksWith, lo, s
  <1>19. Hi(r) = (data_start + t.end - 1) \div Block + 1
    <2>1. hi = (hi - 1) + 1 BY <1>4
    <2> QED BY <1>14, <1>17, <2>1
  <1> QED BY <1>14, <1>15, <1>16, <1>18, <1>19 DEF r, lo, s

-----------------------------------------------------------------------------
(* read_header.                                                              *)

\* Nothing that only looks at the file changes while the file does not.
LEMMA SameFile ==
    ASSUME UNCHANGED file_read
    PROVE  /\ data_start' = data_start /\ InHeader' = InHeader /\ Needed' = Needed
           /\ Chunk' = Chunk
           /\ \A t : Accepted(t)' = Accepted(t) /\ BlocksWith(t)' = BlocksWith(t)
           /\ \A r : Whole(r)' = Whole(r) /\ NoGap(r)' = NoGap(r)
  BY DEF data_start, InHeader, Needed, BlocksWith, Accepted, Whole, Lo, Hi, NoGap, BlocksOf, Chunk

\* Nothing has been read.
LEMMA PlanStart ==
    ASSUME PlanInit
    PROVE  PlanIndInv
  BY DEF PlanInit, PlanIndInv, PlanTypes, EntryInv, OrderInv, RangeInv, PlanInv, JobInv

\* ReadHeaderLength: the data begin inside the file.
LEMMA HeaderStep ==
    ASSUME PlanIndInv, ReadHeaderLength
    PROVE  PlanIndInv'
  <1>1. file_read \in Shards /\ at = 1 /\ tensors = <<>> /\ ranges = <<>> /\ jobs = <<>>
    BY DEF PlanIndInv, PlanTypes, EntryInv, ReadHeaderLength
  <1>2. PlanTypes'
    BY DEF PlanIndInv, PlanTypes, ReadHeaderLength
  <1>3. EntryInv'
    <2>1. CASE HeaderFits
      <3>1. plan_pc' = "entry" /\ data_start' <= file_read'.size /\ InHeader' = InHeader
        BY <2>1, SameFile DEF ReadHeaderLength, HeaderFits
      <3>2. Len(file_read.entries) \in Nat BY <1>1, FileFacts, LenProperties
      <3>3. tensors' = <<>> /\ at' = 1 /\ tensors' \in Seq(InHeader) /\ Len(tensors') = 0
        BY <1>1 DEF ReadHeaderLength
      <3>4. file_read' = file_read BY DEF ReadHeaderLength
      <3> QED BY <3>1, <3>2, <3>3, <3>4 DEF EntryInv
    <2>2. CASE ~HeaderFits
      <3>1. plan_pc' = "rejected" BY <2>2 DEF ReadHeaderLength
      <3> QED BY <3>1 DEF EntryInv
    <2> QED BY <2>1, <2>2
  <1>4. plan_pc' \notin {"plan", "jobs", "done"} BY DEF ReadHeaderLength
  <1> QED BY <1>2, <1>3, <1>4 DEF PlanIndInv, OrderInv, RangeInv, PlanInv, JobInv

\* An entry that passes the checks is accepted.
LEMMA ValidAccepted ==
    ASSUME file_read \in Shards, data_start <= file_read.size, NEW e \in InHeader, EntryValid(e)
    PROVE  Accepted(e)
  <1>1. /\ MaxWord \in Nat /\ data_start \in Nat /\ file_read.size \in Nat
        /\ e.well_formed /\ e.start \in Nat /\ e.end \in Nat /\ e.itemsize \in Nat
        /\ e.shape \in Seq(Nat)
    BY FileFacts DEF EntryValid
  <1>2. /\ e.start <= e.end /\ e.end <= file_read.size - data_start
        /\ shape_numel(e.shape) # Overflow
        /\ CheckedMul(shape_numel(e.shape), e.itemsize) # Overflow
        /\ CheckedMul(shape_numel(e.shape), e.itemsize) = e.end - e.start
    BY DEF EntryValid
  <1>3. Product(e.shape) = shape_numel(e.shape) BY <1>1, <1>2, NumelIsProduct
  <1>4. e.end - e.start = Product(e.shape) * e.itemsize BY <1>2, <1>3 DEF CheckedMul
  <1>5. data_start + e.end <= file_read.size BY <1>1, <1>2
  <1> QED BY <1>1, <1>2, <1>4, <1>5 DEF Accepted

\* ReadEntry accepts one more entry.
LEMMA EntryStep ==
    ASSUME PlanIndInv, ReadEntry
    PROVE  PlanIndInv'
  <1> DEFINE e == file_read.entries[at]
             n == Len(tensors)
             N == Len(file_read.entries)
  <1>1. /\ file_read \in Shards /\ plan_pc = "entry" /\ at \in Nat \ {0} /\ at <= N
        /\ data_start <= file_read.size /\ tensors \in Seq(InHeader) /\ n = at - 1
        /\ \A k \in 1..n : tensors[k] = file_read.entries[k] /\ Accepted(tensors[k])
    BY DEF PlanIndInv, PlanTypes, EntryInv, ReadEntry
  <1>2. file_read' = file_read /\ ranges' = ranges /\ off' = off /\ jobs' = jobs
    BY DEF ReadEntry
  <1>3. data_start' = data_start /\ InHeader' = InHeader /\ \A t : Accepted(t)' = Accepted(t)
    BY <1>2, SameFile
  <1>4. N \in Nat /\ e \in InHeader
    <2>1. file_read.entries \in Seq(InHeader) BY <1>1, FileFacts
    <2>2. N \in Nat BY <2>1, LenProperties
    <2> QED BY <1>1, <2>1, <2>2, ElementOfSeq
  <1>5. plan_pc' \notin {"header", "plan", "jobs", "done"} BY <1>1 DEF ReadEntry
  <1>6. CASE EntryValid(e)
    <2>1. tensors' = Append(tensors, e) /\ at' = at + 1 /\ plan_pc' = "entry"
      BY <1>1, <1>6 DEF ReadEntry
    <2>2. Accepted(e) BY <1>1, <1>4, <1>6, ValidAccepted
    <2>3. /\ tensors' \in Seq(InHeader) /\ Len(tensors') = n + 1 /\ tensors'[n + 1] = e
          /\ \A k \in 1..n : tensors'[k] = tensors[k]
      BY <1>1, <1>4, <2>1, AppendProperties
    <2>4. n \in Nat /\ n + 1 = at BY <1>1, LenProperties
    <2>5. ASSUME NEW k \in 1..Len(tensors')
          PROVE tensors'[k] = file_read.entries[k] /\ Accepted(tensors'[k])
      <3>1. k \in 1..n \/ k = n + 1 BY <2>3, <2>4
      <3> QED BY <1>1, <2>2, <2>3, <2>4, <3>1
    <2>6. EntryInv'
      BY <1>1, <1>2, <1>3, <1>4, <2>1, <2>3, <2>4, <2>5 DEF EntryInv
    <2>7. PlanTypes' BY <1>1, <1>2, <2>1 DEF PlanIndInv, PlanTypes
    <2> QED BY <1>5, <2>6, <2>7 DEF PlanIndInv, OrderInv, RangeInv, PlanInv, JobInv
  <1>7. CASE ~EntryValid(e)
    <2>1. plan_pc' = "rejected" /\ at' = at BY <1>7 DEF ReadEntry
    <2> QED BY <1>1, <1>2, <2>1
        DEF PlanIndInv, PlanTypes, EntryInv, OrderInv, RangeInv, PlanInv, JobInv
  <1> QED BY <1>6, <1>7

\* The sort keeps the entries and puts them in order.
LEMMA SortStep ==
    ASSUME PlanIndInv, SortTensors
    PROVE  PlanIndInv'
  <1> DEFINE n == Len(tensors)
             N == Len(file_read.entries)
             entries == file_read.entries
  <1>1. /\ file_read \in Shards /\ plan_pc = "entry" /\ at \in Nat \ {0} /\ at > N
        /\ at <= N + 1 /\ tensors \in Seq(InHeader) /\ n = at - 1
        /\ \A k \in 1..n : tensors[k] = entries[k] /\ Accepted(tensors[k])
        /\ ranges = <<>> /\ jobs = <<>>
    BY DEF PlanIndInv, PlanTypes, EntryInv, SortTensors
  <1>2. PICK p \in Bijection(DOMAIN tensors, DOMAIN tensors) :
           Sorts(p) /\ tensors' = [k \in DOMAIN tensors |-> tensors[p[k]]]
    BY DEF SortTensors
  <1>3. /\ file_read' = file_read /\ ranges' = ranges /\ off' = off /\ jobs' = jobs
        /\ plan_pc' = "plan" /\ at' = 1
    BY DEF SortTensors
  <1>4. data_start' = data_start /\ InHeader' = InHeader /\ \A t : Accepted(t)' = Accepted(t)
    BY <1>3, SameFile
  <1>5. /\ entries \in Seq(InHeader) /\ N \in Nat /\ n = N /\ DOMAIN tensors = 1..n
        /\ DOMAIN entries = 1..n
    <2>1. entries \in Seq(InHeader) BY <1>1, FileFacts
    <2>2. N \in Nat /\ DOMAIN entries = 1..N BY <2>1, LenProperties
    <2> QED BY <1>1, <2>1, <2>2, LenProperties
  <1>6. p \in [1..n -> 1..n] /\ \A i \in 1..n : \E k \in 1..n : p[k] = i
    BY <1>2, <1>5 DEF Bijection, Injection, Surjection
  <1>7. \A k \in 1..n : tensors[k] \in InHeader BY <1>1, ElementOfSeq
  <1>8. tensors' \in Seq(InHeader) /\ DOMAIN tensors' = 1..n /\ Len(tensors') = n
    <2>1. tensors' \in [1..n -> InHeader] BY <1>2, <1>5, <1>6, <1>7
    <2>2. n \in Nat BY <1>5
    <2> HIDE DEF n
    <2>3. tensors' \in Seq(InHeader) BY <2>1, <2>2, SeqDef
    <2>4. DOMAIN tensors' = 1..n BY <2>1
    <2> QED BY <2>2, <2>3, <2>4, LenProperties
  <1>9. \A k \in 1..n : tensors'[k] = tensors[p[k]] BY <1>2, <1>5
  <1>10. InHeader = {entries[k] : k \in 1..n} BY <1>5 DEF InHeader, ToSet
  <1>11. ToSet(tensors') = InHeader
    <2>1. ToSet(tensors') = {tensors'[k] : k \in 1..n} BY <1>8 DEF ToSet
    <2>2. \A k \in 1..n : p[k] \in 1..n /\ tensors'[k] = entries[p[k]] BY <1>1, <1>6, <1>9
    <2>3. ASSUME NEW i \in 1..n PROVE \E k \in 1..n : tensors'[k] = entries[i]
      <3>1. PICK k \in 1..n : p[k] = i BY <1>6
      <3> QED BY <2>2, <3>1
    <2>4. \A k \in 1..n : tensors'[k] \in InHeader BY <1>10, <2>2
    <2> HIDE DEF n, entries
    <2>5. ToSet(tensors') \subseteq InHeader BY <2>1, <2>4
    <2>6. InHeader \subseteq ToSet(tensors') BY <1>10, <2>1, <2>3
    <2> QED BY <2>5, <2>6
  <1>12. \A t \in InHeader : Accepted(t) BY <1>1, <1>10
  <1>13. ASSUME NEW j \in DOMAIN tensors', NEW k \in DOMAIN tensors', j < k
         PROVE  ~Before(tensors'[k], tensors'[j])
    <2>1. j \in 1..n /\ k \in 1..n BY <1>8
    <2>2. \/ Before(tensors[p[j]], tensors[p[k]])
          \/ ~Before(tensors[p[k]], tensors[p[j]])
      BY <1>2, <1>5, <1>13, <2>1 DEF Sorts
    <2>3. tensors'[j] = tensors[p[j]] /\ tensors'[k] = tensors[p[k]] BY <1>9, <2>1
    <2>4. p[j] \in 1..n /\ p[k] \in 1..n BY <1>6, <2>1
    <2> DEFINE s == tensors[p[j]]
               t == tensors[p[k]]
    <2>5. s \in InHeader /\ t \in InHeader BY <1>7, <2>4
    <2>6. s.start \in Nat /\ s.end \in Nat /\ t.start \in Nat /\ t.end \in Nat
      BY <1>1, <1>12, <2>5, FileFacts DEF Accepted
    <2>7. ~Before(t, s) BY <2>2, <2>6 DEF Before
    <2> QED BY <2>3, <2>7
  <1>14. PlanTypes' BY <1>1, <1>3 DEF PlanIndInv, PlanTypes
  <1>15. OrderInv' BY <1>3, <1>4, <1>8, <1>11, <1>12, <1>13 DEF OrderInv
  <1>16. EntryInv' BY <1>3 DEF EntryInv
  <1>17. ranges' = <<>> /\ DOMAIN ranges' = {} BY <1>1, <1>3
  <1>18. RangeInv' BY <1>17 DEF RangeInv
  <1>19. PlanInv'
    <2>1. MergeInv(1)' BY <1>8, <1>17 DEF MergeInv
    <2>2. PendingInv(1)' BY <1>17 DEF PendingInv
    <2>3. 1 <= n + 1 BY <1>5
    <2> QED BY <1>3, <1>8, <2>1, <2>2, <2>3 DEF PlanInv
  <1>20. JobInv' BY <1>3 DEF JobInv
  <1> QED BY <1>14, <1>15, <1>16, <1>18, <1>19, <1>20 DEF PlanIndInv

-----------------------------------------------------------------------------
(* plan_shard.                                                               *)

\* A range of whole blocks, in blocks.
LEMMA WholeFacts ==
    ASSUME file_read \in Shards, NEW r \in RangeType, Whole(r)
    PROVE  /\ Lo(r) \in Nat /\ Hi(r) \in Nat /\ Lo(r) < Hi(r)
           /\ BlocksOf(r) = Lo(r)..(Hi(r) - 1)
           /\ r.offset % Block = 0 /\ r.end % Block = 0
           /\ r.offset \in Nat /\ r.end \in Nat
           /\ r.offset = Block * Lo(r) /\ r.end = Block * Hi(r) /\ r.offset < r.end
           /\ Block \in Nat \ {0}
  <1>1. Block \in Nat \ {0} /\ r.offset \in Nat /\ r.end \in Nat BY FileFacts DEF RangeType
  <1>2. Lo(r) \in Nat /\ Hi(r) \in Nat BY <1>1, DivMod DEF Lo, Hi
  <1>3. r.offset = Block * Lo(r) /\ r.end = Block * Hi(r) /\ r.offset < r.end BY DEF Whole
  <1>4. Lo(r) < Hi(r)
    <2> SUFFICES ASSUME Hi(r) <= Lo(r) PROVE FALSE BY <1>2
    <2>1. Block * Hi(r) <= Block * Lo(r) BY <1>1, <1>2
    <2> QED BY <1>1, <1>3, <2>1
  <1>5. r.offset % Block = 0 /\ r.end % Block = 0 BY <1>1, <1>2, <1>3, MultipleOf
  <1> QED BY <1>1, <1>2, <1>3, <1>4, <1>5 DEF BlocksOf, Lo, Hi

\* The range of a tensor alone: its blocks are needed, and none is skipped.
LEMMA OwnRange ==
    ASSUME file_read \in Shards, NEW t \in InHeader, Accepted(t), Filled(t)
    PROVE  LET r == RangeOf(t) IN
           /\ BlocksOf(r) \subseteq Needed /\ Lo(r) \in Needed /\ Hi(r) - 1 \in Needed
           /\ NoGap(r)
  <1> DEFINE r == RangeOf(t)
  <1>1. r \in RangeType /\ Whole(r) /\ BlocksOf(r) = BlocksWith(t) BY RangeBlocks
  <1> HIDE DEF r
  <1>2. BlocksWith(t) \subseteq Needed BY DEF Needed, Filled
  <1>3. /\ Lo(r) \in Nat /\ Hi(r) \in Nat /\ Lo(r) < Hi(r) /\ BlocksOf(r) = Lo(r)..(Hi(r) - 1)
        /\ Block \in Nat \ {0}
    BY <1>1, WholeFacts
  <1>4. Lo(r) \in BlocksOf(r) /\ Hi(r) - 1 \in BlocksOf(r) BY <1>3
  <1>5. ASSUME NEW b \in BlocksOf(r) \ {Hi(r) - 1}
        PROVE  \E c \in Needed : b < c /\ (c - b - 1) * Block <= file_read.max_gap
    <2>1. b \in Int /\ b + 1 \in BlocksOf(r) /\ b < b + 1 /\ ((b + 1) - b - 1) * Block = 0 BY <1>3
    <2>2. file_read.max_gap \in Nat BY FileFacts
    <2>3. b + 1 \in Needed BY <1>1, <1>2, <2>1
    <2>4. ((b + 1) - b - 1) * Block <= file_read.max_gap BY <2>1, <2>2
    <2> QED BY <2>1, <2>3, <2>4
  <1>6. NoGap(r) BY <1>5 DEF NoGap
  <1> QED BY <1>1, <1>2, <1>4, <1>6 DEF r

\* Two blocks with no more than g bytes between the end of the first's range and
\* the second.
LEMMA GapBound ==
    ASSUME NEW B \in Nat \ {0}, NEW g \in Nat, NEW hi \in Nat, NEW lo \in Nat, NEW b \in Int,
           hi - 1 <= b, b < lo, B * lo <= B * hi + g
    PROVE  (lo - b - 1) * B <= g
  <1>1. lo - b - 1 \in Nat /\ lo - b - 1 <= lo - hi OBVIOUS
  <1>2. (lo - b - 1) * B <= (lo - hi) * B BY <1>1
  <1>3. (lo - hi) * B = B * lo - B * hi OBVIOUS
  <1> QED BY <1>2, <1>3

\* Merging the range of a tensor into the last one.
LEMMA MergeRange ==
    ASSUME file_read \in Shards, NEW t \in InHeader, Accepted(t), Filled(t),
           NEW last \in RangeType, Whole(last), NEW r, r = RangeOf(t),
           Lo(last) <= Lo(r), r.offset <= last.end + file_read.max_gap,
           NEW m, m = Merged(last, r)
    PROVE  /\ m \in RangeType /\ Whole(m) /\ Lo(m) = Lo(last) /\ m.offset = last.offset
           /\ BlocksOf(last) \subseteq BlocksOf(m) /\ BlocksWith(t) \subseteq BlocksOf(m)
           /\ Hi(last) - 1 \in Needed => Hi(m) - 1 \in Needed
           /\ NoGap(last) => NoGap(m)
  <1>1. r \in RangeType /\ Whole(r) /\ BlocksOf(r) = BlocksWith(t) BY RangeBlocks
  <1>2. /\ BlocksOf(r) \subseteq Needed /\ Lo(r) \in Needed /\ Hi(r) - 1 \in Needed
    BY OwnRange
  <1>3. /\ Lo(r) \in Nat /\ Hi(r) \in Nat /\ Lo(r) < Hi(r) /\ BlocksOf(r) = Lo(r)..(Hi(r) - 1)
        /\ r.offset \in Nat /\ r.end \in Nat
        /\ r.offset = Block * Lo(r) /\ r.end = Block * Hi(r) /\ r.offset < r.end
        /\ Block \in Nat \ {0}
    BY <1>1, WholeFacts
  <1>4. /\ Lo(last) \in Nat /\ Hi(last) \in Nat /\ Lo(last) < Hi(last)
        /\ BlocksOf(last) = Lo(last)..(Hi(last) - 1)
        /\ last.offset \in Nat /\ last.end \in Nat
        /\ last.offset = Block * Lo(last) /\ last.end = Block * Hi(last) /\ last.offset < last.end
    BY WholeFacts
  <1>5. /\ m = [offset |-> last.offset, end |-> Max({last.end, r.end})]
    BY DEF Merged, RangeType
  <1>6. /\ m.end = last.end \/ m.end = r.end
        /\ m.end >= last.end /\ m.end >= r.end
    <2>1. last.end \in Int /\ r.end \in Int /\ m.end = Max({last.end, r.end}) BY <1>3, <1>4, <1>5
    <2> QED BY <2>1, Larger, Zenon
  <1>7. m \in RangeType /\ m.offset = last.offset /\ Lo(m) = Lo(last)
    BY <1>3, <1>4, <1>5, <1>6 DEF RangeType, Lo
  <1>8. (Hi(m) = Hi(last) \/ Hi(m) = Hi(r)) /\ m.end = Block * Hi(m)
    BY <1>3, <1>4, <1>6 DEF Hi
  <1>9. Whole(m)
    <2>1. last.end < file_read.size + Block /\ r.end < file_read.size + Block BY <1>1 DEF Whole
    <2>2. m.offset = Block * Lo(m) /\ m.offset < m.end BY <1>4, <1>6, <1>7 DEF RangeType
    <2> QED BY <1>6, <1>8, <2>1, <2>2 DEF Whole
  <1>10. Hi(m) \in Nat /\ BlocksOf(m) = Lo(m)..(Hi(m) - 1)
    BY <1>7, <1>9, WholeFacts
  <1>11. Hi(m) >= Hi(last) /\ Hi(m) >= Hi(r)
    <2>1. last.end <= m.end /\ r.end <= m.end /\ m.end \in Nat BY <1>6, <1>7 DEF RangeType
    <2> QED BY <1>3, <1>4, <2>1, QuotientOrder DEF Hi
  <1>12. BlocksOf(last) \subseteq BlocksOf(m) BY <1>4, <1>7, <1>10, <1>11
  <1>13. BlocksWith(t) \subseteq BlocksOf(m)
    BY <1>1, <1>3, <1>4, <1>7, <1>10, <1>11
  <1>14. Hi(last) - 1 \in Needed => Hi(m) - 1 \in Needed BY <1>2, <1>8
  <1>15. ASSUME NoGap(last) PROVE NoGap(m)
    <2> SUFFICES ASSUME NEW b \in BlocksOf(m) \ {Hi(m) - 1}
                 PROVE  \E c \in Needed : b < c /\ (c - b - 1) * Block <= file_read.max_gap
      BY DEF NoGap
    <2>0. b \in Int /\ Lo(last) <= b /\ b < Hi(m) - 1 /\ file_read.max_gap \in Nat
      <3>1. b \in Int /\ Lo(last) <= b /\ b < Hi(m) - 1 BY <1>4, <1>7, <1>10
      <3> QED BY <3>1, FileFacts
    <2>1. CASE b < Hi(last) - 1
      <3>1. b \in BlocksOf(last) \ {Hi(last) - 1} BY <1>4, <2>0, <2>1
      <3> QED BY <1>15, <3>1 DEF NoGap
    <2>2. CASE b >= Hi(last) - 1 /\ b < Lo(r)
      <3>1. Block * Lo(r) <= Block * Hi(last) + file_read.max_gap BY <1>3, <1>4
      <3>2. Hi(last) - 1 <= b BY <1>4, <2>0, <2>2
      <3>3. (Lo(r) - b - 1) * Block <= file_read.max_gap
        BY <1>3, <1>4, <2>0, <2>2, <3>1, <3>2, GapBound
      <3> QED BY <1>2, <2>2, <3>3
    <2>3. CASE b >= Hi(last) - 1 /\ b >= Lo(r)
      <3>1. Hi(m) = Hi(r) BY <1>4, <1>8, <2>0, <2>3
      <3>2. b + 1 \in BlocksOf(r) BY <1>3, <2>0, <2>3, <3>1
      <3>3. b < b + 1 /\ ((b + 1) - b - 1) * Block = 0 BY <1>3, <2>0
      <3>4. ((b + 1) - b - 1) * Block <= file_read.max_gap BY <2>0, <3>3
      <3> QED BY <1>2, <3>2, <3>3, <3>4
    <2> QED BY <1>3, <1>4, <2>0, <2>1, <2>2, <2>3
  <1> QED BY <1>7, <1>9, <1>12, <1>13, <1>14, <1>15

\* A tensor further back in the order does not begin in an earlier block.
LEMMA LaterBlocks ==
    ASSUME PlanIndInv, plan_pc = "plan", NEW j \in DOMAIN tensors, NEW k \in DOMAIN tensors, j < k
    PROVE  (data_start + tensors[j].start) \div Block <= (data_start + tensors[k].start) \div Block
  <1>1. file_read \in Shards /\ tensors[j] \in InHeader /\ tensors[k] \in InHeader
        /\ Accepted(tensors[j]) /\ Accepted(tensors[k]) /\ ~Before(tensors[k], tensors[j])
    <2>1. tensors \in Seq(InHeader) BY DEF PlanIndInv, OrderInv
    <2>2. DOMAIN tensors = 1..Len(tensors) BY <2>1, LenProperties
    <2>3. tensors[j] \in InHeader /\ tensors[k] \in InHeader BY <2>1, <2>2, ElementOfSeq
    <2> QED BY <2>3 DEF PlanIndInv, PlanTypes, OrderInv
  <1>2. tensors[j].start \in Nat /\ tensors[k].start \in Nat /\ data_start \in Nat
        /\ Block \in Nat \ {0}
    BY <1>1, FileFacts DEF Accepted
  <1>3. tensors[j].start <= tensors[k].start BY <1>1, <1>2 DEF Before
  <1>4. /\ data_start + tensors[j].start \in Nat /\ data_start + tensors[k].start \in Nat
        /\ data_start + tensors[j].start <= data_start + tensors[k].start
    BY <1>2, <1>3
  <1> QED BY <1>2, <1>4, QuotientOrder

\* One iteration of plan_shard, when it leaves the ranges as they were, appends one,
\* or merges into the last.
LEMMA PlanCases ==
    ASSUME PlanIndInv, PlanTensor, NEW t, t = tensors[at], NEW r, r = RangeOf(t)
    PROVE  /\ t \in InHeader /\ Accepted(t) /\ at \in DOMAIN tensors /\ file_read \in Shards
           /\ \/ ~Filled(t) /\ ranges' = ranges
              \/ /\ Filled(t) /\ ranges' = Append(ranges, r)
                 /\ file_read.merge /\ ranges # <<>> => r.offset > Last(ranges).end + file_read.max_gap
              \/ /\ Filled(t) /\ file_read.merge /\ ranges # <<>>
                 /\ r.offset <= Last(ranges).end + file_read.max_gap
                 /\ ranges' = Append(Front(ranges), Merged(Last(ranges), r))
  <1>1. /\ file_read \in Shards /\ at \in Nat \ {0} /\ at <= Len(tensors)
        /\ tensors \in Seq(InHeader) /\ \A e \in InHeader : Accepted(e)
        /\ ranges \in Seq(RangeType)
    BY DEF PlanIndInv, PlanTypes, OrderInv, RangeInv, PlanTensor
  <1>2. Len(tensors) \in Nat /\ DOMAIN tensors = 1..Len(tensors) BY <1>1, LenProperties
  <1>3. at \in DOMAIN tensors /\ t \in InHeader BY <1>1, <1>2, ElementOfSeq
  <1>4. Accepted(t) BY <1>1, <1>3
  <1>5. t.start \in Nat /\ t.end \in Nat /\ t.start <= t.end BY <1>1, <1>3, <1>4, FileFacts DEF Accepted
  <1>6. CASE t.start = t.end
    <2>1. ~Filled(t) /\ ranges' = ranges BY <1>5, <1>6 DEF Filled, PlanTensor
    <2> QED BY <1>1, <1>3, <1>4, <2>1
  <1>7. CASE t.start # t.end
    <2>1. Filled(t) BY <1>5, <1>7 DEF Filled
    <2>2. r \in RangeType /\ Whole(r) BY <1>1, <1>3, <1>4, <2>1, RangeBlocks
    <2>3. ~(r.end <= r.offset) BY <2>2 DEF Whole, RangeType
    <2>4. ranges' = IF /\ file_read.merge /\ ranges # <<>>
                       /\ r.offset <= Last(ranges).end + file_read.max_gap
                    THEN Append(Front(ranges), Merged(Last(ranges), r))
                    ELSE Append(ranges, r)
      BY <1>7, <2>3 DEF PlanTensor
    <2>5. ranges # <<>> => (~(r.offset <= Last(ranges).end + file_read.max_gap)
                             => r.offset > Last(ranges).end + file_read.max_gap)
      <3>1. ranges # <<>> => Last(ranges) \in RangeType BY <1>1, PopBack
      <3>2. file_read.max_gap \in Nat BY <1>1, FileFacts
      <3> QED BY <2>2, <3>1, <3>2 DEF RangeType
    <2> QED BY <1>1, <1>3, <1>4, <2>1, <2>4, <2>5
  <1> QED BY <1>6, <1>7

\* A block that was covered stays covered when each range is kept or grows.
LEMMA StillCovered ==
    ASSUME \A k \in DOMAIN ranges : k \in DOMAIN ranges' /\ BlocksOf(ranges[k]) \subseteq BlocksOf(ranges'[k]),
           NEW b, Covered(b)
    PROVE  Covered(b)'
  <1>1. PICK k \in DOMAIN ranges : b \in BlocksOf(ranges[k]) BY DEF Covered
  <1>2. k \in DOMAIN ranges' /\ b \in BlocksOf(ranges'[k]) BY <1>1
  <1> QED BY <1>2 DEF Covered, BlocksOf

\* PlanTensor extends the pending range or begins another.
LEMMA PlanStep ==
    ASSUME PlanIndInv, PlanTensor
    PROVE  PlanIndInv'
  <1> DEFINE t == tensors[at]
             r == RangeOf(t)
             n == Len(ranges)
             P == \A b \in BlocksWith(t) : Filled(t) => Covered(b)'
  <1>1. /\ plan_pc = "plan" /\ plan_pc' = "plan" /\ at' = at + 1 /\ at <= Len(tensors)
        /\ file_read' = file_read /\ tensors' = tensors /\ jobs' = jobs /\ off' = off
    BY DEF PlanTensor
  <1>2. /\ file_read \in Shards /\ at \in Nat \ {0} /\ off \in Nat /\ jobs = <<>>
        /\ tensors \in Seq(InHeader) /\ ranges \in Seq(RangeType)
        /\ \A k \in DOMAIN ranges : Whole(ranges[k])
    BY <1>1 DEF PlanIndInv, PlanTypes, OrderInv, RangeInv
  <1>3. /\ t \in InHeader /\ Accepted(t) /\ at \in DOMAIN tensors
        /\ \/ ~Filled(t) /\ ranges' = ranges
           \/ /\ Filled(t) /\ ranges' = Append(ranges, r)
              /\ file_read.merge /\ ranges # <<>> => r.offset > Last(ranges).end + file_read.max_gap
           \/ /\ Filled(t) /\ file_read.merge /\ ranges # <<>>
              /\ r.offset <= Last(ranges).end + file_read.max_gap
              /\ ranges' = Append(Front(ranges), Merged(Last(ranges), r))
    BY PlanCases
  <1>4. /\ data_start' = data_start /\ InHeader' = InHeader /\ Needed' = Needed
        /\ \A x : Accepted(x)' = Accepted(x) /\ BlocksWith(x)' = BlocksWith(x)
        /\ \A x : Whole(x)' = Whole(x) /\ NoGap(x)' = NoGap(x)
    BY <1>1, SameFile
  <1>5. n \in Nat /\ DOMAIN ranges = 1..n /\ Len(tensors) \in Nat /\ DOMAIN tensors = 1..Len(tensors)
    BY <1>2, LenProperties
  <1>6. PlanTypes' BY <1>1, <1>2 DEF PlanTypes, PlanIndInv
  <1>7. EntryInv' BY <1>1 DEF EntryInv
  <1>8. OrderInv' BY <1>1, <1>4 DEF OrderInv, PlanIndInv
  <1>9. JobInv' BY <1>1 DEF JobInv
  <1>10. at' <= Len(tensors') + 1 BY <1>1, <1>2, <1>5
  \* What is left to prove, from facts about the new ranges.
  <1>11. ASSUME RangeInv',
                file_read.merge =>
                    /\ \A k \in DOMAIN ranges' :
                          /\ Lo(ranges'[k]) \in Needed /\ Hi(ranges'[k]) - 1 \in Needed
                          /\ NoGap(ranges'[k])
                          /\ k > 1 => ranges'[k].offset > ranges'[k - 1].end + file_read.max_gap
                    /\ \A k \in DOMAIN ranges :
                          k \in DOMAIN ranges' /\ BlocksOf(ranges[k]) \subseteq BlocksOf(ranges'[k])
                    /\ P
                    /\ PendingInv(at)'
         PROVE  PlanIndInv'
    <2>1. ASSUME file_read.merge PROVE MergeInv(at)'
      <3>1. MergeInv(at) BY <1>1, <2>1 DEF PlanIndInv, PlanInv
      <3>2. ASSUME NEW k \in DOMAIN tensors, k < at + 1, Filled(tensors[k]), NEW b \in BlocksWith(tensors[k])
            PROVE  Covered(b)'
        <4>1. CASE k = at BY <1>11, <2>1, <3>2, <4>1
        <4>2. CASE k # at
          <5>1. k < at BY <1>2, <1>5, <3>2, <4>2
          <5>2. Covered(b) BY <3>1, <3>2, <5>1 DEF MergeInv
          <5> QED BY <1>11, <2>1, <5>2, StillCovered
        <4> QED BY <4>1, <4>2
      <3> QED BY <1>1, <1>4, <1>11, <2>1, <3>2 DEF MergeInv, Filled, Lo, Hi
    <2>2. PlanInv' BY <1>1, <1>10, <1>11, <2>1 DEF PlanInv
    <2> QED BY <1>6, <1>7, <1>8, <1>9, <1>11, <2>2 DEF PlanIndInv
  <1>12. CASE ~Filled(t) /\ ranges' = ranges
    <2>1. RangeInv' BY <1>2, <1>4, <1>12 DEF RangeInv
    <2>2. ASSUME file_read.merge
          PROVE  /\ \A k \in DOMAIN ranges' :
                       /\ Lo(ranges'[k]) \in Needed /\ Hi(ranges'[k]) - 1 \in Needed
                       /\ NoGap(ranges'[k])
                       /\ k > 1 => ranges'[k].offset > ranges'[k - 1].end + file_read.max_gap
                 /\ PendingInv(at)'
      <3>1. MergeInv(at) /\ PendingInv(at) BY <1>1, <2>2 DEF PlanIndInv, PlanInv
      <3>2. PendingInv(at)'
        <4>1. \A k \in DOMAIN tensors : k >= at + 1 => k >= at BY <1>2, <1>5
        <4> QED BY <1>1, <1>4, <1>12, <3>1, <4>1 DEF PendingInv, Lo
      <3> QED BY <1>12, <3>1, <3>2 DEF MergeInv
    <2> QED BY <1>11, <1>12, <2>1, <2>2
  <1>13. ASSUME Filled(t)
         PROVE  /\ r \in RangeType /\ Whole(r) /\ BlocksOf(r) = BlocksWith(t)
                /\ Lo(r) = (data_start + t.start) \div Block
                /\ Lo(r) \in Needed /\ Hi(r) - 1 \in Needed /\ NoGap(r)
    BY <1>2, <1>3, <1>13, RangeBlocks, OwnRange
  <1>14. CASE /\ Filled(t) /\ ranges' = Append(ranges, r)
              /\ file_read.merge /\ ranges # <<>> => r.offset > Last(ranges).end + file_read.max_gap
    <2> HIDE DEF r
    <2>1. /\ ranges' \in Seq(RangeType) /\ Len(ranges') = n + 1 /\ ranges'[n + 1] = r
          /\ \A k \in 1..n : ranges'[k] = ranges[k]
      BY <1>2, <1>13, <1>14, AppendProperties
    <2>2. DOMAIN ranges' = 1..(n + 1) /\ \A k \in 1..(n + 1) : k \in 1..n \/ k = n + 1
      BY <1>5, <2>1, LenProperties
    <2>3. RangeInv' BY <1>2, <1>4, <1>5, <1>13, <1>14, <2>1, <2>2 DEF RangeInv
    <2>4. ASSUME file_read.merge
          PROVE  /\ \A k \in DOMAIN ranges' :
                       /\ Lo(ranges'[k]) \in Needed /\ Hi(ranges'[k]) - 1 \in Needed
                       /\ NoGap(ranges'[k])
                       /\ k > 1 => ranges'[k].offset > ranges'[k - 1].end + file_read.max_gap
                 /\ \A k \in DOMAIN ranges :
                       k \in DOMAIN ranges' /\ BlocksOf(ranges[k]) \subseteq BlocksOf(ranges'[k])
                 /\ P
                 /\ PendingInv(at)'
      <3>1. MergeInv(at) BY <1>1, <2>4 DEF PlanIndInv, PlanInv
      <3>2. ASSUME NEW k \in DOMAIN ranges'
            PROVE  /\ Lo(ranges'[k]) \in Needed /\ Hi(ranges'[k]) - 1 \in Needed
                   /\ NoGap(ranges'[k])
                   /\ k > 1 => ranges'[k].offset > ranges'[k - 1].end + file_read.max_gap
        <4>1. CASE k \in 1..n
          <5>1. k > 1 => k - 1 \in 1..n BY <1>5, <4>1
          <5> QED BY <1>5, <2>1, <3>1, <4>1, <5>1 DEF MergeInv
        <4>2. CASE k = n + 1
          <5>1. ASSUME k > 1 PROVE r.offset > ranges[n].end + file_read.max_gap
            <6>1. n > 0 /\ n \in Nat BY <1>5, <4>2, <5>1
            <6>2. ranges # <<>> BY <1>2, <6>1, EmptySeq
            <6> QED BY <1>2, <1>14, <2>4, <6>2, PopBack
          <5>2. k > 1 => k - 1 = n /\ n \in 1..n BY <1>5, <4>2
          <5> QED BY <1>13, <1>14, <2>1, <4>2, <5>1, <5>2
        <4> QED BY <2>2, <4>1, <4>2
      <3>3. \A k \in DOMAIN ranges : k \in DOMAIN ranges' /\ BlocksOf(ranges[k]) \subseteq BlocksOf(ranges'[k])
        BY <1>5, <2>1, <2>2
      <3>4. P
        <4>1. n + 1 \in DOMAIN ranges' BY <1>5, <2>2
        <4>2. \A b \in BlocksWith(t) : b \in BlocksOf(ranges'[n + 1]) BY <1>13, <1>14, <2>1
        <4> QED BY <4>1, <4>2 DEF Covered, BlocksOf
      <3>5. PendingInv(at)'
        <4>1. ranges' # <<>> /\ Last(ranges') = r
          <5>1. ranges' # <<>> BY <1>5, <2>1
          <5>2. Last(ranges') = ranges'[n + 1] BY <2>1, <5>1, PopBack
          <5> QED BY <2>1, <5>1, <5>2
        <4>2. ASSUME NEW k \in DOMAIN tensors, k >= at + 1
              PROVE Lo(r) <= (data_start + tensors[k].start) \div Block
          <5>1. at < k BY <1>2, <1>5, <4>2
          <5> QED BY <1>1, <1>3, <1>13, <1>14, <5>1, LaterBlocks
        <4> QED BY <1>1, <1>4, <4>1, <4>2 DEF PendingInv, Lo
      <3> QED BY <3>2, <3>3, <3>4, <3>5
    <2> QED BY <1>11, <2>3, <2>4
  <1>15. CASE /\ Filled(t) /\ file_read.merge /\ ranges # <<>>
              /\ r.offset <= Last(ranges).end + file_read.max_gap
              /\ ranges' = Append(Front(ranges), Merged(Last(ranges), r))
    <2> DEFINE last == ranges[n]
               m == Merged(last, r)
    <2>1. Last(ranges) = last /\ last \in RangeType /\ n \in DOMAIN ranges /\ n \in Nat \ {0}
      <3>1. n \in Nat \ {0} BY <1>2, <1>15, EmptySeq
      <3>2. ranges \in Seq(RangeType) /\ ranges # <<>> BY <1>2, <1>15
      <3>3. Last(ranges) \in RangeType /\ Last(ranges) = last BY <3>2, PopBack
      <3>4. n \in DOMAIN ranges BY <1>5, <3>1
      <3> QED BY <3>1, <3>3, <3>4
    <2>2. MergeInv(at) /\ PendingInv(at) BY <1>1, <1>15 DEF PlanIndInv, PlanInv
    <2>3. Lo(last) <= Lo(r)
      <3>1. at >= at BY <1>2
      <3>2. Lo(last) <= (data_start + t.start) \div Block
        BY <1>3, <1>15, <2>1, <2>2, <3>1 DEF PendingInv
      <3> QED BY <1>13, <1>15, <3>2
    <2>4. Whole(last) BY <1>2, <2>1
    <2>5. r.offset <= last.end + file_read.max_gap BY <1>15, <2>1
    <2>6. Hi(last) - 1 \in Needed /\ NoGap(last) /\ Lo(last) \in Needed BY <2>1, <2>2 DEF MergeInv
    <2>7. /\ m \in RangeType /\ Whole(m) /\ Lo(m) = Lo(last) /\ m.offset = last.offset
          /\ BlocksOf(last) \subseteq BlocksOf(m) /\ BlocksWith(t) \subseteq BlocksOf(m)
          /\ Hi(m) - 1 \in Needed /\ NoGap(m)
      <3> HIDE DEF t, last
      <3> QED BY <1>2, <1>3, <1>15, <2>1, <2>3, <2>4, <2>5, <2>6, MergeRange
    <2>8. ranges' = Append(Front(ranges), m) BY <1>15, <2>1
    <2> HIDE DEF r, m, last
    <2>9. /\ ranges' \in Seq(RangeType) /\ Len(ranges') = n /\ ranges'[n] = m
          /\ \A k \in 1..(n - 1) : ranges'[k] = ranges[k]
      <3>1. ranges \in Seq(RangeType) /\ ranges # <<>> /\ m \in RangeType BY <1>2, <1>15, <2>7
      <3> DEFINE f == Front(ranges)
      <3>2. /\ f \in Seq(RangeType) /\ Len(f) = Len(ranges) - 1
            /\ \A k \in 1..(Len(ranges) - 1) : f[k] = ranges[k]
        BY <3>1, PopBack
      <3>3. ranges' = Append(f, m) BY <2>8
      <3> HIDE DEF f
      <3>4. /\ ranges' \in Seq(RangeType) /\ Len(ranges') = Len(f) + 1 /\ ranges'[Len(f) + 1] = m
            /\ \A k \in 1..Len(f) : ranges'[k] = f[k]
        BY <3>1, <3>2, <3>3, AppendProperties
      <3>5. Len(f) + 1 = n BY <1>5, <3>2
      <3> QED BY <3>2, <3>4, <3>5
    <2>10. DOMAIN ranges' = 1..n /\ \A k \in 1..n : k \in 1..(n - 1) \/ k = n
      <3>0. ranges' \in Seq(RangeType) /\ Len(ranges') = n BY <2>9
      <3>1. DOMAIN ranges' = 1..n BY <3>0, LenProperties
      <3>a. n \in Nat BY <1>5
      <3>2. \A k \in 1..n : k \in 1..(n - 1) \/ k = n
        <4> HIDE DEF n
        <4> QED BY <3>a
      <3> QED BY <3>1, <3>2
    <2>11. \A k \in 1..(n - 1) : k \in 1..n BY <1>5
    <2>12. RangeInv' BY <1>2, <1>4, <1>5, <2>7, <2>9, <2>10, <2>11 DEF RangeInv
    <2>13. ASSUME NEW k \in DOMAIN ranges'
           PROVE  /\ Lo(ranges'[k]) \in Needed /\ Hi(ranges'[k]) - 1 \in Needed
                  /\ NoGap(ranges'[k])
                  /\ k > 1 => ranges'[k].offset > ranges'[k - 1].end + file_read.max_gap
      <3>a. k \in 1..n BY <2>10
      <3>b. k > 1 => k - 1 \in 1..(n - 1) BY <1>5, <3>a
      <3>0. k \in DOMAIN ranges /\ (k > 1 => k - 1 \in 1..(n - 1)) BY <1>5, <3>a, <3>b
      <3>1. k > 1 => ranges[k].offset > ranges[k - 1].end + file_read.max_gap
        BY <2>2, <3>0 DEF MergeInv
      <3>2. CASE k \in 1..(n - 1)
        BY <2>2, <2>9, <3>0, <3>1, <3>2 DEF MergeInv
      <3>3. CASE k = n
        BY <2>6, <2>7, <2>9, <3>0, <3>1, <3>3 DEF last
      <3> QED BY <2>10, <3>2, <3>3
    <2>14. ASSUME NEW k \in DOMAIN ranges
           PROVE  k \in DOMAIN ranges' /\ BlocksOf(ranges[k]) \subseteq BlocksOf(ranges'[k])
      <3>1. CASE k \in 1..(n - 1) BY <1>5, <2>9, <2>10, <3>1
      <3>2. CASE k = n BY <1>5, <2>7, <2>9, <2>10, <3>2 DEF last
      <3> QED BY <1>5, <2>10, <3>1, <3>2
    <2>15. P
      <3>1. n \in DOMAIN ranges' BY <1>5, <2>1, <2>10
      <3>2. \A b \in BlocksWith(t) : b \in BlocksOf(ranges'[n]) BY <2>7, <2>9
      <3> QED BY <3>1, <3>2 DEF Covered, BlocksOf
    <2>16. PendingInv(at)'
      <3>1. ranges' # <<>> /\ Last(ranges') = m
        <4>1. ranges' # <<>> BY <2>1, <2>9, EmptySeq
        <4> QED BY <2>9, <4>1, PopBack
      <3>2. ASSUME NEW k \in DOMAIN tensors, k >= at + 1
            PROVE Lo(m) <= (data_start + tensors[k].start) \div Block
        <4>1. k >= at BY <1>2, <1>5, <3>2
        <4> QED BY <1>15, <2>1, <2>2, <2>7, <4>1 DEF PendingInv
      <3> QED BY <1>1, <1>4, <3>1, <3>2 DEF PendingInv, Lo
    <2> QED BY <1>11, <2>12, <2>13, <2>14, <2>15, <2>16
  <1> QED BY <1>3, <1>12, <1>14, <1>15

-----------------------------------------------------------------------------
(* read_files.                                                               *)

\* EndPlan: all tensors have been planned, and the jobs begin.
LEMMA EndPlanStep ==
    ASSUME PlanIndInv, EndPlan
    PROVE  PlanIndInv'
  <1>1. /\ plan_pc = "plan" /\ at > Len(tensors) /\ at' = 1
        /\ file_read' = file_read /\ tensors' = tensors /\ ranges' = ranges /\ jobs' = jobs
    BY DEF EndPlan
  <1>2. /\ file_read \in Shards /\ at \in Nat \ {0} /\ off \in Nat /\ jobs = <<>>
        /\ tensors \in Seq(InHeader) /\ ranges \in Seq(RangeType) /\ at <= Len(tensors) + 1
        /\ \A k \in DOMAIN ranges : Whole(ranges[k])
    BY <1>1 DEF PlanIndInv, PlanTypes, OrderInv, RangeInv, PlanInv
  <1>3. /\ data_start' = data_start /\ InHeader' = InHeader /\ Needed' = Needed
        /\ \A x : Accepted(x)' = Accepted(x) /\ BlocksWith(x)' = BlocksWith(x)
        /\ \A x : Whole(x)' = Whole(x) /\ NoGap(x)' = NoGap(x)
    BY <1>1, SameFile
  <1>4. Len(ranges) \in Nat /\ DOMAIN ranges = 1..Len(ranges) /\ at = Len(tensors) + 1
    BY <1>1, <1>2, LenProperties
  <1>5. ASSUME NEW k \in DOMAIN ranges
        PROVE  ranges[k].offset \in Nat /\ ranges[k].end \in Nat /\ ranges[k].offset < ranges[k].end
               /\ ranges[k].offset % Block = 0
    <2>1. ranges[k] \in RangeType BY <1>2, <1>4, ElementOfSeq
    <2> QED BY <1>2, <2>1, WholeFacts
  <1>6. ~\E k \in DOMAIN ranges : ranges[k].end = ranges[k].offset BY <1>5
  <1>7. \/ ranges = <<>> /\ plan_pc' = "done" /\ off' = off
        \/ ranges # <<>> /\ plan_pc' = "jobs" /\ off' = ranges[1].offset
    BY <1>6 DEF EndPlan
  <1>8. ranges # <<>> => 1 \in DOMAIN ranges BY <1>2, <1>4, EmptySeq
  <1>9. PlanTypes' BY <1>1, <1>2, <1>5, <1>7, <1>8 DEF PlanTypes
  <1>10. EntryInv' BY <1>7 DEF EntryInv
  <1>11. OrderInv' BY <1>1, <1>3 DEF OrderInv, PlanIndInv
  <1>12. RangeInv' BY <1>1, <1>2, <1>3 DEF RangeInv
  <1>13. PlanInv'
    <2>1. ASSUME file_read.merge PROVE MergeInv(Len(tensors) + 1)'
      <3>1. MergeInv(Len(tensors) + 1) BY <1>1, <1>4, <2>1 DEF PlanIndInv, PlanInv
      <3> QED BY <1>1, <1>3, <3>1 DEF MergeInv, Filled, Covered, BlocksOf, Lo, Hi
    <2> QED BY <1>1, <1>7, <2>1 DEF PlanInv
  <1>14. JobInv'
    <2>1. jobs' = <<>> /\ DOMAIN jobs' = {} /\ jobs' \in Seq(JobType) BY <1>1, <1>2
    <2>2. CASE ranges = <<>> /\ plan_pc' = "done" BY <1>1, <2>1, <2>2 DEF JobInv
    <2>3. CASE ranges # <<>> /\ plan_pc' = "jobs" /\ off' = ranges[1].offset
      BY <1>1, <1>5, <1>8, <2>1, <2>3 DEF JobInv
    <2> QED BY <1>7, <2>2, <2>3
  <1> QED BY <1>9, <1>10, <1>11, <1>12, <1>13, <1>14 DEF PlanIndInv

\* The rest of a range, from a multiple to a multiple, is one.
LEMMA RestWhole ==
    ASSUME NEW y \in Nat \ {0}, NEW a \in Nat, NEW b \in Nat, a <= b, a % y = 0, b % y = 0
    PROVE  (b - a) % y = 0
  <1>1. PICK p \in Nat : a = y * p BY Multiple
  <1>2. PICK q \in Nat : b = y * q BY Multiple
  <1>3. p <= q
    <2> SUFFICES ASSUME q + 1 <= p PROVE FALSE BY <1>1, <1>2
    <2>1. y * (q + 1) <= y * p BY <1>1, <1>2
    <2>2. y * (q + 1) = y * q + y OBVIOUS
    <2> QED BY <1>1, <1>2, <2>1, <2>2
  <1>4. b - a = y * (q - p) /\ q - p \in Nat BY <1>1, <1>2, <1>3
  <1> QED BY <1>4, MultipleOf

\* A job is a multiple of the block long, since a buffer is, or is as long as the
\* largest word and the rest of the range shorter.
LEMMA JobLength ==
    ASSUME file_read \in Shards, NEW r \in RangeType, Whole(r), NEW o \in Nat, o % Block = 0,
           o < r.end, NEW want, want = Min({Chunk, r.end - o})
    PROVE  /\ CeilTo(want) = want /\ want \in 1..Chunk /\ want % Block = 0
           /\ o + want <= r.end /\ (o + want) % Block = 0 /\ want \in Nat
  <1> DEFINE rest == r.end - o
  <1>1. /\ MaxWord \in Nat \ {0} /\ Block \in Nat \ {0} /\ file_read.size \in Nat
        /\ file_read.size + 2 * Block <= MaxWord /\ file_read.chunk_bytes \in Nat
    BY FileFacts
  <1>2. r.end \in Nat /\ r.end % Block = 0 /\ r.end < file_read.size + Block
    BY WholeFacts DEF Whole
  <1>3. rest \in Nat \ {0} /\ rest < MaxWord BY <1>1, <1>2
  <1>4. rest % Block = 0
    <2>1. o <= r.end BY <1>2
    <2> QED BY <1>1, <1>2, <2>1, RestWhole
  <1>5. Chunk \in Nat \ {0} /\ (Chunk = MaxWord \/ Chunk % Block = 0)
    <2> DEFINE m == Max({file_read.chunk_bytes, Block})
    <2>1. file_read.chunk_bytes \in Int /\ Block \in Int BY <1>1
    <2>3. Chunk = CeilTo(m) /\ m = Max({file_read.chunk_bytes, Block}) BY DEF Chunk
    <2> HIDE DEF m
    <2>2. m \in Int /\ (m = file_read.chunk_bytes \/ m = Block) /\ m >= Block
      <3> DEFINE a == file_read.chunk_bytes
      <3>1. a \in Int /\ Block \in Int /\ m = Max({a, Block}) BY <2>1, <2>3
      <3> HIDE DEF a
      <3>2. m \in Int /\ (m = a \/ m = Block) /\ m >= Block BY <3>1, Larger
      <3> QED BY <3>2 DEF a
    <2>4. m \in Nat \ {0} BY <1>1, <2>2
    <2> QED BY <1>1, <2>3, <2>4, CeilAny
  <1>6. (want = Chunk \/ want = rest) /\ want <= Chunk /\ want <= rest
    <2>1. Chunk \in Int /\ rest \in Int BY <1>3, <1>5
    <2> HIDE DEF rest
    <2>2. want = Min({Chunk, rest}) BY DEF rest
    <2> QED BY <2>1, <2>2, Smaller, Zenon
  <1>7. want \in Nat \ {0} /\ want % Block = 0 /\ want <= MaxWord
    <2>1. CASE want = rest
      <3> HIDE DEF rest
      <3> QED BY <1>1, <1>3, <1>4, <2>1
    <2>2. CASE want = Chunk
      <3>1. Chunk # MaxWord BY <1>1, <1>3, <1>6, <2>2
      <3> QED BY <1>3, <1>5, <1>6, <2>2, <3>1, <1>1
    <2> QED BY <1>6, <2>1, <2>2
  <1>8. CeilTo(want) = want BY <1>1, <1>7, CeilWhole
  <1>9. (o + want) % Block = 0 BY <1>1, <1>7, SumOfMultiples
  <1>10. o + want <= r.end BY <1>2, <1>3, <1>6, <1>7
  <1>11. want \in 1..Chunk BY <1>5, <1>6, <1>7
  <1> QED BY <1>7, <1>8, <1>9, <1>10, <1>11

\* What a step that only cuts jobs leaves alone.
LEMMA CutUnchanged ==
    ASSUME PlanIndInv, plan_pc = "jobs", plan_pc' \in {"jobs", "done"},
           UNCHANGED <<file_read, tensors, ranges>>,
           at' \in Nat \ {0}, off' \in Nat, JobInv'
    PROVE  PlanIndInv'
  <1>1. /\ data_start' = data_start /\ InHeader' = InHeader /\ Needed' = Needed
        /\ \A x : Accepted(x)' = Accepted(x) /\ BlocksWith(x)' = BlocksWith(x)
        /\ \A x : Whole(x)' = Whole(x) /\ NoGap(x)' = NoGap(x)
    BY SameFile
  <1>2. PlanTypes' BY DEF PlanTypes, PlanIndInv
  <1>3. EntryInv' BY DEF EntryInv
  <1>4. OrderInv' BY <1>1 DEF OrderInv, PlanIndInv
  <1>5. RangeInv' BY <1>1 DEF RangeInv, PlanIndInv
  <1>6. PlanInv'
    <2>1. ASSUME file_read.merge PROVE MergeInv(Len(tensors) + 1)'
      <3>1. MergeInv(Len(tensors) + 1) BY <2>1 DEF PlanIndInv, PlanInv
      <3> QED BY <1>1, <3>1 DEF MergeInv, Filled, Covered, BlocksOf, Lo, Hi
    <2> QED BY <2>1 DEF PlanInv
  <1> QED BY <1>2, <1>3, <1>4, <1>5, <1>6 DEF PlanIndInv

\* What is known of the range that is cut.
LEMMA CutFacts ==
    ASSUME PlanIndInv, plan_pc = "jobs"
    PROVE  /\ file_read \in Shards /\ ranges \in Seq(RangeType) /\ DOMAIN ranges = 1..Len(ranges)
           /\ Len(ranges) \in Nat /\ at \in DOMAIN ranges /\ jobs \in Seq(JobType)
           /\ \A k \in DOMAIN ranges :
                 /\ ranges[k] \in RangeType /\ Whole(ranges[k])
                 /\ ranges[k].offset \in Nat /\ ranges[k].end \in Nat
                 /\ ranges[k].offset < ranges[k].end /\ ranges[k].offset % Block = 0
           /\ off \in Nat /\ off % Block = 0 /\ ranges[at].offset <= off /\ off <= ranges[at].end
           /\ Len(jobs) \in Nat /\ DOMAIN jobs = 1..Len(jobs)
           /\ jobs # <<>> <=> Len(jobs) # 0
  <1>1. /\ file_read \in Shards /\ ranges \in Seq(RangeType) /\ off \in Nat /\ off % Block = 0
        /\ ranges[at].offset <= off /\ off <= ranges[at].end /\ jobs \in Seq(JobType)
        /\ at \in DOMAIN ranges /\ \A k \in DOMAIN ranges : Whole(ranges[k])
    BY DEF PlanIndInv, PlanTypes, RangeInv, JobInv
  <1>2. Len(ranges) \in Nat /\ DOMAIN ranges = 1..Len(ranges) BY <1>1, LenProperties
  <1>3. Len(jobs) \in Nat /\ DOMAIN jobs = 1..Len(jobs) BY <1>1, LenProperties
  <1>4. jobs # <<>> <=> Len(jobs) # 0 BY <1>1, EmptySeq
  <1>5. ASSUME NEW k \in DOMAIN ranges
        PROVE  /\ ranges[k] \in RangeType
               /\ ranges[k].offset \in Nat /\ ranges[k].end \in Nat
               /\ ranges[k].offset < ranges[k].end /\ ranges[k].offset % Block = 0
    <2>1. ranges[k] \in RangeType BY <1>1, <1>2, ElementOfSeq
    <2> QED BY <1>1, <2>1, WholeFacts
  <1> QED BY <1>1, <1>2, <1>3, <1>4, <1>5

\* CutJob takes the next piece of the range.
LEMMA CutStep ==
    ASSUME PlanIndInv, CutJob
    PROVE  PlanIndInv'
  <1> DEFINE want == Min({Chunk, ranges[at].end - off})
             j == [range |-> at, offset |-> off, len |-> want]
             n == Len(jobs)
  <1>1. /\ plan_pc = "jobs" /\ plan_pc' = "jobs" /\ off < ranges[at].end /\ off' = off + want
        /\ jobs' = Append(jobs, [range |-> at, offset |-> off, len |-> CeilTo(want)])
        /\ UNCHANGED <<file_read, at, tensors, ranges>>
    BY DEF CutJob
  <1>2. /\ file_read \in Shards /\ ranges \in Seq(RangeType) /\ at \in DOMAIN ranges
        /\ DOMAIN ranges = 1..Len(ranges) /\ Len(ranges) \in Nat
        /\ jobs \in Seq(JobType) /\ off \in Nat /\ off % Block = 0
        /\ ranges[at] \in RangeType /\ Whole(ranges[at]) /\ ranges[at].offset \in Nat
        /\ ranges[at].end \in Nat /\ ranges[at].offset <= off
        /\ n \in Nat /\ DOMAIN jobs = 1..n /\ (jobs # <<>> <=> n # 0)
    BY <1>1, CutFacts
  <1>3. /\ CeilTo(want) = want /\ want \in 1..Chunk /\ want % Block = 0
        /\ off + want <= ranges[at].end /\ (off + want) % Block = 0 /\ want \in Nat
    BY <1>1, <1>2, JobLength
  <1>4. /\ \A k \in DOMAIN jobs : JobOk(jobs[k])
        /\ \A k \in DOMAIN jobs : k < n => Follows(jobs[k], jobs[k + 1].range, jobs[k + 1].offset)
        /\ jobs # <<>> => Begins(jobs[1], 1)
        /\ jobs = <<>> => at = 1 /\ off = ranges[1].offset
        /\ jobs # <<>> => \/ jobs[n].range = at /\ off = jobs[n].offset + jobs[n].len
                          \/ /\ off = ranges[at].offset /\ at = jobs[n].range + 1
                             /\ jobs[n].offset + jobs[n].len = ranges[jobs[n].range].end
    BY <1>1 DEF PlanIndInv, JobInv
  <1>5. Chunk' = Chunk BY <1>1, SameFile
  <1> HIDE DEF want
  <1>6. j \in JobType BY <1>2, <1>3 DEF JobType
  <1>7. jobs' = Append(jobs, j) BY <1>1, <1>3
  <1>j. j.range = at /\ j.offset = off /\ j.len = want OBVIOUS
  <1> HIDE DEF j
  <1>8. /\ jobs' \in Seq(JobType) /\ Len(jobs') = n + 1 /\ jobs'[n + 1] = j
        /\ \A k \in 1..n : jobs'[k] = jobs[k]
    BY <1>2, <1>6, <1>7, AppendProperties
  <1>9. DOMAIN jobs' = 1..(n + 1) /\ jobs' # <<>>
    <2>1. DOMAIN jobs' = 1..(n + 1) BY <1>8, LenProperties
    <2> QED BY <1>2, <2>1
  <1>10. ASSUME NEW k \in DOMAIN jobs' PROVE JobOk(jobs[k])'
    <2>1. CASE k \in 1..n
      <3>1. JobOk(jobs[k]) BY <1>2, <1>4, <2>1
      <3> QED BY <1>1, <1>5, <1>8, <2>1, <3>1 DEF JobOk
    <2>2. CASE k = n + 1
      BY <1>1, <1>2, <1>3, <1>5, <1>8, <1>j, <2>2 DEF JobOk
    <2> QED BY <1>2, <1>9, <2>1, <2>2
  <1>11. ASSUME NEW k \in DOMAIN jobs', k < Len(jobs')
         PROVE  Follows(jobs'[k], jobs'[k + 1].range, jobs'[k + 1].offset)
    <2>1. k \in 1..n BY <1>2, <1>8, <1>9, <1>11
    <2>2. CASE k < n
      <3>1. k + 1 \in 1..n BY <1>2, <2>1, <2>2
      <3> QED BY <1>2, <1>4, <1>8, <2>1, <2>2, <3>1
    <2>3. CASE k = n
      <3>1. jobs # <<>> BY <1>2, <2>1, <2>3
      <3>2. Follows(jobs[n], at, off) BY <1>1, <1>4, <3>1 DEF Follows
      <3> QED BY <1>8, <1>j, <2>1, <2>3, <3>2
    <2> QED BY <1>2, <2>1, <2>2, <2>3
  <1>12. Begins(jobs'[1], 1)
    <2>1. CASE n = 0 BY <1>2, <1>4, <1>8, <1>j, <2>1 DEF Begins
    <2>2. CASE n # 0
      <3>1. 1 \in 1..n BY <1>2, <2>2
      <3> QED BY <1>2, <1>4, <1>8, <2>2, <3>1
    <2> QED BY <2>1, <2>2
  <1>13. JobInv'
    <2>1. \A k \in DOMAIN jobs' : k < Len(jobs') =>
              Follows(jobs[k], jobs[k + 1].range, jobs[k + 1].offset)'
      BY <1>1, <1>11 DEF Follows
    <2>2. Begins(jobs[1], 1)' BY <1>1, <1>12 DEF Begins
    <2>3. /\ at' \in DOMAIN ranges' /\ off' % Block = 0
          /\ ranges'[at'].offset <= off' /\ off' <= ranges'[at'].end
      BY <1>1, <1>2, <1>3
    <2>4. jobs'[Len(jobs')].range = at' /\ off' = jobs'[Len(jobs')].offset + jobs'[Len(jobs')].len
      BY <1>1, <1>8, <1>j
    <2> QED BY <1>1, <1>8, <1>9, <1>10, <2>1, <2>2, <2>3, <2>4 DEF JobInv
  <1>14. at' \in Nat \ {0} /\ off' \in Nat BY <1>1, <1>2, <1>3
  <1> QED BY <1>1, <1>13, <1>14, CutUnchanged

\* NextRange: the range has been cut to its end.
LEMMA NextRangeStep ==
    ASSUME PlanIndInv, NextRange
    PROVE  PlanIndInv'
  <1> DEFINE n == Len(jobs)
             j == jobs[n]
  <1>1. /\ plan_pc = "jobs" /\ off >= ranges[at].end
        /\ UNCHANGED <<file_read, tensors, ranges, jobs>>
    BY DEF NextRange
  <1>2. /\ file_read \in Shards /\ ranges \in Seq(RangeType) /\ at \in DOMAIN ranges
        /\ DOMAIN ranges = 1..Len(ranges) /\ Len(ranges) \in Nat
        /\ jobs \in Seq(JobType) /\ off \in Nat /\ off % Block = 0
        /\ ranges[at].offset \in Nat /\ ranges[at].end \in Nat /\ off <= ranges[at].end
        /\ ranges[at].offset < ranges[at].end
        /\ n \in Nat /\ DOMAIN jobs = 1..n /\ (jobs # <<>> <=> n # 0)
    BY <1>1, CutFacts
  <1>3. off = ranges[at].end /\ off # ranges[at].offset BY <1>1, <1>2
  <1>4. /\ \A k \in DOMAIN jobs : JobOk(jobs[k])
        /\ \A k \in DOMAIN jobs : k < n => Follows(jobs[k], jobs[k + 1].range, jobs[k + 1].offset)
        /\ jobs # <<>> => Begins(jobs[1], 1)
        /\ jobs = <<>> => at = 1 /\ off = ranges[1].offset
        /\ jobs # <<>> => \/ j.range = at /\ off = j.offset + j.len
                          \/ /\ off = ranges[at].offset /\ at = j.range + 1
                             /\ j.offset + j.len = ranges[j.range].end
    BY <1>1 DEF PlanIndInv, JobInv
  <1>5. jobs # <<>> /\ j.range = at /\ j.offset + j.len = ranges[j.range].end
    BY <1>3, <1>4
  <1>6. Chunk' = Chunk BY <1>1, SameFile
  <1>7. /\ jobs' \in Seq(JobType) /\ \A k \in DOMAIN jobs' : JobOk(jobs[k])'
        /\ \A k \in DOMAIN jobs' : k < Len(jobs') =>
              Follows(jobs[k], jobs[k + 1].range, jobs[k + 1].offset)'
        /\ Begins(jobs[1], 1)'
    BY <1>1, <1>2, <1>4, <1>5, <1>6 DEF JobOk, Follows, Begins
  <1>8. ranges # <<>> BY <1>2
  <1>9. CASE at = Len(ranges)
    <2>1. plan_pc' = "done" /\ at' = at /\ off' = off BY <1>9 DEF NextRange
    <2>2. JobInv' BY <1>1, <1>5, <1>7, <1>8, <1>9, <2>1 DEF JobInv
    <2>3. at' \in Nat \ {0} /\ off' \in Nat BY <1>2, <2>1
    <2> QED BY <1>1, <2>1, <2>2, <2>3, CutUnchanged
  <1>10. CASE at # Len(ranges)
    <2>1. plan_pc' = "jobs" /\ at' = at + 1 /\ off' = ranges[at + 1].offset
      BY <1>1, <1>10 DEF NextRange
    <2>2. at + 1 \in DOMAIN ranges /\ at + 1 \in Nat \ {0} BY <1>2, <1>10
    <2>3. /\ ranges[at + 1].offset \in Nat /\ ranges[at + 1].end \in Nat
          /\ ranges[at + 1].offset < ranges[at + 1].end /\ ranges[at + 1].offset % Block = 0
      BY <1>1, <2>2, CutFacts
    <2>4. /\ at' \in DOMAIN ranges' /\ off' % Block = 0
          /\ ranges'[at'].offset <= off' /\ off' <= ranges'[at'].end
      BY <1>1, <2>1, <2>2, <2>3
    <2>5. /\ jobs' # <<>> /\ off' = ranges'[at'].offset /\ at' = jobs'[Len(jobs')].range + 1
          /\ jobs'[Len(jobs')].offset + jobs'[Len(jobs')].len = ranges'[jobs'[Len(jobs')].range].end
      BY <1>1, <1>5, <2>1
    <2>6. JobInv' BY <1>7, <2>1, <2>4, <2>5 DEF JobInv
    <2> QED BY <1>1, <2>1, <2>2, <2>3, <2>6, CutUnchanged
  <1> QED BY <1>9, <1>10

-----------------------------------------------------------------------------
\* Every step keeps the invariant.
LEMMA PlanInvariance ==
    ASSUME PlanIndInv, [PlanNext]_planVars
    PROVE  PlanIndInv'
  <1>1. CASE ReadHeaderLength BY <1>1, HeaderStep
  <1>2. CASE ReadEntry BY <1>2, EntryStep
  <1>3. CASE SortTensors BY <1>3, SortStep
  <1>4. CASE PlanTensor BY <1>4, PlanStep
  <1>5. CASE EndPlan BY <1>5, EndPlanStep
  <1>6. CASE CutJob BY <1>6, CutStep
  <1>7. CASE NextRange BY <1>7, NextRangeStep
  <1>8. CASE UNCHANGED planVars
    <2>1. UNCHANGED <<file_read, plan_pc, at, tensors, ranges, off, jobs>> BY <1>8 DEF planVars
    <2>2. /\ data_start' = data_start /\ InHeader' = InHeader /\ Needed' = Needed /\ Chunk' = Chunk
          /\ \A x : Accepted(x)' = Accepted(x) /\ BlocksWith(x)' = BlocksWith(x)
          /\ \A x : Whole(x)' = Whole(x) /\ NoGap(x)' = NoGap(x)
      BY <2>1, SameFile
    <2>3. PlanTypes' BY <2>1 DEF PlanTypes, PlanIndInv
    <2>4. EntryInv' BY <2>1, <2>2 DEF EntryInv, PlanIndInv
    <2>5. OrderInv' BY <2>1, <2>2 DEF OrderInv, PlanIndInv
    <2>6. RangeInv' BY <2>1, <2>2 DEF RangeInv, PlanIndInv
    <2>7. PlanInv'
      <3>1. ASSUME NEW n PROVE MergeInv(n) => MergeInv(n)'
        BY <2>1, <2>2 DEF MergeInv, Filled, Covered, BlocksOf, Lo, Hi
      <3>2. MergeInv(at) => MergeInv(at)' BY <2>1, <3>1 DEF MergeInv
      <3>3. MergeInv(Len(tensors) + 1) => MergeInv(Len(tensors) + 1)' BY <2>1, <3>1 DEF MergeInv
      <3>4. PendingInv(at) => PendingInv(at)' BY <2>1, <2>2 DEF PendingInv, Lo
      <3> QED BY <2>1, <3>2, <3>3, <3>4 DEF PlanInv, PlanIndInv
    <2>8. JobInv' BY <2>1, <2>2 DEF JobInv, JobOk, Follows, Begins, PlanIndInv
    <2> QED BY <2>3, <2>4, <2>5, <2>6, <2>7, <2>8 DEF PlanIndInv
  <1> QED BY <1>1, <1>2, <1>3, <1>4, <1>5, <1>6, <1>7, <1>8 DEF PlanNext

\* The accepted header describes tensors inside the file.
LEMMA HeaderIsSound ==
    ASSUME PlanIndInv
    PROVE  HeaderSound
  BY DEF PlanIndInv, OrderInv, HeaderSound, Accepted

\* Every block with tensor bytes is in some range.
LEMMA PlanIsExact ==
    ASSUME PlanIndInv
    PROVE  PlanExact
  <1> SUFFICES ASSUME plan_pc \in {"jobs", "done"}, file_read.merge
               PROVE  /\ Needed \subseteq UNION {BlocksOf(ranges[k]) : k \in DOMAIN ranges}
                      /\ \A k \in DOMAIN ranges :
                            /\ ranges[k].offset % Block = 0 /\ ranges[k].end % Block = 0
                            /\ ranges[k].offset < ranges[k].end
                            /\ {ranges[k].offset \div Block, ranges[k].end \div Block - 1} \subseteq Needed
                            /\ \A b \in BlocksOf(ranges[k]) \ {ranges[k].end \div Block - 1} :
                                  \E c \in Needed : b < c /\ (c - b - 1) * Block <= file_read.max_gap
                            /\ k > 1 => ranges[k].offset > ranges[k - 1].end + file_read.max_gap
    BY DEF PlanExact
  <1>1. /\ file_read \in Shards /\ MergeInv(Len(tensors) + 1)
        /\ tensors \in Seq(InHeader) /\ ToSet(tensors) = InHeader
        /\ ranges \in Seq(RangeType) /\ \A k \in DOMAIN ranges : Whole(ranges[k])
    BY DEF PlanIndInv, PlanTypes, OrderInv, RangeInv, PlanInv
  <1>2. Len(tensors) \in Nat /\ DOMAIN tensors = 1..Len(tensors) /\ DOMAIN ranges = 1..Len(ranges)
    BY <1>1, LenProperties
  <1>3. ASSUME NEW b \in Needed PROVE \E k \in DOMAIN ranges : b \in BlocksOf(ranges[k])
    <2>1. PICK t \in InHeader : t.start < t.end /\ b \in BlocksWith(t) BY DEF Needed
    <2>2. PICK k \in 1..Len(tensors) : tensors[k] = t BY <1>1, <2>1, SetOf
    <2>3. k < Len(tensors) + 1 BY <1>2
    <2> QED BY <1>1, <1>2, <2>1, <2>2, <2>3 DEF MergeInv, Filled, Covered
  <1>4. ASSUME NEW k \in DOMAIN ranges
        PROVE  /\ ranges[k].offset % Block = 0 /\ ranges[k].end % Block = 0
               /\ ranges[k].offset < ranges[k].end
    <2>1. ranges[k] \in RangeType BY <1>1, <1>2, ElementOfSeq
    <2> QED BY <1>1, <2>1, WholeFacts
  <1>5. ASSUME NEW k \in DOMAIN ranges
        PROVE  /\ {ranges[k].offset \div Block, ranges[k].end \div Block - 1} \subseteq Needed
               /\ \A b \in BlocksOf(ranges[k]) \ {ranges[k].end \div Block - 1} :
                     \E c \in Needed : b < c /\ (c - b - 1) * Block <= file_read.max_gap
               /\ k > 1 => ranges[k].offset > ranges[k - 1].end + file_read.max_gap
    BY <1>1 DEF MergeInv, NoGap, Lo, Hi
  <1> QED BY <1>3, <1>4, <1>5

\* The jobs tile the ranges.
LEMMA JobsAreExact ==
    ASSUME PlanIndInv
    PROVE  JobsExact
  <1> SUFFICES ASSUME plan_pc = "done"
               PROVE  /\ ranges = <<>> <=> jobs = <<>>
                      /\ jobs # <<>> => Begins(jobs[1], 1)
                      /\ \A n \in DOMAIN jobs :
                            LET j == jobs[n]
                                end == j.offset + j.len
                            IN  /\ JobOk(j)
                                /\ \/ end < ranges[j.range].end /\ n < Len(jobs)
                                      /\ jobs[n + 1].range = j.range /\ jobs[n + 1].offset = end
                                   \/ end = ranges[j.range].end /\ n < Len(jobs)
                                      /\ Begins(jobs[n + 1], j.range + 1)
                                   \/ end = ranges[j.range].end /\ n = Len(jobs)
                                      /\ j.range = Len(ranges)
    BY DEF JobsExact, JobOk
  <1>1. /\ jobs \in Seq(JobType) /\ \A n \in DOMAIN jobs : JobOk(jobs[n])
        /\ \A n \in DOMAIN jobs : n < Len(jobs) =>
              Follows(jobs[n], jobs[n + 1].range, jobs[n + 1].offset)
        /\ jobs # <<>> => Begins(jobs[1], 1)
        /\ jobs = <<>> <=> ranges = <<>>
        /\ jobs # <<>> => /\ jobs[Len(jobs)].range = Len(ranges)
                          /\ jobs[Len(jobs)].offset + jobs[Len(jobs)].len
                                = ranges[jobs[Len(jobs)].range].end
    BY DEF PlanIndInv, JobInv
  <1>2. Len(jobs) \in Nat /\ DOMAIN jobs = 1..Len(jobs) BY <1>1, LenProperties
  <1>3. ASSUME NEW n \in DOMAIN jobs
        PROVE  \/ /\ jobs[n].offset + jobs[n].len < ranges[jobs[n].range].end /\ n < Len(jobs)
                  /\ jobs[n + 1].range = jobs[n].range
                  /\ jobs[n + 1].offset = jobs[n].offset + jobs[n].len
               \/ /\ jobs[n].offset + jobs[n].len = ranges[jobs[n].range].end /\ n < Len(jobs)
                  /\ Begins(jobs[n + 1], jobs[n].range + 1)
               \/ /\ jobs[n].offset + jobs[n].len = ranges[jobs[n].range].end /\ n = Len(jobs)
                  /\ jobs[n].range = Len(ranges)
    <2>1. CASE n = Len(jobs)
      <3>1. jobs # <<>> BY <1>2
      <3> QED BY <1>1, <2>1, <3>1
    <2>2. CASE n < Len(jobs) BY <1>1, <2>2 DEF Follows, Begins
    <2> QED BY <1>2, <2>1, <2>2
  <1> QED BY <1>1, <1>3

\* stloader's read_header, plan_shard and read_files, for every set of shards, block
\* size, gap and buffer size: whatever header is accepted describes tensors inside
\* the file, the merged ranges hold every block with tensor bytes, once and with no
\* gap over max_gap, and the jobs tile the ranges in aligned pieces of a buffer.
THEOREM PlanReadsExact == PlanSpec => []ReadsExact
  <1>1. PlanInit => PlanIndInv BY PlanStart
  <1>2. PlanIndInv /\ [PlanNext]_planVars => PlanIndInv' BY PlanInvariance
  <1>3. PlanIndInv => ReadsExact BY HeaderIsSound, PlanIsExact, JobsAreExact DEF ReadsExact
  <1> QED BY <1>1, <1>2, <1>3, PTL DEF PlanSpec

-----------------------------------------------------------------------------
(***************************************************************************)
(* Proofs about ResidencyProbe, for every page size and every limit of the *)
(* probe, every threshold and every checkpoint: the ratio of a file counts *)
(* distinct pages inside the file, and buffered I/O is chosen only if      *)
(* every file is known to have cached pages.                               *)
(*                                                                         *)
(* Windows do not overlap because the pages seen end at offset             *)
(* (WindowInv), and a file's ratio still says after the probe whether it   *)
(* was examined and whether a page of it was cached (RatioInv).            *)
(***************************************************************************)
FileType == [size : Nat, cached : SUBSET Nat, known : BOOLEAN]
Ratio    == [resident : Nat, total : Nat]

TypeInv ==
    /\ files \in Seq(FileType) /\ threshold \in Nat
    /\ stage \in {"start", "file", "window", "chosen"}
    /\ offset \in Nat /\ total \in Nat /\ resident \in Nat
    /\ seen \in SUBSET Nat /\ IsFiniteSet(seen)
    /\ ratios \in Seq(Ratio) /\ Len(ratios) <= Len(files)
    /\ backends \in {"none", "direct", "buffered"}

\* The file being probed, and the pages seen of it: distinct, whole, and before
\* the next window.
WindowInv ==
    stage = "window" =>
        /\ Len(ratios) < Len(files) /\ file.known /\ file.size > 0
        /\ total = Cardinality(seen)
        /\ resident = Cardinality(seen \cap file.cached)
        /\ \A p \in seen : (p + 1) * Page <= file.size /\ (p + 1) * Page <= offset
        /\ total < MaxPages + window \div Page

\* A ratio is that of a file that was examined, and says if something was cached.
Tells(r, f) == r # Unknown => f.known /\ r.total > 0 /\ (r.resident > 0 => f.cached # {})
RatioInv == \A k \in 1..Len(ratios) : Tells(ratios[k], files[k])

ChoiceInv ==
    backends = "buffered" =>
        /\ stage = "chosen" /\ Len(ratios) = Len(files)
        /\ \A k \in 1..Len(ratios) : ratios[k] # Unknown /\ Warm(ratios[k])

ProbeInv == TypeInv /\ WindowInv /\ RatioInv /\ ChoiceInv

-----------------------------------------------------------------------------
\* Whole pages.
LEMMA Pages ==
    ASSUME NEW x \in Nat, NEW y \in Nat \ {0}
    PROVE  /\ x - (x % y) \in Nat /\ x - (x % y) <= x
           /\ (x - (x % y)) % y = 0
           /\ x % y = 0 => x = y * (x \div y) /\ x \div y \in Nat
  <1> DEFINE q == x \div y
             r == x % y
  <1>1. q \in Nat /\ r \in 0..(y - 1) /\ x = y * q + r OBVIOUS
  <1>2. (y * q) % y = 0 BY <1>1
  <1>3. y * q \in Nat BY <1>1
  <1>4. x - r = y * q BY <1>1, <1>3
  <1> HIDE DEF q, r
  <1>5. x - r \in Nat /\ x - r <= x /\ (x - r) % y = 0 BY <1>1, <1>2, <1>3, <1>4
  <1>6. r = 0 => x = y * q BY <1>1, <1>3
  <1> QED BY <1>1, <1>5, <1>6 DEF q, r

\* A positive factor keeps the order.
LEMMA Order ==
    ASSUME NEW y \in Nat \ {0}, NEW p \in Int, NEW q \in Int
    PROVE  (p <= q => y * p <= y * q) /\ (y * p <= y * q => p <= q)
  <1>1. p <= q => y * p <= y * q OBVIOUS
  <1>2. q + 1 <= p => y * (q + 1) <= y * p OBVIOUS
  <1>3. y * (q + 1) = y * q + y /\ y * p \in Int /\ y * q \in Int OBVIOUS
  <1> DEFINE u == y * p
             v == y * q
  <1> HIDE DEF u, v
  <1>4. u \in Int /\ v \in Int /\ (p <= q => u <= v) /\ (q + 1 <= p => v + y <= u)
    BY <1>1, <1>2, <1>3 DEF u, v
  <1>5. (p <= q => u <= v) /\ (u <= v => p <= q) BY <1>4
  <1> QED BY <1>5 DEF u, v

\* The pages of a window of n pages at page a.
LEMMA WindowPages ==
    ASSUME NEW y \in Nat \ {0}, NEW o \in Nat, NEW l \in Nat, o % y = 0, l % y = 0
    PROVE  LET w == (o \div y)..((o + l) \div y - 1)
           IN  /\ w \in SUBSET Nat /\ IsFiniteSet(w) /\ Cardinality(w) = l \div y
               /\ l \div y \in Nat
               /\ \A p \in w : o <= p * y /\ (p + 1) * y <= o + l
  <1> DEFINE a == o \div y
             n == l \div y
             w == a..((o + l) \div y - 1)
  <1>1. o = y * a /\ a \in Nat /\ l = y * n /\ n \in Nat BY Pages
  <1>2. (o + l) \div y = a + n
    <2>1. o + l = y * (a + n) + 0 BY <1>1
    <2>2. (y * (a + n) + 0) \div y = a + n BY <1>1
    <2> QED BY <2>1, <2>2
  <1>3. w = a..(a + n - 1) BY <1>2
  <1>4. w \in SUBSET Nat BY <1>1, <1>3
  <1>5. IsFiniteSet(w) /\ Cardinality(w) = n
    <2> HIDE DEF a, n
    <2>1. a \in Int /\ a + n - 1 \in Int BY <1>1
    <2>2. IsFiniteSet(a..(a + n - 1))
          /\ Cardinality(a..(a + n - 1)) = IF a > a + n - 1 THEN 0 ELSE (a + n - 1) - a + 1
      BY <2>1, FS_Interval
    <2> QED BY <1>1, <1>3, <2>2
  <1>6. ASSUME NEW p \in w PROVE o <= p * y /\ (p + 1) * y <= o + l
    <2> HIDE DEF a, n
    <2>1. p \in Int /\ a <= p /\ p + 1 <= a + n BY <1>1, <1>3
    <2>2. y * a <= y * p /\ y * (p + 1) <= y * (a + n) BY <1>1, <2>1, Order
    <2>3. y * (a + n) = o + l /\ p * y = y * p /\ (p + 1) * y = y * (p + 1) BY <1>1, <2>1
    <2> QED BY <1>1, <2>2, <2>3
  <1> QED BY <1>1, <1>4, <1>5, <1>6

\* Cardinality of a union of disjoint finite sets.
LEMMA DisjointUnion ==
    ASSUME NEW S, NEW T, IsFiniteSet(S), IsFiniteSet(T), S \cap T = {}
    PROVE  /\ IsFiniteSet(S \cup T) /\ Cardinality(S \cup T) = Cardinality(S) + Cardinality(T)
           /\ Cardinality(S) \in Nat /\ Cardinality(T) \in Nat
  <1>1. Cardinality(S) \in Nat /\ Cardinality(T) \in Nat BY FS_CardinalityType
  <1>2. Cardinality(S \cap T) = 0 BY FS_EmptySet
  <1>3. /\ IsFiniteSet(S \cup T)
        /\ Cardinality(S \cup T) = Cardinality(S) + Cardinality(T) - Cardinality(S \cap T)
    BY FS_Union, Zenon
  <1>4. Cardinality(S \cup T) = Cardinality(S) + Cardinality(T) - 0 BY <1>2, <1>3, Zenon
  <1>5. Cardinality(S \cup T) = Cardinality(S) + Cardinality(T) BY <1>1, <1>4
  <1> QED BY <1>1, <1>3, <1>5

\* The file being probed and the sizes computed for it.
LEMMA WindowFacts ==
    ASSUME ProbeAssumption, TypeInv, Len(ratios) < Len(files)
    PROVE  /\ file \in FileType /\ file = files[Len(ratios) + 1]
           /\ Len(ratios) + 1 \in 1..Len(files)
           /\ Page \in Nat \ {0} /\ MaxPages \in Nat \ {0}
           /\ window \in Nat \ {0} /\ step \in Nat /\ window <= step
           /\ offset < file.size =>
                 length \in Nat /\ length <= window /\ length <= file.size - offset
                 /\ length % Page = 0
  <1>1. files \in Seq(FileType) /\ ratios \in Seq(Ratio) /\ offset \in Nat BY DEF TypeInv
  <1>2. Len(files) \in Nat /\ Len(ratios) \in Nat BY <1>1, LenProperties
  <1>3. Len(ratios) + 1 \in 1..Len(files) BY <1>2
  <1>4. file \in FileType BY <1>1, <1>3, ElementOfSeq DEF file
  <1>5. Page \in Nat \ {0} /\ MaxPages \in Nat \ {0} /\ WindowBytes \in Nat
        /\ MaxWindows \in Nat
    BY DEF ProbeAssumption
  <1> DEFINE z == file.size
             v == window
  <1>6. z \in Nat BY <1>4 DEF FileType
  <1>7. v \in Nat \ {0}
    <2> DEFINE m == Min({WindowBytes, z})
    <2>1. v = Max({Page, m}) BY DEF window
    <2>2. Page \in Int /\ WindowBytes \in Int /\ z \in Int BY <1>5, <1>6
    <2> HIDE DEF v, z
    <2>3. m = Min({WindowBytes, z}) OBVIOUS
    <2> HIDE DEF m
    <2>4. m \in Int BY <2>2, <2>3, Smaller, Zenon
    <2>5. v \in Int /\ v >= Page BY <2>1, <2>2, <2>4, Larger, Zenon
    <2> QED BY <1>5, <2>5
  <1>8. windows \in Nat \ {0}
    <2> DEFINE d == (z + v - 1) \div v
               m == Min({MaxWindows, d})
    <2> HIDE DEF v, z
    <2>1. z + v - 1 \in Nat BY <1>6, <1>7
    <2>2. d \in Int BY <1>7, <2>1
    <2>3. windows = Max({1, m}) BY DEF windows, v, z
    <2> HIDE DEF d
    <2>4. MaxWindows \in Int /\ 1 \in Int BY <1>5
    <2>5. m = Min({MaxWindows, d}) OBVIOUS
    <2> HIDE DEF m
    <2>6. m \in Int BY <2>2, <2>4, <2>5, Smaller, Zenon
    <2>7. windows \in Int /\ windows >= 1 BY <2>3, <2>4, <2>6, Larger, Zenon
    <2> QED BY <2>7
  <1>9. step \in Nat /\ v <= step
    <2> DEFINE d == z \div windows
    <2> HIDE DEF v, z
    <2>1. d \in Nat BY <1>6, <1>8
    <2>2. step = Max({v, d}) BY DEF step, v, z
    <2> HIDE DEF d
    <2>3. v \in Int /\ d \in Int BY <1>7, <2>1
    <2>4. step \in Int /\ step >= v BY <2>2, <2>3, Larger, Zenon
    <2> QED BY <1>7, <2>4
  <1>10. ASSUME offset < z
         PROVE  length \in Nat /\ length <= v /\ length <= z - offset /\ length % Page = 0
    <2> DEFINE d == z - offset
               l == Min({v, d})
    <2>1. length = l - (l % Page) BY DEF length
    <2> HIDE DEF v, z
    <2>2. d \in Nat BY <1>1, <1>6, <1>10
    <2> HIDE DEF d
    <2>3. l \in Nat /\ l <= v /\ l <= d
      <3>1. v \in Int /\ d \in Int /\ l = Min({v, d}) BY <1>7, <2>2
      <3> HIDE DEF l
      <3>2. (l = v \/ l = d) /\ l <= v /\ l <= d BY <3>1, Smaller, Zenon
      <3> QED BY <1>7, <2>2, <3>2
    <2> HIDE DEF l
    <2>4. l - (l % Page) \in Nat /\ l - (l % Page) <= l /\ (l - (l % Page)) % Page = 0
      BY <1>5, <2>3, Pages
    <2>5. length \in Nat /\ length <= l /\ length % Page = 0 BY <2>1, <2>4
    <2>6. length <= v /\ length <= d BY <1>7, <2>2, <2>3, <2>5
    <2> QED BY <2>5, <2>6 DEF d
  <1> QED BY <1>3, <1>4, <1>5, <1>7, <1>9, <1>10 DEF file

-----------------------------------------------------------------------------
\* The invariant holds before the probe.
LEMMA InitInv == ASSUME ProbeAssumption, ProbeInit PROVE ProbeInv
  <1>1. files \in Seq(FileType) /\ threshold \in Nat BY DEF ProbeInit, ProbeAssumption, FileType
  <1>2. ratios = << >> /\ ratios \in Seq(Ratio) /\ Len(ratios) = 0 BY EmptySeq DEF ProbeInit
  <1>3. Len(files) \in Nat BY <1>1, LenProperties
  <1>4. seen = {} /\ IsFiniteSet(seen) BY FS_EmptySet DEF ProbeInit
  <1>5. TypeInv BY <1>1, <1>2, <1>3, <1>4 DEF ProbeInit, TypeInv
  <1>6. RatioInv BY <1>2 DEF RatioInv
  <1> QED BY <1>5, <1>6 DEF ProbeInit, ProbeInv, WindowInv, ChoiceInv

\* ProbeWindow: the pages of the window come behind those seen.
LEMMA ProbeStep == ASSUME ProbeAssumption, ProbeInv, ProbeWindow PROVE ProbeInv'
  <1> DEFINE w == (offset \div Page)..((offset + length) \div Page - 1)
             C == file.cached
             z == file.size
  <1>1. TypeInv /\ WindowInv /\ RatioInv /\ ChoiceInv BY DEF ProbeInv
  <1>2. /\ stage = "window" /\ MoreToProbe /\ offset % Page = 0 /\ offset' = offset + step
        /\ UNCHANGED <<files, threshold, stage, ratios, backends>>
        /\ \/ /\ total' = total + Cardinality(w)
              /\ resident' = resident + Cardinality(w \cap C)
              /\ seen' = seen \cup w
           \/ UNCHANGED <<total, resident, seen>>
    BY DEF ProbeWindow, MmapSucceeds
  <1>3. /\ Len(ratios) < Len(files) /\ file.known /\ z > 0
        /\ total = Cardinality(seen) /\ resident = Cardinality(seen \cap C)
        /\ \A p \in seen : (p + 1) * Page <= z /\ (p + 1) * Page <= offset
        /\ total < MaxPages + window \div Page
    BY <1>1, <1>2 DEF WindowInv
  <1>4. /\ file \in FileType /\ Page \in Nat \ {0} /\ MaxPages \in Nat \ {0}
        /\ window \in Nat \ {0} /\ step \in Nat /\ window <= step
        /\ (offset < z =>
              length \in Nat /\ length <= window /\ length <= z - offset
              /\ length % Page = 0)
    BY <1>1, <1>3, WindowFacts
  <1>5. offset \in Nat /\ total \in Nat /\ resident \in Nat /\ seen \in SUBSET Nat
        /\ IsFiniteSet(seen)
    BY <1>1 DEF TypeInv
  <1>6. offset < z /\ total < MaxPages BY <1>2 DEF MoreToProbe
  <1>7. length \in Nat /\ length <= window /\ length <= z - offset /\ length % Page = 0
    BY <1>4, <1>6
  <1>8. z \in Nat BY <1>4 DEF FileType
  <1>9. /\ w \in SUBSET Nat /\ IsFiniteSet(w) /\ Cardinality(w) = length \div Page
        /\ length \div Page \in Nat
        /\ \A p \in w : offset <= p * Page /\ (p + 1) * Page <= offset + length
    BY <1>2, <1>4, <1>5, <1>7, WindowPages
  <1>10. file' = file /\ window' = window BY <1>2 DEF file, window
  <1> HIDE DEF w, C, z
  <1>11. seen \cap w = {}
    <2> SUFFICES ASSUME NEW p \in seen, p \in w PROVE FALSE OBVIOUS
    <2>1. p \in Nat /\ (p + 1) * Page <= offset /\ offset <= p * Page BY <1>3, <1>5, <1>9
    <2>2. (p + 1) * Page = p * Page + Page /\ p * Page \in Nat BY <1>4, <2>1
    <2> QED BY <1>4, <1>5, <2>1, <2>2
  <1>12. \A p \in seen \cup w :
            p \in Nat /\ (p + 1) * Page <= z /\ (p + 1) * Page <= offset + step
    <2> SUFFICES ASSUME NEW p \in seen \cup w
                 PROVE  p \in Nat /\ (p + 1) * Page <= z /\ (p + 1) * Page <= offset + step
      OBVIOUS
    <2>1. p \in Nat BY <1>5, <1>9
    <2> DEFINE e == (p + 1) * Page
    <2>2. e \in Nat BY <1>4, <2>1
    <2>3. (e <= z /\ e <= offset) \/ e <= offset + length BY <1>3, <1>9
    <2> HIDE DEF e
    <2>4. e <= z /\ e <= offset + step BY <1>4, <1>5, <1>7, <1>8, <2>2, <2>3
    <2> QED BY <2>1, <2>4 DEF e
  <1>13. length \div Page <= window \div Page
    <2> DEFINE a == length \div Page
               b == window \div Page
               r == window % Page
    <2>1. length = Page * a /\ a \in Nat BY <1>4, <1>7, Pages
    <2>2. window = Page * b + r /\ b \in Nat /\ r \in 0..(Page - 1) BY <1>4
    <2>3. Page * (b + 1) = Page * b + Page /\ Page * b \in Nat BY <1>4, <2>2
    <2>4. b + 1 <= a => Page * (b + 1) <= Page * a BY <1>4, <2>1, <2>2, Order
    <2> DEFINE u == Page * b
               v == Page * a
    <2> HIDE DEF a, b, r, u, v
    <2>5. window = u + r /\ length = v /\ u \in Nat /\ (b + 1 <= a => u + Page <= v)
      BY <2>1, <2>2, <2>3, <2>4 DEF u, v
    <2>6. a <= b BY <1>4, <1>7, <2>1, <2>2, <2>5
    <2> QED BY <2>6 DEF a, b
  <1>14. window \div Page \in Nat BY <1>4
  <1>15. /\ IsFiniteSet(seen \cup w)
         /\ Cardinality(seen \cup w) = total + Cardinality(w)
    BY <1>3, <1>5, <1>9, <1>11, DisjointUnion
  <1>16. /\ Cardinality((seen \cup w) \cap C) = resident + Cardinality(w \cap C)
         /\ Cardinality(w \cap C) \in Nat
    <2>1. IsFiniteSet(seen \cap C) /\ IsFiniteSet(w \cap C) BY <1>5, <1>9, FS_Subset
    <2>2. (seen \cap C) \cap (w \cap C) = {} BY <1>11
    <2>3. (seen \cup w) \cap C = (seen \cap C) \cup (w \cap C) OBVIOUS
    <2> QED BY <1>3, <2>1, <2>2, <2>3, DisjointUnion
  <1>17. /\ seen' \in SUBSET Nat /\ IsFiniteSet(seen')
         /\ total' = Cardinality(seen') /\ resident' = Cardinality(seen' \cap C)
         /\ total' \in Nat /\ resident' \in Nat /\ total' < MaxPages + window \div Page
         /\ \A p \in seen' : (p + 1) * Page <= z /\ (p + 1) * Page <= offset'
    <2>1. CASE /\ total' = total + Cardinality(w)
               /\ resident' = resident + Cardinality(w \cap C)
               /\ seen' = seen \cup w
      <3>1. total' = Cardinality(seen') /\ resident' = Cardinality(seen' \cap C)
            /\ IsFiniteSet(seen')
        BY <1>15, <1>16, <2>1
      <3>2. total' \in Nat /\ resident' \in Nat BY <1>5, <1>9, <1>16, <2>1
      <3>3. total' < MaxPages + window \div Page
        BY <1>4, <1>5, <1>6, <1>9, <1>13, <1>14, <2>1
      <3>4. \A p \in seen' : p \in Nat /\ (p + 1) * Page <= z /\ (p + 1) * Page <= offset'
        BY <1>2, <1>12, <2>1
      <3> QED BY <3>1, <3>2, <3>3, <3>4
    <2>2. CASE UNCHANGED <<total, resident, seen>>
      <3>1. \A p \in seen : (p + 1) * Page <= z /\ (p + 1) * Page <= offset' BY <1>2, <1>12
      <3> QED BY <1>3, <1>5, <2>2, <3>1
    <2> QED BY <1>2, <2>1, <2>2
  <1>18. offset' \in Nat BY <1>2, <1>4, <1>5
  <1>19. TypeInv' BY <1>1, <1>2, <1>17, <1>18 DEF TypeInv
  <1>20. WindowInv' BY <1>2, <1>3, <1>10, <1>17 DEF WindowInv, C, z
  <1>21. RatioInv' BY <1>1, <1>2 DEF RatioInv
  <1>22. ChoiceInv' BY <1>1, <1>2 DEF ChoiceInv
  <1> QED BY <1>19, <1>20, <1>21, <1>22 DEF ProbeInv

\* A ratio that tells about the file just examined may be appended.
LEMMA AppendRatio ==
    ASSUME TypeInv, RatioInv, Len(ratios) < Len(files), NEW r \in Ratio, Tells(r, file),
           ratios' = Append(ratios, r), files' = files
    PROVE  ratios' \in Seq(Ratio) /\ Len(ratios') <= Len(files') /\ RatioInv'
  <1>1. files \in Seq(FileType) /\ ratios \in Seq(Ratio) BY DEF TypeInv
  <1>2. Len(files) \in Nat /\ Len(ratios) \in Nat BY <1>1, LenProperties
  <1>3. /\ ratios' \in Seq(Ratio) /\ Len(ratios') = Len(ratios) + 1
        /\ \A k \in 1..Len(ratios) : ratios'[k] = ratios[k]
        /\ ratios'[Len(ratios) + 1] = r
    BY <1>1, AppendProperties
  <1>4. ASSUME NEW k \in 1..(Len(ratios) + 1) PROVE Tells(ratios'[k], files[k])
    <2>1. CASE k \in 1..Len(ratios)
      BY <1>3, <2>1 DEF RatioInv
    <2>2. CASE k = Len(ratios) + 1
      BY <1>3, <2>2 DEF file
    <2> QED BY <1>2, <2>1, <2>2
  <1>5. RatioInv' BY <1>3, <1>4 DEF RatioInv, Tells, Unknown
  <1> QED BY <1>2, <1>3, <1>5

\* CheckThreshold: nothing has been probed.
LEMMA ThresholdStep == ASSUME ProbeInv, CheckThreshold PROVE ProbeInv'
  <1>1. TypeInv /\ RatioInv /\ ChoiceInv BY DEF ProbeInv
  <1>2. stage = "start" /\ backends # "buffered" BY <1>1 DEF CheckThreshold, ChoiceInv
  <1>3. /\ UNCHANGED <<files, threshold, offset, total, resident, seen, asked, ratios>>
        /\ stage' \in {"chosen", "file"} /\ backends' \in {"direct", backends}
    BY DEF CheckThreshold
  <1>4. TypeInv' BY <1>1, <1>3 DEF TypeInv
  <1>5. WindowInv' /\ ChoiceInv' BY <1>2, <1>3 DEF WindowInv, ChoiceInv
  <1>6. RatioInv' BY <1>1, <1>3 DEF RatioInv
  <1> QED BY <1>4, <1>5, <1>6 DEF ProbeInv

\* BeginFile: a file without a ratio says nothing; the others start with no page.
LEMMA BeginStep == ASSUME ProbeAssumption, ProbeInv, BeginFile PROVE ProbeInv'
  <1>1. TypeInv /\ RatioInv /\ ChoiceInv BY DEF ProbeInv
  <1>2. /\ stage = "file" /\ Len(ratios) < Len(files)
        /\ UNCHANGED <<files, threshold, backends>> /\ backends # "buffered"
    BY <1>1 DEF BeginFile, ChoiceInv
  <1>3. CASE ~file.known \/ file.size = 0
    <2>1. ratios' = Append(ratios, Unknown)
          /\ UNCHANGED <<stage, offset, total, resident, seen, asked>>
      BY <1>3 DEF BeginFile
    <2>2. Unknown \in Ratio /\ Tells(Unknown, file) BY DEF Unknown, Ratio, Tells
    <2> DEFINE u == Unknown
    <2> HIDE DEF u
    <2>3. u \in Ratio /\ Tells(u, file) /\ ratios' = Append(ratios, u) BY <2>1, <2>2 DEF u
    <2>4. ratios' \in Seq(Ratio) /\ Len(ratios') <= Len(files') /\ RatioInv'
      BY <1>1, <1>2, <2>3, AppendRatio
    <2>5. TypeInv' BY <1>1, <1>2, <2>1, <2>4 DEF TypeInv
    <2>6. WindowInv' /\ ChoiceInv' BY <1>2, <2>1 DEF WindowInv, ChoiceInv
    <2> QED BY <2>4, <2>5, <2>6 DEF ProbeInv
  <1>4. CASE ~(~file.known \/ file.size = 0)
    <2>1. /\ stage' = "window" /\ offset' = 0 /\ total' = 0 /\ resident' = 0
          /\ seen' = {} /\ UNCHANGED ratios
      BY <1>4 DEF BeginFile
    <2>2. file' = file /\ window' = window BY <1>2, <2>1 DEF file, window
    <2>3. /\ file \in FileType /\ window \in Nat \ {0} /\ Page \in Nat \ {0}
          /\ MaxPages \in Nat \ {0}
      BY <1>1, <1>2, WindowFacts
    <2>4. file.known /\ file.size > 0 BY <1>4, <2>3 DEF FileType
    <2>5. window \div Page \in Nat BY <2>3
    <2>6. 0 < MaxPages + window \div Page BY <2>3, <2>5
    <2>7. IsFiniteSet(seen') /\ Cardinality(seen') = 0 BY <2>1, FS_EmptySet
    <2>8. Cardinality(seen' \cap file'.cached) = 0
      <3>1. seen' \cap file'.cached = {} BY <2>1
      <3> QED BY <3>1, FS_EmptySet
    <2>9. TypeInv' BY <1>1, <1>2, <2>1, <2>7 DEF TypeInv
    <2>10. WindowInv'
      <3>1. Len(ratios') < Len(files') /\ file'.known /\ file'.size > 0
        BY <1>2, <2>1, <2>2, <2>4
      <3>2. total' < MaxPages + window' \div Page BY <2>1, <2>2, <2>6
      <3>3. total' = Cardinality(seen') /\ resident' = Cardinality(seen' \cap file'.cached)
        BY <2>1, <2>7, <2>8
      <3> QED BY <2>1, <3>1, <3>2, <3>3 DEF WindowInv
    <2>11. RatioInv' BY <1>1, <1>2, <2>1 DEF RatioInv
    <2>12. ChoiceInv' BY <1>2 DEF ChoiceInv
    <2> QED BY <2>9, <2>10, <2>11, <2>12 DEF ProbeInv
  <1> QED BY <1>3, <1>4

\* EndFile: a ratio above zero was counted on a cached page.
LEMMA EndStep == ASSUME ProbeAssumption, ProbeInv, EndFile PROVE ProbeInv'
  <1> DEFINE r == IF total = 0 THEN Unknown ELSE [resident |-> resident, total |-> total]
  <1>1. TypeInv /\ WindowInv /\ RatioInv /\ ChoiceInv BY DEF ProbeInv
  <1>2. /\ stage = "window" /\ stage' = "file" /\ ratios' = Append(ratios, r)
        /\ UNCHANGED <<files, threshold, offset, total, resident, seen, backends>>
        /\ backends # "buffered"
    BY <1>1 DEF EndFile, ChoiceInv
  <1>3. /\ Len(ratios) < Len(files) /\ file.known
        /\ resident = Cardinality(seen \cap file.cached)
    BY <1>1, <1>2 DEF WindowInv
  <1>4. total \in Nat /\ resident \in Nat BY <1>1 DEF TypeInv
  <1>5. resident > 0 => file.cached # {}
    <2> SUFFICES ASSUME file.cached = {} PROVE resident = 0 BY <1>4
    <2>1. seen \cap file.cached = {} OBVIOUS
    <2> QED BY <1>3, <2>1, FS_EmptySet
  <1>6. r \in Ratio BY <1>4 DEF Ratio, Unknown
  <1>7. Tells(r, file)
    <2>1. CASE total = 0 BY <2>1 DEF Tells
    <2>2. CASE total # 0
      <3>1. r.total = total /\ r.resident = resident /\ total > 0 BY <1>4, <2>2
      <3> QED BY <1>3, <1>5, <3>1 DEF Tells
    <2> QED BY <2>1, <2>2
  <1> HIDE DEF r
  <1>8. ratios' \in Seq(Ratio) /\ Len(ratios') <= Len(files') /\ RatioInv'
    BY <1>1, <1>2, <1>3, <1>6, <1>7, AppendRatio
  <1>9. TypeInv' BY <1>1, <1>2, <1>8 DEF TypeInv
  <1>10. WindowInv' /\ ChoiceInv' BY <1>2 DEF WindowInv, ChoiceInv
  <1> QED BY <1>8, <1>9, <1>10 DEF ProbeInv

\* Choose: buffered I/O takes a warm ratio for every file.
LEMMA ChooseStep == ASSUME ProbeInv, Choose PROVE ProbeInv'
  <1>1. TypeInv /\ RatioInv BY DEF ProbeInv
  <1>2. /\ Len(ratios) = Len(files) /\ stage' = "chosen"
        /\ UNCHANGED <<files, threshold, offset, total, resident, seen, asked, ratios>>
        /\ backends' \in {"direct", "buffered"}
        /\ backends' = "buffered" =>
              \A k \in DOMAIN ratios : ratios[k] # Unknown /\ Warm(ratios[k])
    BY DEF Choose
  <1>3. DOMAIN ratios = 1..Len(ratios)
    <2>1. ratios \in Seq(Ratio) BY <1>1 DEF TypeInv
    <2> QED BY <2>1, LenProperties
  <1>4. TypeInv' BY <1>1, <1>2 DEF TypeInv
  <1>5. WindowInv' BY <1>2 DEF WindowInv
  <1>6. RatioInv' BY <1>1, <1>2 DEF RatioInv
  <1>7. ChoiceInv' BY <1>2, <1>3 DEF ChoiceInv, Warm, Unknown
  <1> QED BY <1>4, <1>5, <1>6, <1>7 DEF ProbeInv

\* A step that changes nothing.
LEMMA StutterStep == ASSUME ProbeInv, UNCHANGED probeVars PROVE ProbeInv'
  <1>1. TypeInv' BY DEF ProbeInv, TypeInv, probeVars
  <1>2. WindowInv' BY DEF ProbeInv, WindowInv, probeVars, file, window
  <1>3. RatioInv' /\ ChoiceInv' BY DEF ProbeInv, RatioInv, ChoiceInv, Warm, probeVars
  <1> QED BY <1>1, <1>2, <1>3 DEF ProbeInv

\* The invariant says what the choice rests on.
LEMMA InvSound == ASSUME ProbeInv PROVE ProbeSound
  <1>1. TypeInv /\ WindowInv /\ RatioInv /\ ChoiceInv BY DEF ProbeInv
  <1>2. PagesCountedOnce BY <1>1 DEF WindowInv, PagesCountedOnce
  <1>3. ASSUME backends = "buffered", threshold > 0, NEW k \in DOMAIN files
        PROVE  files[k].known /\ files[k].cached # {}
    <2>1. files \in Seq(FileType) /\ ratios \in Seq(Ratio) /\ threshold \in Nat
      BY <1>1 DEF TypeInv
    <2>2. Len(ratios) = Len(files)
          /\ \A i \in 1..Len(ratios) : ratios[i] # Unknown /\ Warm(ratios[i])
      BY <1>1, <1>3 DEF ChoiceInv
    <2>3. k \in 1..Len(ratios) BY <1>3, <2>1, <2>2, LenProperties
    <2>4. ratios[k] # Unknown /\ Warm(ratios[k]) BY <2>2, <2>3
    <2>5. /\ files[k].known /\ ratios[k].total > 0
          /\ ratios[k].resident > 0 => files[k].cached # {}
      BY <1>1, <2>3, <2>4 DEF RatioInv, Tells
    <2>6. ratios[k] \in Ratio BY <2>1, <2>3, ElementOfSeq
    <2> DEFINE n == ratios[k].resident
               t == ratios[k].total
    <2>7. n \in Nat /\ t \in Nat /\ t > 0 /\ n * 100 >= threshold * t
      BY <2>4, <2>5, <2>6 DEF Ratio, Warm
    <2> HIDE DEF n, t
    <2>8. threshold * t > 0 BY <1>3, <2>1, <2>7
    <2>9. n > 0 BY <2>1, <2>7, <2>8
    <2> QED BY <2>5, <2>9 DEF n
  <1>4. BufferedMeansWarm BY <1>3 DEF BufferedMeansWarm
  <1> QED BY <1>2, <1>4 DEF ProbeSound

-----------------------------------------------------------------------------
\* The inductive invariant holds throughout every probe.
THEOREM ProbeInvariance == ASSUME ProbeAssumption PROVE ProbeSpec => []ProbeInv
  <1>1. ProbeInit => ProbeInv BY InitInv
  <1>2. ProbeInv /\ [ProbeNext]_probeVars => ProbeInv'
    BY ThresholdStep, BeginStep, ProbeStep, EndStep, ChooseStep, StutterStep DEF ProbeNext, Chosen
  <1> QED BY <1>1, <1>2, PTL DEF ProbeSpec

\* page_cache_resident_ratio counts every page at most once and none past the end
\* of the file, and choose_disk_backend_candidates takes buffered I/O, for a
\* threshold above zero, only if every file was examined and has cached pages.
THEOREM ChoiceSound == ASSUME ProbeAssumption PROVE ProbeSpec => []ProbeSound
  <1>1. ProbeSpec => []ProbeInv BY ProbeInvariance
  <1>2. ProbeInv => ProbeSound BY InvSound
  <1> QED BY <1>1, <1>2, PTL

-----------------------------------------------------------------------------
(***************************************************************************)
(* Proofs about UringReader, for any number of jobs, any depth and any     *)
(* faults of the kernel.                                                   *)
(*                                                                         *)
(* The argument: a buffer is on the free stack or in exactly one of the    *)
(* places of a request (SlotsInv), so the reader's counter counts the      *)
(* requests (CountInv), and a job is read or waits in one of these places  *)
(* (TakenInv).  When the reader returns with its counter at zero the stack *)
(* is full, so it can only have stopped because no job was left.           *)
(***************************************************************************)
\* The slots of the completions, in the order of the queue.
SlotsOf(s) == [k \in DOMAIN s |-> s[k][1]]
Completed == SlotsOf(cq)

\* No buffer is in two places.
SlotsInv ==
    /\ IsInjective(free) /\ IsInjective(sq) /\ IsInjective(Completed)
    /\ ToSet(sq) \cap kernel = {} /\ ToSet(sq) \cap ToSet(Completed) = {}
    /\ kernel \cap ToSet(Completed) = {}
    /\ ToSet(free) \cap Owned = {}

\* The reader's counters agree with where the buffers are.
CountInv ==
    result # "err" =>
        /\ ToSet(free) \cup Owned = Slots
        /\ Len(free) + inflight = Depth
        /\ Len(sq) + Cardinality(kernel) + Len(cq) = inflight
        /\ requests + inflight = next

\* A job taken is read, once, or some request is about it.
TakenInv ==
    result # "err" =>
        /\ \A s \in Owned : job[s] \in 1..next
        /\ \A s, u \in Owned : job[s] = job[u] => s = u
        /\ \A j \in 1..Jobs :
              filled[j] = IF j <= next /\ \A s \in Owned : job[s] # j THEN 1 ELSE 0

\* read_files has returned exactly when it has a result.
ControlInv ==
    /\ result = "none" <=> pc # "returned"
    /\ result = "ok" => inflight = 0 /\ ~CanPush

ReaderInv == ReaderTypeOK /\ SlotsInv /\ CountInv /\ TakenInv /\ ControlInv
-----------------------------------------------------------------------------
(* Where the buffers are.                                                    *)

Results == {"full", "short", "error"}

\* A sequence has one length.
LEMMA SameRange == ASSUME NEW a \in Nat, NEW b \in Nat, 1..a = 1..b PROVE a = b
  <1>1. a > 0 => a \in 1..b OBVIOUS
  <1>2. b > 0 => b \in 1..a OBVIOUS
  <1> QED BY <1>1, <1>2

\* The slots of a queue of completions form a queue of slots.
LEMMA SlotsOfQueue ==
    ASSUME NEW q \in Seq(Slots \X Results)
    PROVE  /\ SlotsOf(q) \in Seq(Slots) /\ Len(SlotsOf(q)) = Len(q)
           /\ \A k \in 1..Len(q) : SlotsOf(q)[k] = q[k][1]
  <1>1. Len(q) \in Nat /\ DOMAIN q = 1..Len(q) BY LenProperties
  <1>2. \A k \in 1..Len(q) : q[k] \in Slots \X Results BY ElementOfSeq
  <1>3. SlotsOf(q) \in [1..Len(q) -> Slots] BY <1>1, <1>2 DEF SlotsOf
  <1>4. SlotsOf(q) \in Seq(Slots) BY <1>1, <1>3, SeqDef
  <1>5. Len(SlotsOf(q)) = Len(q)
    <2>1. Len(SlotsOf(q)) \in Nat /\ DOMAIN SlotsOf(q) = 1..Len(SlotsOf(q))
      BY <1>4, LenProperties
    <2>2. DOMAIN SlotsOf(q) = 1..Len(q) BY <1>1 DEF SlotsOf
    <2> QED BY <1>1, <2>1, <2>2, SameRange
  <1> QED BY <1>1, <1>4, <1>5 DEF SlotsOf

\* A completion is appended.
LEMMA SlotsOfAppend ==
    ASSUME NEW q \in Seq(Slots \X Results), NEW s \in Slots, NEW r \in Results
    PROVE  SlotsOf(Append(q, <<s, r>>)) = Append(SlotsOf(q), s)
  <1> DEFINE e == <<s, r>>
             u == Append(q, e)
             v == Append(SlotsOf(q), s)
  <1>1. e \in Slots \X Results /\ e[1] = s OBVIOUS
  <1>2. /\ u \in Seq(Slots \X Results) /\ Len(u) = Len(q) + 1 /\ u[Len(q) + 1] = e
        /\ \A k \in 1..Len(q) : u[k] = q[k]
    BY <1>1, AppendProperties
  <1>3. /\ v \in Seq(Slots) /\ Len(v) = Len(q) + 1 /\ v[Len(q) + 1] = s
        /\ \A k \in 1..Len(q) : v[k] = q[k][1]
    BY SlotsOfQueue, AppendProperties
  <1> HIDE DEF u, v, e
  <1>4. Len(q) \in Nat BY LenProperties
  <1>5. /\ SlotsOf(u) \in Seq(Slots) /\ Len(SlotsOf(u)) = Len(u)
        /\ \A k \in 1..Len(u) : SlotsOf(u)[k] = u[k][1]
    BY <1>2, SlotsOfQueue
  <1>6. ASSUME NEW k \in 1..(Len(q) + 1) PROVE SlotsOf(u)[k] = v[k]
    <2>1. CASE k \in 1..Len(q) BY <1>2, <1>3, <1>5, <2>1
    <2>2. CASE k = Len(q) + 1 BY <1>1, <1>2, <1>3, <1>5, <2>2
    <2> QED BY <1>4, <2>1, <2>2
  <1>7. SlotsOf(u) = v BY <1>2, <1>3, <1>5, <1>6, SeqEqual
  <1> QED BY <1>7 DEF u, v, e

\* A completion is taken from the head.
LEMMA SlotsOfTail ==
    ASSUME NEW q \in Seq(Slots \X Results), q # <<>>
    PROVE  /\ SlotsOf(Tail(q)) = Tail(SlotsOf(q)) /\ SlotsOf(q) # <<>>
           /\ Head(q)[1] = Head(SlotsOf(q))
  <1> DEFINE u == Tail(q)
             p == SlotsOf(q)
  <1>0. Len(q) \in Nat \ {0} BY EmptySeq
  <1>1. /\ u \in Seq(Slots \X Results) /\ Len(u) = Len(q) - 1 /\ Head(q) = q[1]
        /\ \A k \in 1..Len(u) : u[k] = q[k + 1]
    BY PopFront
  <1>2. /\ p \in Seq(Slots) /\ Len(p) = Len(q) /\ \A k \in 1..Len(q) : p[k] = q[k][1]
    BY SlotsOfQueue
  <1> HIDE DEF u, p
  <1>3. p # <<>> BY <1>0, <1>2, SetOf
  <1>4. /\ Tail(p) \in Seq(Slots) /\ Len(Tail(p)) = Len(p) - 1 /\ Head(p) = p[1]
        /\ \A k \in 1..Len(Tail(p)) : Tail(p)[k] = p[k + 1]
    BY <1>2, <1>3, PopFront
  <1>5. /\ SlotsOf(u) \in Seq(Slots) /\ Len(SlotsOf(u)) = Len(u)
        /\ \A k \in 1..Len(u) : SlotsOf(u)[k] = u[k][1]
    BY <1>1, SlotsOfQueue
  <1>6. ASSUME NEW k \in 1..(Len(q) - 1) PROVE SlotsOf(u)[k] = Tail(p)[k]
    <2>1. k \in 1..Len(u) /\ k \in 1..Len(Tail(p)) /\ k + 1 \in 1..Len(q)
      BY <1>0, <1>1, <1>2, <1>4
    <2> QED BY <1>1, <1>2, <1>4, <1>5, <2>1
  <1>7. SlotsOf(u) = Tail(p) BY <1>1, <1>2, <1>4, <1>5, <1>6, SeqEqual
  <1>8. Head(q)[1] = Head(p) BY <1>0, <1>1, <1>2, <1>4
  <1> QED BY <1>3, <1>7, <1>8 DEF u, p

\* A buffer that is not free is queued, with the kernel or completed.
LEMMA OwnedParts ==
    /\ Owned = ToSet(sq) \cup kernel \cup ToSet(Completed)
    /\ Owned' = ToSet(sq') \cup kernel' \cup ToSet(SlotsOf(cq'))
    /\ Completed' = SlotsOf(cq')
  BY DEF Owned, Completed, SlotsOf, ToSet

LEMMA Numbers ==
    ASSUME ReaderTypeOK
    PROVE  /\ Jobs \in Nat /\ Depth \in Nat \ {0} /\ Entries \in Nat /\ Entries >= Depth
           /\ next \in Nat /\ next <= Jobs /\ inflight \in Nat /\ inflight <= Depth
           /\ batch \in Nat /\ batch <= Len(cq)
           /\ Len(cq) \in Nat /\ Len(sq) \in Nat /\ Len(free) \in Nat
           /\ requests \in Nat /\ requests <= Jobs
           /\ short_reads \in Nat /\ short_reads <= requests
           /\ IsFiniteSet(kernel) /\ Cardinality(kernel) \in Nat
  <1>1. /\ Jobs \in Nat /\ Depth \in Nat \ {0} /\ Entries \in Nat /\ Entries >= Depth
    BY ReaderAssumption
  <1>2. Len(cq) \in Nat /\ Len(sq) \in Nat /\ Len(free) \in Nat
    BY LenProperties DEF ReaderTypeOK
  <1>3. IsFiniteSet(kernel)
    <2>1. IsFiniteSet(Slots) BY <1>1, FS_Interval DEF Slots
    <2> QED BY <2>1, FS_Subset DEF ReaderTypeOK
  <1>4. Cardinality(kernel) \in Nat BY <1>3, FS_CardinalityType
  <1> QED BY <1>1, <1>2, <1>3, <1>4 DEF ReaderTypeOK

\* PushRead moves a buffer from the stack to the submission queue.
LEMMA PushMove ==
    ASSUME ReaderTypeOK, SlotsInv, PushRead
    PROVE  \E slot \in Slots :
              /\ slot \in ToSet(free) /\ ToSet(free') = ToSet(free) \ {slot}
              /\ free' \in Seq(Slots) /\ IsInjective(free') /\ Len(free') = Len(free) - 1
              /\ sq' \in Seq(Slots) /\ ToSet(sq') = ToSet(sq) \cup {slot}
              /\ IsInjective(sq') /\ Len(sq') = Len(sq) + 1
              /\ job' = [job EXCEPT ![slot] = next + 1]
  <1> DEFINE slot == Last(free)
  <1>1. free \in Seq(Slots) /\ sq \in Seq(Slots) /\ free # <<>>
    BY DEF ReaderTypeOK, PushRead, CanPush
  <1>2. /\ slot \in Slots /\ slot \in ToSet(free)
        /\ Front(free) \in Seq(Slots) /\ Len(Front(free)) = Len(free) - 1
        /\ IsInjective(Front(free)) /\ ToSet(Front(free)) = ToSet(free) \ {slot}
    BY <1>1, PopBack DEF SlotsInv
  <1>3. slot \notin ToSet(sq) BY <1>2, OwnedParts DEF SlotsInv
  <1>4. /\ Append(sq, slot) \in Seq(Slots) /\ Len(Append(sq, slot)) = Len(sq) + 1
        /\ ToSet(Append(sq, slot)) = ToSet(sq) \cup {slot}
        /\ IsInjective(Append(sq, slot))
    BY <1>1, <1>2, <1>3, PushBack DEF SlotsInv
  <1>5. free' = Front(free) /\ sq' = Append(sq, slot)
        /\ job' = [job EXCEPT ![slot] = next + 1]
    BY DEF PushRead
  <1> HIDE DEF slot
  <1> QED BY <1>2, <1>4, <1>5

\* submit_and_wait moves the first buffers of the queue to the kernel.
LEMMA EnterMove ==
    ASSUME ReaderTypeOK, SlotsInv, Enter
    PROVE  \E gone \in SUBSET Slots :
              /\ gone \subseteq ToSet(sq) /\ kernel' = kernel \cup gone
              /\ sq' \in Seq(Slots) /\ ToSet(sq') = ToSet(sq) \ gone
              /\ IsInjective(sq')
              /\ Len(sq') + Cardinality(kernel') = Len(sq) + Cardinality(kernel)
              /\ pc' \in {"look", "wait_sent", "wait"}
  <1>1. PICK n \in 0..Len(sq) :
           /\ kernel' = kernel \cup {sq[k] : k \in 1..n}
           /\ sq' = SubSeq(sq, n + 1, Len(sq))
           /\ pc' \in {"look", "wait_sent", "wait"}
    BY DEF Enter
  <1> DEFINE gone == {sq[k] : k \in 1..n}
  <1>2. sq \in Seq(Slots) BY DEF ReaderTypeOK
  <1>3. /\ sq' \in Seq(Slots) /\ Len(sq') = Len(sq) - n /\ IsInjective(sq')
        /\ ToSet(sq') = ToSet(sq) \ gone /\ gone \subseteq ToSet(sq)
        /\ IsFiniteSet(gone) /\ Cardinality(gone) = n
    BY <1>1, <1>2, Drop DEF SlotsInv
  <1>4. kernel' = kernel \cup gone BY <1>1
  <1> HIDE DEF gone
  <1>5. gone \subseteq Slots BY <1>2, <1>3, SetOf
  <1>6. kernel \cap gone = {} BY <1>3 DEF SlotsInv
  <1>7. Cardinality(kernel') = Cardinality(kernel) + n
    <2>1. Cardinality(kernel \cup gone)
             = Cardinality(kernel) + Cardinality(gone) - Cardinality(kernel \cap gone)
      BY <1>3, Numbers, FS_Union
    <2>2. Cardinality(kernel \cap gone) = 0 BY <1>6, FS_EmptySet
    <2> QED BY <1>3, <1>4, <2>1, <2>2, Numbers
  <1>8. Len(sq') + Cardinality(kernel') = Len(sq) + Cardinality(kernel)
    BY <1>3, <1>7, Numbers
  <1> QED BY <1>1, <1>3, <1>4, <1>5, <1>8

\* A completion leaves the queue; what it is about is no longer owned.
LEMMA ReapMove ==
    ASSUME ReaderTypeOK, SlotsInv, ReapOne
    PROVE  /\ Head(cq) \in Slots \X Results /\ Head(cq)[1] \in ToSet(Completed)
           /\ cq' \in Seq(Slots \X Results) /\ Len(cq') = Len(cq) - 1
           /\ SlotsOf(cq') \in Seq(Slots) /\ IsInjective(SlotsOf(cq'))
           /\ ToSet(SlotsOf(cq')) = ToSet(Completed) \ {Head(cq)[1]}
           /\ Append(free, Head(cq)[1]) \in Seq(Slots)
           /\ Len(Append(free, Head(cq)[1])) = Len(free) + 1
           /\ ToSet(Append(free, Head(cq)[1])) = ToSet(free) \cup {Head(cq)[1]}
           /\ IsInjective(Append(free, Head(cq)[1]))
  <1>1. cq \in Seq(Slots \X Results) /\ free \in Seq(Slots) BY DEF ReaderTypeOK, Results
  <1>2. cq # <<>> BY <1>1, Numbers, SetOf DEF ReapOne
  <1>3. cq' = Tail(cq) BY DEF ReapOne
  <1>4. Completed \in Seq(Slots) BY <1>1, SlotsOfQueue DEF Completed
  <1>5. /\ SlotsOf(cq') = Tail(Completed) /\ Completed # <<>>
        /\ Head(cq)[1] = Head(Completed)
    BY <1>1, <1>2, <1>3, SlotsOfTail DEF Completed
  <1>6. Head(cq) \in Slots \X Results /\ cq' \in Seq(Slots \X Results)
        /\ Len(cq') = Len(cq) - 1
    BY <1>1, <1>2, <1>3, PopFront
  <1>7. /\ Head(Completed) \in ToSet(Completed) /\ Head(Completed) \in Slots
        /\ Tail(Completed) \in Seq(Slots) /\ IsInjective(Tail(Completed))
        /\ ToSet(Tail(Completed)) = ToSet(Completed) \ {Head(Completed)}
    BY <1>4, <1>5, PopFront DEF SlotsInv
  <1>8. Head(Completed) \notin ToSet(free) BY <1>7, OwnedParts DEF SlotsInv
  <1>9. /\ Append(free, Head(Completed)) \in Seq(Slots)
        /\ Len(Append(free, Head(Completed))) = Len(free) + 1
        /\ ToSet(Append(free, Head(Completed))) = ToSet(free) \cup {Head(Completed)}
        /\ IsInjective(Append(free, Head(Completed)))
    BY <1>1, <1>7, <1>8, PushBack DEF SlotsInv
  <1> QED BY <1>5, <1>6, <1>7, <1>9

\* The kernel finishes with a buffer.
LEMMA CompleteMove ==
    ASSUME ReaderTypeOK, SlotsInv, NEW s \in Slots, Complete(s)
    PROVE  /\ cq' \in Seq(Slots \X Results) /\ Len(cq') = Len(cq) + 1
           /\ IsInjective(SlotsOf(cq'))
           /\ ToSet(SlotsOf(cq')) = ToSet(Completed) \cup {s}
           /\ s \in kernel /\ kernel' = kernel \ {s}
           /\ Cardinality(kernel') = Cardinality(kernel) - 1
  <1>1. cq \in Seq(Slots \X Results) BY DEF ReaderTypeOK, Results
  <1>2. PICK o \in Results : cq' = Append(cq, <<s, o>>)
    BY DEF Complete, Outcomes, Results
  <1>3. s \in kernel /\ kernel' = kernel \ {s} BY DEF Complete
  <1>4. Completed \in Seq(Slots) BY <1>1, SlotsOfQueue DEF Completed
  <1>5. SlotsOf(cq') = Append(Completed, s) BY <1>1, <1>2, SlotsOfAppend DEF Completed
  <1>6. s \notin ToSet(Completed) BY <1>3 DEF SlotsInv
  <1>7. /\ ToSet(Append(Completed, s)) = ToSet(Completed) \cup {s}
        /\ IsInjective(Append(Completed, s))
    BY <1>4, <1>6, PushBack DEF SlotsInv
  <1>8. cq' \in Seq(Slots \X Results) /\ Len(cq') = Len(cq) + 1
    <2>1. <<s, o>> \in Slots \X Results OBVIOUS
    <2> QED BY <1>1, <1>2, <2>1, AppendProperties
  <1>9. Cardinality(kernel') = Cardinality(kernel) - 1
    BY <1>3, Numbers, FS_RemoveElement
  <1> QED BY <1>3, <1>5, <1>7, <1>8, <1>9
-----------------------------------------------------------------------------
(* Preservation of ReaderInv, part by part.                                     *)

Quiet == UNCHANGED <<free, sq, kernel, cq, job, next, inflight, requests, filled,
                     short_reads>>

\* The other steps leave the buffers and the counters alone, and no step takes
\* an error back.
LEMMA Steps ==
    ASSUME ReaderInv, ReaderNext
    PROVE  /\ \/ PushRead \/ Enter \/ ReapOne \/ (\E s \in Slots : Complete(s)) \/ Quiet
           /\ result' # "err" => result # "err"
  <1>1. \/ PushRead \/ Enter \/ ReapOne \/ (\E s \in Slots : Complete(s)) \/ Quiet
    BY DEF ReaderNext, Reader, Kernel, EndFill, WaitOne, Interrupted, EnterFails,
           LookAtQueue, EndReap, Returned, Quiet, readerVars
  <1>2. result # "none" => pc = "returned" BY DEF ReaderInv, ControlInv
  <1>3. result' # result => pc # "returned"
    BY DEF ReaderNext, Reader, Kernel, PushRead, EndFill, Enter, WaitOne, Interrupted,
           EnterFails, LookAtQueue, ReapOne, EndReap, Complete, Returned, readerVars
  <1> QED BY <1>1, <1>2, <1>3

\* A buffer moves from one place to another and is never copied.
LEMMA SlotsStep == ASSUME ReaderInv, ReaderNext PROVE SlotsInv'
  <1>0. ReaderTypeOK /\ SlotsInv BY DEF ReaderInv
  <1>1. CASE PushRead
    <2>1. PICK slot \in Slots :
             /\ slot \in ToSet(free) /\ ToSet(free') = ToSet(free) \ {slot}
             /\ IsInjective(free') /\ IsInjective(sq')
             /\ ToSet(sq') = ToSet(sq) \cup {slot}
      BY <1>0, <1>1, PushMove
    <2>2. kernel' = kernel /\ cq' = cq BY <1>1 DEF PushRead
    <2>3. SlotsOf(cq') = Completed BY <2>2 DEF Completed
    <2> QED BY <1>0, <2>1, <2>2, <2>3, OwnedParts DEF SlotsInv
  <1>2. CASE Enter
    <2>1. PICK gone \in SUBSET Slots :
             /\ gone \subseteq ToSet(sq) /\ kernel' = kernel \cup gone
             /\ ToSet(sq') = ToSet(sq) \ gone /\ IsInjective(sq')
      BY <1>0, <1>2, EnterMove
    <2>2. free' = free /\ cq' = cq BY <1>2 DEF Enter
    <2>3. SlotsOf(cq') = Completed BY <2>2 DEF Completed
    <2> QED BY <1>0, <2>1, <2>2, <2>3, OwnedParts DEF SlotsInv
  <1>3. CASE ReapOne
    <2> DEFINE slot == Head(cq)[1]
    <2>1. /\ slot \in ToSet(Completed) /\ IsInjective(SlotsOf(cq'))
          /\ ToSet(SlotsOf(cq')) = ToSet(Completed) \ {slot}
          /\ ToSet(Append(free, slot)) = ToSet(free) \cup {slot}
          /\ IsInjective(Append(free, slot))
      BY <1>0, <1>3, ReapMove
    <2>2. kernel' = kernel /\ sq' = sq /\ (free' = free \/ free' = Append(free, slot))
      BY <1>3 DEF ReapOne, GiveBack
    <2> HIDE DEF slot
    <2>3. /\ IsInjective(free')
          /\ ToSet(free') = ToSet(free) \/ ToSet(free') = ToSet(free) \cup {slot}
      BY <1>0, <2>1, <2>2 DEF SlotsInv
    <2> QED BY <1>0, <2>1, <2>2, <2>3, OwnedParts DEF SlotsInv
  <1>4. ASSUME NEW s \in Slots, Complete(s) PROVE SlotsInv'
    <2>1. /\ IsInjective(SlotsOf(cq')) /\ s \in kernel /\ kernel' = kernel \ {s}
          /\ ToSet(SlotsOf(cq')) = ToSet(Completed) \cup {s}
      BY <1>0, <1>4, CompleteMove
    <2>2. free' = free /\ sq' = sq BY <1>4 DEF Complete
    <2> QED BY <1>0, <2>1, <2>2, OwnedParts DEF SlotsInv
  <1>5. CASE Quiet
    <2>1. SlotsOf(cq') = Completed BY <1>5 DEF Completed, Quiet
    <2> QED BY <1>0, <1>5, <2>1, OwnedParts DEF SlotsInv, Quiet
  <1> QED BY <1>1, <1>2, <1>3, <1>4, <1>5, Steps

\* The reader's counter keeps pace with the requests.
LEMMA CountStep == ASSUME ReaderInv, ReaderNext PROVE CountInv'
  <1> SUFFICES ASSUME result' # "err"
               PROVE  /\ ToSet(free') \cup Owned' = Slots
                      /\ Len(free') + inflight' = Depth
                      /\ Len(sq') + Cardinality(kernel') + Len(cq') = inflight'
                      /\ requests' + inflight' = next'
    BY DEF CountInv
  <1>0. ReaderTypeOK /\ SlotsInv BY DEF ReaderInv
  <1>c. ToSet(free) \cup Owned = Slots BY Steps DEF ReaderInv, CountInv
  <1>d. /\ Len(free) + inflight = Depth
        /\ Len(sq) + Cardinality(kernel) + Len(cq) = inflight
        /\ requests + inflight = next
    BY Steps DEF ReaderInv, CountInv
  <1>n. /\ next \in Nat /\ inflight \in Nat /\ requests \in Nat /\ Depth \in Nat
        /\ Len(cq) \in Nat /\ Len(sq) \in Nat /\ Len(free) \in Nat
        /\ Cardinality(kernel) \in Nat
    BY <1>0, Numbers
  <1>1. CASE PushRead
    <2>1. PICK slot \in Slots :
             /\ slot \in ToSet(free) /\ ToSet(free') = ToSet(free) \ {slot}
             /\ ToSet(sq') = ToSet(sq) \cup {slot}
             /\ Len(free') = Len(free) - 1 /\ Len(sq') = Len(sq) + 1
      BY <1>0, <1>1, PushMove
    <2>2. /\ kernel' = kernel /\ cq' = cq /\ requests' = requests
          /\ next' = next + 1 /\ inflight' = inflight + 1
      BY <1>1 DEF PushRead
    <2>3. SlotsOf(cq') = Completed BY <2>2 DEF Completed
    <2>4. ToSet(free') \cup Owned' = Slots BY <1>c, <2>1, <2>2, <2>3, OwnedParts
    <2>5. /\ Len(free') + inflight' = Depth
          /\ Len(sq') + Cardinality(kernel') + Len(cq') = inflight'
          /\ requests' + inflight' = next'
      <3>1. Len(free') = Len(free) - 1 /\ Len(sq') = Len(sq) + 1 BY <2>1
      <3> QED BY <1>d, <1>n, <2>2, <3>1
    <2> QED BY <2>4, <2>5
  <1>2. CASE Enter
    <2>1. PICK gone \in SUBSET Slots :
             /\ gone \subseteq ToSet(sq) /\ kernel' = kernel \cup gone
             /\ ToSet(sq') = ToSet(sq) \ gone
             /\ Len(sq') + Cardinality(kernel') = Len(sq) + Cardinality(kernel)
      BY <1>0, <1>2, EnterMove
    <2>2. UNCHANGED <<free, cq, requests, next, inflight>> BY <1>2 DEF Enter
    <2>3. SlotsOf(cq') = Completed BY <2>2 DEF Completed
    <2>4. ToSet(free') \cup Owned' = Slots BY <1>c, <2>1, <2>2, <2>3, OwnedParts
    <2> QED BY <1>d, <1>n, <2>1, <2>2, <2>4
  <1>3. CASE ReapOne
    <2> DEFINE slot == Head(cq)[1]
    <2>1. /\ slot \in ToSet(Completed) /\ Len(cq') = Len(cq) - 1
          /\ ToSet(SlotsOf(cq')) = ToSet(Completed) \ {slot}
          /\ ToSet(Append(free, slot)) = ToSet(free) \cup {slot}
          /\ Len(Append(free, slot)) = Len(free) + 1
      BY <1>0, <1>3, ReapMove
    <2>2. /\ UNCHANGED <<kernel, sq, next>> /\ free' = Append(free, slot)
          /\ requests' = requests + 1 /\ inflight' = inflight - 1
      BY <1>3 DEF ReapOne, GiveBack, Leave
    <2> HIDE DEF slot
    <2>3. ToSet(free') \cup Owned' = Slots BY <1>c, <2>1, <2>2, OwnedParts
    <2>4. /\ Len(free') + inflight' = Depth
          /\ Len(sq') + Cardinality(kernel') + Len(cq') = inflight'
          /\ requests' + inflight' = next'
      <3>1. Len(free') = Len(free) + 1 /\ Len(cq') = Len(cq) - 1 BY <2>1, <2>2
      <3> QED BY <1>d, <1>n, <2>2, <3>1, SMTT(40)
    <2> QED BY <2>3, <2>4
  <1>4. ASSUME NEW s \in Slots, Complete(s)
        PROVE  /\ ToSet(free') \cup Owned' = Slots
               /\ Len(sq') + Cardinality(kernel') + Len(cq') = inflight'
               /\ UNCHANGED <<free, requests, next, inflight>>
    <2>1. /\ s \in kernel /\ kernel' = kernel \ {s} /\ Len(cq') = Len(cq) + 1
          /\ ToSet(SlotsOf(cq')) = ToSet(Completed) \cup {s}
          /\ Cardinality(kernel') = Cardinality(kernel) - 1
      BY <1>0, <1>4, CompleteMove
    <2>2. UNCHANGED <<free, sq, requests, next, inflight>> BY <1>4 DEF Complete
    <2>3. ToSet(free') \cup Owned' = Slots BY <1>c, <2>1, <2>2, OwnedParts
    <2> QED BY <1>d, <1>n, <2>1, <2>2, <2>3, SMTT(40)
  <1>5. CASE Quiet
    <2>1. SlotsOf(cq') = Completed BY <1>5 DEF Completed, Quiet
    <2>2. ToSet(free') \cup Owned' = Slots BY <1>c, <1>5, <2>1, OwnedParts DEF Quiet
    <2> QED BY <1>d, <1>5, <2>2 DEF Quiet
  <1> QED BY <1>1, <1>2, <1>3, <1>4, <1>5, <1>d, Steps

\* Jobs are handed out in order, to one buffer each, and read once.
LEMMA JobStep == ASSUME ReaderInv, ReaderNext PROVE TakenInv'
  <1> SUFFICES ASSUME result' # "err"
               PROVE  /\ \A s \in Owned' : job'[s] \in 1..next'
                      /\ \A s, u \in Owned' : job'[s] = job'[u] => s = u
                      /\ \A j \in 1..Jobs : filled'[j] =
                            IF j <= next' /\ \A s \in Owned' : job'[s] # j THEN 1 ELSE 0
    BY DEF TakenInv
  <1>0. ReaderTypeOK /\ SlotsInv BY DEF ReaderInv
  <1>j. /\ \A s \in Owned : job[s] \in 1..next
        /\ \A s, u \in Owned : job[s] = job[u] => s = u
        /\ \A j \in 1..Jobs :
              filled[j] = IF j <= next /\ \A s \in Owned : job[s] # j THEN 1 ELSE 0
    BY Steps DEF ReaderInv, TakenInv
  <1>t. /\ job \in [Slots -> 0..Jobs] /\ filled \in [1..Jobs -> {0, 1}]
        /\ next \in Nat /\ Jobs \in Nat
    BY <1>0, Numbers DEF ReaderTypeOK
  <1>1. CASE PushRead
    <2>1. PICK slot \in Slots :
             /\ slot \in ToSet(free) /\ ToSet(sq') = ToSet(sq) \cup {slot}
             /\ job' = [job EXCEPT ![slot] = next + 1]
      BY <1>0, <1>1, PushMove
    <2>2. kernel' = kernel /\ cq' = cq /\ filled' = filled /\ next' = next + 1
      BY <1>1 DEF PushRead
    <2>3. Owned' = Owned \cup {slot} BY <2>1, <2>2, OwnedParts DEF Completed
    <2>4. slot \notin Owned BY <1>0, <2>1 DEF SlotsInv
    <2>5. Owned \subseteq Slots
      BY <1>0, SetOf, SlotsOfQueue, OwnedParts DEF ReaderTypeOK, Completed, Results
    <2>6. job'[slot] = next + 1 /\ \A s \in Owned : job'[s] = job[s]
      BY <1>t, <2>1, <2>4, <2>5
    <2> HIDE DEF Owned
    <2>7. \A s \in Owned' : job'[s] \in 1..next' BY <1>j, <1>t, <2>2, <2>3, <2>6
    <2>8. \A s, u \in Owned' : job'[s] = job'[u] => s = u
      BY <1>j, <1>t, <2>3, <2>6
    <2>9. ASSUME NEW j \in 1..Jobs
          PROVE  filled'[j] = IF j <= next' /\ \A s \in Owned' : job'[s] # j THEN 1 ELSE 0
      <3>1. (j <= next' /\ \A s \in Owned' : job'[s] # j)
               <=> (j <= next /\ \A s \in Owned : job[s] # j)
        BY <1>t, <2>2, <2>3, <2>6
      <3> QED BY <1>j, <2>2, <3>1
    <2> QED BY <2>7, <2>8, <2>9
  <1>2. CASE Enter
    <2>1. PICK gone \in SUBSET Slots :
             /\ gone \subseteq ToSet(sq) /\ kernel' = kernel \cup gone
             /\ ToSet(sq') = ToSet(sq) \ gone
      BY <1>0, <1>2, EnterMove
    <2>2. UNCHANGED <<cq, job, next, filled>> BY <1>2 DEF Enter
    <2>3. Owned' = Owned BY <2>1, <2>2, OwnedParts DEF Completed
    <2> QED BY <1>j, <2>2, <2>3
  <1>3. CASE ReapOne
    <2> DEFINE slot == Head(cq)[1]
    <2>1. /\ slot \in ToSet(Completed)
          /\ ToSet(SlotsOf(cq')) = ToSet(Completed) \ {slot}
      BY <1>0, <1>3, ReapMove
    <2>2. /\ UNCHANGED <<kernel, sq, next, job>>
          /\ filled' = [filled EXCEPT ![job[slot]] = @ + 1]
      BY <1>3 DEF ReapOne
    <2> HIDE DEF slot
    <2>3. Owned' = Owned \ {slot} /\ slot \in Owned
      BY <1>0, <2>1, <2>2, OwnedParts DEF SlotsInv
    <2>4. job[slot] \in 1..Jobs /\ filled[job[slot]] = 0
      <3>1. job[slot] \in 1..next BY <1>j, <2>3
      <3>2. job[slot] \in 1..Jobs BY <1>0, <3>1, Numbers
      <3> QED BY <1>j, <2>3, <3>2
    <2>5. ASSUME NEW j \in 1..Jobs
          PROVE  filled'[j] = IF j <= next /\ \A s \in Owned' : job[s] # j THEN 1 ELSE 0
      <3>1. CASE j = job[slot]
        <4>1. filled'[j] = 1 BY <1>t, <2>2, <2>4, <3>1
        <4>2. j <= next BY <1>j, <1>t, <2>3, <3>1
        <4>3. \A s \in Owned' : job[s] # j BY <1>j, <2>3, <3>1
        <4> QED BY <4>1, <4>2, <4>3
      <3>2. CASE j # job[slot]
        <4>1. filled'[j] = filled[j] BY <1>t, <2>2, <3>2
        <4>2. (\A s \in Owned' : job[s] # j) <=> (\A s \in Owned : job[s] # j)
          BY <2>3, <3>2
        <4> QED BY <1>j, <4>1, <4>2
      <3> QED BY <3>1, <3>2
    <2> QED BY <1>j, <2>2, <2>3, <2>5
  <1>4. ASSUME NEW s \in Slots, Complete(s)
        PROVE  Owned' = Owned /\ UNCHANGED <<job, next, filled>>
    <2>1. /\ s \in kernel /\ kernel' = kernel \ {s}
          /\ ToSet(SlotsOf(cq')) = ToSet(Completed) \cup {s}
      BY <1>0, <1>4, CompleteMove
    <2>2. UNCHANGED <<sq, job, next, filled>> BY <1>4 DEF Complete
    <2> QED BY <2>1, <2>2, OwnedParts
  <1>5. ASSUME Quiet PROVE Owned' = Owned /\ UNCHANGED <<job, next, filled>>
    BY <1>5, OwnedParts DEF Completed, Quiet
  <1>6. ASSUME Owned' = Owned, UNCHANGED <<job, next, filled>>
        PROVE  /\ \A s \in Owned' : job'[s] \in 1..next'
               /\ \A s, u \in Owned' : job'[s] = job'[u] => s = u
               /\ \A j \in 1..Jobs : filled'[j] =
                     IF j <= next' /\ \A s \in Owned' : job'[s] # j THEN 1 ELSE 0
    BY <1>j, <1>6
  <1> QED BY <1>1, <1>2, <1>3, <1>4, <1>5, <1>6, Steps

\* The reader stops with "ok" only when nothing is in flight and nothing can be
\* pushed, and never acts again.
LEMMA ControlStep == ASSUME ReaderInv, ReaderNext PROVE ControlInv'
  <1>0. ControlInv /\ ReaderTypeOK BY DEF ReaderInv
  <1>1. CASE PushRead \/ Enter \/ WaitOne \/ Interrupted \/ LookAtQueue \/ EndReap
    BY <1>0, <1>1 DEF PushRead, Enter, WaitOne, Interrupted, LookAtQueue, EndReap,
           ControlInv
  <1>2. CASE EndFill BY <1>0, <1>2 DEF EndFill, ControlInv, CanPush
  <1>3. CASE EnterFails \/ ReapOne
    BY <1>0, <1>3 DEF EnterFails, ReapOne, ControlInv
  <1>4. CASE Kernel \/ Returned
    BY <1>0, <1>4 DEF Kernel, Complete, Returned, readerVars, ControlInv, CanPush
  <1> QED BY <1>1, <1>2, <1>3, <1>4 DEF ReaderNext, Reader

\* Variables keep their types: no counter leaves its range, as each counts
\* buffers or jobs.
LEMMA TypeStep == ASSUME ReaderInv, ReaderNext PROVE ReaderTypeOK'
  <1>0. ReaderTypeOK /\ SlotsInv /\ ControlInv BY DEF ReaderInv
  <1>c. result # "err" => /\ Len(free) + inflight = Depth
                          /\ Len(sq) + Cardinality(kernel) + Len(cq) = inflight
                          /\ requests + inflight = next
    BY DEF ReaderInv, CountInv
  <1>1. CASE PushRead
    <2>1. PICK slot \in Slots :
             /\ free' \in Seq(Slots) /\ sq' \in Seq(Slots) /\ Len(free') = Len(free) - 1
             /\ job' = [job EXCEPT ![slot] = next + 1]
      BY <1>0, <1>1, PushMove
    <2>2. result # "err" /\ next < Jobs BY <1>0, <1>1 DEF PushRead, CanPush, ControlInv
    <2>3. Len(free') \in Nat BY <2>1, LenProperties
    <2>4. inflight + 1 \in 0..Depth /\ next + 1 \in 0..Jobs
      <3>1. Len(free) + inflight = Depth /\ Len(free') = Len(free) - 1
        BY <1>c, <2>1, <2>2
      <3>2. next \in Nat /\ inflight \in Nat /\ Jobs \in Nat /\ Depth \in Nat
            /\ Len(free) \in Nat
        BY <1>0, Numbers
      <3> QED BY <2>2, <2>3, <3>1, <3>2
    <2>5. job' \in [Slots -> 0..Jobs] BY <1>0, <2>1, <2>4 DEF ReaderTypeOK
    <2> QED BY <1>0, <1>1, <2>1, <2>4, <2>5 DEF PushRead, ReaderTypeOK
  <1>2. CASE Enter
    <2>1. PICK gone \in SUBSET Slots :
             /\ kernel' = kernel \cup gone /\ sq' \in Seq(Slots)
             /\ pc' \in {"look", "wait_sent", "wait"}
      BY <1>0, <1>2, EnterMove
    <2> QED BY <1>0, <1>2, <2>1 DEF Enter, ReaderTypeOK
  <1>3. CASE ReapOne
    <2> DEFINE slot == Head(cq)[1]
    <2>1. /\ cq' \in Seq(Slots \X Results) /\ Len(cq') = Len(cq) - 1
          /\ Append(free, slot) \in Seq(Slots) /\ slot \in ToSet(Completed)
      BY <1>0, <1>3, ReapMove
    <2>2. batch' \in 0..Len(cq') BY <1>0, <1>3, <2>1, Numbers DEF ReapOne
    <2>3. CASE Head(cq)[2] = "error"
      BY <1>0, <1>3, <2>1, <2>2, <2>3 DEF ReapOne, ReaderTypeOK, Results
    <2>4. CASE Head(cq)[2] # "error"
      <3>1. /\ free' = Append(free, slot) /\ inflight' = inflight - 1
            /\ requests' = requests + 1
            /\ short_reads' = short_reads + (IF Head(cq)[2] = "short" THEN 1 ELSE 0)
            /\ filled' = [filled EXCEPT ![job[slot]] = @ + 1]
            /\ UNCHANGED <<pc, result, next, job, sq, kernel>>
        BY <1>3, <2>4 DEF ReapOne, GiveBack, Leave
      <3>2. result # "err" BY <1>0, <1>3 DEF ReapOne, ControlInv
      <3>3. inflight' \in 0..Depth /\ requests' \in 0..Jobs /\ short_reads' \in 0..requests'
        <4>1. Len(cq') \in Nat BY <2>1, LenProperties
        <4>2. /\ next \in Nat /\ next <= Jobs /\ inflight \in Nat /\ inflight <= Depth
              /\ Jobs \in Nat /\ Depth \in Nat /\ requests \in Nat /\ Len(cq) \in Nat
              /\ short_reads \in Nat /\ short_reads <= requests
              /\ Len(sq) \in Nat /\ Cardinality(kernel) \in Nat
          BY <1>0, Numbers
        <4>3. inflight > 0 BY <1>c, <2>1, <3>2, <4>1, <4>2
        <4>4. requests + inflight = next BY <1>c, <3>2
        <4> QED BY <3>1, <4>2, <4>3, <4>4
      <3>4. filled' \in [1..Jobs -> {0, 1}]
        <4>1. slot \in Owned BY <2>1, OwnedParts
        <4>2. job[slot] \in 1..next BY <3>2, <4>1 DEF ReaderInv, TakenInv
        <4>3. job[slot] \in 1..Jobs BY <1>0, <4>2, Numbers
        <4>4. filled[job[slot]] = 0 BY <3>2, <4>1, <4>3 DEF ReaderInv, TakenInv
        <4> QED BY <1>0, <3>1, <4>3, <4>4 DEF ReaderTypeOK
      <3> QED BY <1>0, <2>1, <2>2, <3>1, <3>3, <3>4 DEF ReaderTypeOK, Results
    <2> QED BY <2>3, <2>4
  <1>4. ASSUME NEW s \in Slots, Complete(s) PROVE ReaderTypeOK'
    <2>1. cq' \in Seq(Slots \X Results) /\ Len(cq') = Len(cq) + 1 /\ kernel' = kernel \ {s}
      BY <1>0, <1>4, CompleteMove
    <2>2. batch' \in 0..Len(cq') BY <1>0, <1>4, <2>1, Numbers DEF Complete
    <2> QED BY <1>0, <1>4, <2>1, <2>2 DEF Complete, ReaderTypeOK, Results
  <1>5. CASE EndFill \/ EnterFails
    BY <1>0, <1>5 DEF EndFill, EnterFails, ReaderTypeOK
  <1>6. CASE WaitOne \/ Interrupted \/ EndReap
    BY <1>0, <1>6 DEF WaitOne, Interrupted, EndReap, ReaderTypeOK
  <1>7. CASE LookAtQueue
    <2>1. Len(cq) \in 0..Len(cq) BY <1>0, Numbers
    <2> QED BY <1>0, <1>7, <2>1 DEF LookAtQueue, ReaderTypeOK
  <1>8. CASE Returned BY <1>0, <1>8 DEF Returned, readerVars, ReaderTypeOK
  <1> QED
    BY <1>1, <1>2, <1>3, <1>4, <1>5, <1>6, <1>7, <1>8 DEF ReaderNext, Reader, Kernel

-----------------------------------------------------------------------------
(* The theorems.                                                             *)

\* All buffers are on the stack when read_files starts.
LEMMA InitIndInv == ReaderInit => ReaderInv
  <1> SUFFICES ASSUME ReaderInit PROVE ReaderInv OBVIOUS
  <1> DEFINE all == [k \in Slots |-> k]
  <1>n. Jobs \in Nat /\ Depth \in Nat \ {0} BY ReaderAssumption
  <1>1. all \in Seq(Slots) /\ Len(all) = Depth
    <2>1. all \in [1..Depth -> Slots] BY DEF Slots
    <2>2. all \in Seq(Slots) BY <1>n, <2>1, SeqDef
    <2>3. Len(all) \in Nat /\ DOMAIN all = 1..Len(all) BY <2>2, LenProperties
    <2>4. DOMAIN all = 1..Depth BY DEF Slots
    <2>5. Len(all) = Depth BY <1>n, <2>3, <2>4, SameRange
    <2> QED BY <2>2, <2>5
  <1>2. free = [i \in 1..Depth |-> (Depth - i) + 1]
    <2>1. free = [i \in 1..Depth |-> all[(Depth - i) + 1]] BY <1>1 DEF ReaderInit, Reverse
    <2>2. \A i \in 1..Depth : (Depth - i) + 1 \in Slots BY <1>n DEF Slots
    <2> QED BY <2>1, <2>2
  <1>3. free \in [1..Depth -> Slots] BY <1>n, <1>2 DEF Slots
  <1>4. free \in Seq(Slots) BY <1>n, <1>3, SeqDef
  <1>5. Len(free) = Depth /\ DOMAIN free = 1..Depth
    <2>1. Len(free) \in Nat /\ DOMAIN free = 1..Len(free) BY <1>4, LenProperties
    <2>2. DOMAIN free = 1..Depth BY <1>3
    <2> HIDE DEF all
    <2> QED BY <1>n, <2>1, <2>2, SameRange
  <1>6. IsInjective(free) BY <1>n, <1>2 DEF IsInjective
  <1>7. ToSet(free) = Slots
    <2>1. ToSet(free) \subseteq Slots BY <1>4, SetOf
    <2>2. ASSUME NEW s \in Slots PROVE s \in ToSet(free)
      <3>1. (Depth - s) + 1 \in 1..Depth /\ free[(Depth - s) + 1] = s
        BY <1>n, <1>2 DEF Slots
      <3> QED BY <1>5, <3>1 DEF ToSet
    <2> QED BY <2>1, <2>2
  <1>8. cq = <<>> /\ sq = <<>> /\ kernel = {} BY DEF ReaderInit
  <1>9. /\ cq \in Seq(Slots \X Results) /\ Len(cq) = 0
        /\ sq \in Seq(Slots) /\ Len(sq) = 0 /\ ToSet(sq) = {}
        /\ Completed \in Seq(Slots) /\ Len(Completed) = 0 /\ ToSet(Completed) = {}
    <2>1. cq \in Seq(Slots \X Results) /\ Len(cq) = 0 /\ sq \in Seq(Slots) /\ Len(sq) = 0
      BY <1>8, EmptySeq
    <2>2. Completed \in Seq(Slots) /\ Len(Completed) = 0
      BY <2>1, SlotsOfQueue DEF Completed
    <2> QED BY <2>1, <2>2, SetOf
  <1>10. Owned = {} BY <1>8, <1>9, OwnedParts
  <1>11. ReaderTypeOK BY <1>n, <1>4, <1>8, <1>9 DEF ReaderInit, ReaderTypeOK, Results, NoJob
  <1>12. SlotsInv
    <2>1. DOMAIN sq = 1..0 /\ DOMAIN Completed = 1..0 BY <1>9, LenProperties
    <2>2. IsInjective(sq) /\ IsInjective(Completed) BY <2>1 DEF IsInjective
    <2> QED BY <1>6, <1>8, <1>9, <1>10, <2>2 DEF SlotsInv
  <1>13. CountInv
    <2>1. Cardinality(kernel) = 0 BY <1>8, FS_EmptySet
    <2> QED BY <1>n, <1>5, <1>7, <1>9, <1>10, <2>1 DEF ReaderInit, CountInv
  <1>14. TakenInv BY <1>n, <1>10 DEF ReaderInit, TakenInv
  <1>15. ControlInv BY DEF ReaderInit, ControlInv
  <1> QED BY <1>11, <1>12, <1>13, <1>14, <1>15 DEF ReaderInv

\* The places of buffers, the counters and the jobs stay consistent, whatever
\* order the kernel completes reads in, however many a call submits and
\* whichever faults it reports.
THEOREM ReaderInvariance == ReaderSpec => []ReaderInv
  <1>1. ASSUME ReaderInv, [ReaderNext]_readerVars PROVE ReaderInv'
    <2>1. CASE ReaderNext
      BY <1>1, <2>1, TypeStep, SlotsStep, CountStep, JobStep, ControlStep DEF ReaderInv
    <2>2. CASE UNCHANGED readerVars
      <3>1. ReaderTypeOK' BY <1>1, <2>2 DEF ReaderInv, ReaderTypeOK, readerVars
      <3>2. ControlInv' BY <1>1, <2>2 DEF ReaderInv, ControlInv, CanPush, readerVars
      <3>3. Owned' = Owned /\ Completed' = Completed
        BY <2>2, OwnedParts DEF Completed, readerVars
      <3>4. SlotsInv' BY <1>1, <2>2, <3>3 DEF ReaderInv, SlotsInv, readerVars
      <3>5. CountInv' BY <1>1, <2>2, <3>3 DEF ReaderInv, CountInv, readerVars
      <3>6. TakenInv' BY <1>1, <2>2, <3>3 DEF ReaderInv, TakenInv, readerVars
      <3> QED BY <3>1, <3>2, <3>4, <3>5, <3>6 DEF ReaderInv
    <2> QED BY <1>1, <2>1, <2>2
  <1> QED BY <1>1, InitIndInv, PTL DEF ReaderSpec

\* Variables keep their types; in particular stats.requests never exceeds the
\* number of jobs and no job is read twice.
THEOREM TypeCorrect == ReaderSpec => []ReaderTypeOK
  <1>1. ReaderInv => ReaderTypeOK BY DEF ReaderInv
  <1> QED BY <1>1, ReaderInvariance, PTL

\* read_files never loses a buffer of its pool and never gives one to two reads.
THEOREM PoolIsConserved == ReaderSpec => []PoolConserved
  <1>1. ReaderInv => PoolConserved
    BY DEF ReaderInv, SlotsInv, CountInv, PoolConserved
  <1> QED BY <1>1, ReaderInvariance, PTL

\* When read_files returns Ok it has read every job of the plan exactly once and
\* leaves nothing behind in the ring.
THEOREM ReturnsAllRead == ReaderSpec => []AllJobsRead
  <1>1. ReaderInv => AllJobsRead
    <2> SUFFICES ASSUME ReaderInv, result = "ok"
                 PROVE  /\ \A j \in 1..Jobs : filled[j] = 1
                        /\ requests = Jobs /\ Owned = {}
      BY DEF AllJobsRead
    <2>0. ReaderTypeOK /\ SlotsInv BY DEF ReaderInv
    <2>1. inflight = 0 /\ ~CanPush BY DEF ReaderInv, ControlInv
    <2>2. /\ Len(free) + inflight = Depth /\ requests + inflight = next
          /\ Len(sq) + Cardinality(kernel) + Len(cq) = inflight
      BY DEF ReaderInv, CountInv
    <2>3. /\ Len(free) = Depth /\ Len(sq) = 0 /\ Cardinality(kernel) = 0 /\ Len(cq) = 0
          /\ requests = next
      BY <2>0, <2>1, <2>2, Numbers
    <2>4. free # <<>> /\ Len(sq) < Entries BY <2>0, <2>3, Numbers, SetOf DEF ReaderTypeOK
    <2>5. next = Jobs BY <2>0, <2>1, <2>4, Numbers DEF CanPush
    <2>6. Owned = {}
      <3>1. ToSet(sq) = {} BY <2>0, <2>3, SetOf DEF ReaderTypeOK
      <3>2. kernel = {} BY <2>0, <2>3, Numbers, FS_EmptySet
      <3>3. ToSet(Completed) = {}
        <4>1. cq \in Seq(Slots \X Results) BY <2>0 DEF ReaderTypeOK, Results
        <4>2. Completed \in Seq(Slots) /\ Len(Completed) = 0
          BY <2>3, <4>1, SlotsOfQueue DEF Completed
        <4> QED BY <4>2, SetOf
      <3> QED BY <3>1, <3>2, <3>3, OwnedParts
    <2>7. \A j \in 1..Jobs : filled[j] = 1
      <3>1. \A j \in 1..Jobs : j <= next BY <2>0, <2>5, Numbers
      <3> QED BY <2>6, <3>1 DEF ReaderInv, TakenInv
    <2> QED BY <2>3, <2>5, <2>6, <2>7
  <1> QED BY <1>1, ReaderInvariance, PTL
=============================================================================
