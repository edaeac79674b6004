------------------------------- MODULE ReadPlan -------------------------------
(***************************************************************************)
(* stloader from a shard's header to the list of reads: read_header        *)
(* validates the entries one by one, plan_shard merges the tensors' block- *)
(* rounded ranges, and read_files cuts the ranges into jobs that fit a     *)
(* buffer.  One action is one iteration of the code's loops.               *)
(***************************************************************************)
EXTENDS Integers, Sequences, FiniteSets, SequencesExt, FiniteSetsExt

CONSTANTS
    MaxWord,        \* u64::MAX
    LengthBytes,    \* bytes of the header length at the start of a file
    MaxHeaderBytes, \* MAX_HEADER_BYTES
    Block,          \* block
    Shards          \* the files, with the parameters they are read with

\* The files fit in an off_t, far below u64::MAX; what a well-formed entry says is
\* unsigned.
ASSUME PlanAssumption ==
    /\ MaxWord \in Nat /\ Block \in Nat \ {0} /\ LengthBytes \in Nat
    /\ \A s \in Shards :
          /\ s.size \in Nat /\ s.size + 2 * Block <= MaxWord
          /\ s.header_len \in Nat /\ s.max_gap \in Nat /\ s.chunk_bytes \in Nat
          /\ s.entries \in Seq(ToSet(s.entries))
          /\ \A e \in ToSet(s.entries) : e.well_formed =>
                /\ e.start \in Nat /\ e.end \in Nat /\ e.itemsize \in Nat
                /\ e.shape \in Seq(Nat)

VARIABLES
    file_read,  \* the file: size, header_len, json, entries, and parameters
    plan_pc,    \* "header", "entry", "plan", "jobs", "done" or "rejected"
    at,         \* index of the loop that runs
    tensors,    \* TensorInfo records accepted so far
    ranges,     \* plan_shard's out
    off,        \* read_files' off: how far range `at` has been cut
    jobs        \* read_files' jobs

planVars == <<file_read, plan_pc, at, tensors, ranges, off, jobs>>

data_start == LengthBytes + file_read.header_len

PlanInit ==
    /\ file_read \in Shards
    /\ plan_pc = "header" /\ at = 1 /\ off = 0
    /\ tensors = <<>> /\ ranges = <<>> /\ jobs = <<>>

-----------------------------------------------------------------------------
(* read_header.                                                              *)

HeaderFits ==
    /\ file_read.size >= LengthBytes
    /\ file_read.header_len \in 1..MaxHeaderBytes
    /\ data_start <= file_read.size
    /\ file_read.json

ReadHeaderLength ==
    /\ plan_pc = "header"
    /\ plan_pc' = IF HeaderFits THEN "entry" ELSE "rejected"
    /\ UNCHANGED <<file_read, at, tensors, ranges, off, jobs>>

\* checked_mul, and shape_numel's product: an overflow on the way is an error
\* even when a later dimension is zero.
Overflow == -1
CheckedMul(a, b) ==
    IF a = Overflow \/ a * b > MaxWord THEN Overflow ELSE a * b

shape_numel(shape) ==
    LET n[k \in 0..Len(shape)] == IF k = 0 THEN 1 ELSE CheckedMul(n[k - 1], shape[k])
    IN  n[Len(shape)]

\* The entry has all its members with values of their type; offsets, shape and
\* dtype agree and lie in the file.
EntryValid(e) ==
    LET expected == CheckedMul(shape_numel(e.shape), e.itemsize)
    IN  /\ e.well_formed
        /\ e.start <= e.end
        /\ e.end <= file_read.size - data_start
        /\ shape_numel(e.shape) # Overflow /\ expected # Overflow
        /\ expected = e.end - e.start

ReadEntry ==
    /\ plan_pc = "entry" /\ at <= Len(file_read.entries)
    /\ LET e == file_read.entries[at] IN
          \/ /\ EntryValid(e)
             /\ tensors' = Append(tensors, e)
             /\ at' = at + 1 /\ UNCHANGED plan_pc
          \/ /\ ~EntryValid(e)
             /\ plan_pc' = "rejected" /\ UNCHANGED <<at, tensors>>
    /\ UNCHANGED <<file_read, ranges, off, jobs>>

\* sort_by_key(|t| (t.start, t.end)), which is stable.
Before(s, t) == s.start < t.start \/ (s.start = t.start /\ s.end < t.end)

Sorts(p) ==
    \A j, k \in DOMAIN tensors : j < k =>
        \/ Before(tensors[p[j]], tensors[p[k]])
        \/ ~Before(tensors[p[k]], tensors[p[j]]) /\ p[j] < p[k]

SortTensors ==
    /\ plan_pc = "entry" /\ at > Len(file_read.entries)
    /\ \E p \in Bijection(DOMAIN tensors, DOMAIN tensors) :
          Sorts(p) /\ tensors' = [k \in DOMAIN tensors |-> tensors[p[k]]]
    /\ plan_pc' = "plan" /\ at' = 1
    /\ UNCHANGED <<file_read, ranges, off, jobs>>

-----------------------------------------------------------------------------
(* plan_shard, or plan_shard_unmerged.                                       *)

FloorTo(x) == (x \div Block) * Block
\* saturating_mul
CeilTo(x)  == Min({MaxWord, ((x + Block - 1) \div Block) * Block})

\* The blocks of a tensor, cut at the end of the file's last block.
RangeOf(t) ==
    LET file_ceil == CeilTo(file_read.size)
        a0 == Min({file_ceil, FloorTo(data_start + t.start)})
        a1 == Min({file_ceil, CeilTo(data_start + t.end)})
    IN  [offset |-> a0, end |-> a1]

\* Mutant: the merged range ends where the tensor ends, though the one before
\* it may end later.
MergedTo(last, r) == [last EXCEPT !.end = r.end]

Merged(last, r) == [last EXCEPT !.end = Max({last.end, r.end})]

PlanTensor ==
    /\ plan_pc = "plan" /\ at <= Len(tensors)
    /\ LET t == tensors[at]
           r == RangeOf(t)
       IN  ranges' =
             IF t.start = t.end \/ r.end <= r.offset THEN ranges
             ELSE IF /\ file_read.merge /\ ranges # <<>>
                     /\ r.offset <= Last(ranges).end + file_read.max_gap
                  THEN Append(Front(ranges), Merged(Last(ranges), r))
                  ELSE Append(ranges, r)
    /\ at' = at + 1
    /\ UNCHANGED <<file_read, plan_pc, tensors, off, jobs>>

\* read_files refuses an empty range, and returns at once when there is nothing
\* to read.
EndPlan ==
    /\ plan_pc = "plan" /\ at > Len(tensors)
    /\ at' = 1
    /\ IF \E k \in DOMAIN ranges : ranges[k].end = ranges[k].offset
       THEN plan_pc' = "rejected" /\ UNCHANGED off
       ELSE IF ranges = <<>> THEN plan_pc' = "done" /\ UNCHANGED off
       ELSE plan_pc' = "jobs" /\ off' = ranges[1].offset
    /\ UNCHANGED <<file_read, tensors, ranges, jobs>>

-----------------------------------------------------------------------------
(* read_files cuts the ranges into jobs.                                     *)

\* The size of a buffer.
Chunk == CeilTo(Max({file_read.chunk_bytes, Block}))

CutJob ==
    /\ plan_pc = "jobs" /\ off < ranges[at].end
    /\ LET want == Min({Chunk, ranges[at].end - off})
       IN  /\ jobs' = Append(jobs, [range |-> at, offset |-> off,
                                    len |-> CeilTo(want)])
           /\ off' = off + want
    /\ UNCHANGED <<file_read, plan_pc, at, tensors, ranges>>

NextRange ==
    /\ plan_pc = "jobs" /\ off >= ranges[at].end
    /\ IF at = Len(ranges) THEN plan_pc' = "done" /\ UNCHANGED <<at, off>>
       ELSE at' = at + 1 /\ off' = ranges[at + 1].offset /\ UNCHANGED plan_pc
    /\ UNCHANGED <<file_read, tensors, ranges, jobs>>

PlanNext == ReadHeaderLength \/ ReadEntry \/ SortTensors \/ PlanTensor \/ EndPlan
            \/ CutJob \/ NextRange

PlanSpec == PlanInit /\ [][PlanNext]_planVars
-----------------------------------------------------------------------------
InHeader == ToSet(file_read.entries)

Product(shape) ==
    LET n[k \in 0..Len(shape)] == IF k = 0 THEN 1 ELSE n[k - 1] * shape[k]
    IN  n[Len(shape)]

\* "After a successful parse the following invariants hold, and plan/reader rely
\* on them": offsets inside the file and as many bytes as shape and dtype say,
\* computed without overflow.  No entry is lost, and they are in order.
HeaderSound ==
    plan_pc \in {"plan", "jobs", "done"} =>
        /\ ToSet(tensors) = InHeader
        /\ \A t \in InHeader :
              /\ t.start <= t.end /\ data_start + t.end <= file_read.size
              /\ t.end - t.start = Product(t.shape) * t.itemsize
        /\ \A j, k \in DOMAIN tensors : j < k => ~Before(tensors[k], tensors[j])

\* Blocks that hold bytes of some tensor, and blocks that are read.
BlocksWith(t) == ((data_start + t.start) \div Block)..((data_start + t.end - 1) \div Block)
Needed == UNION {BlocksWith(t) : t \in {e \in InHeader : e.start < e.end}}
BlocksOf(r) == (r.offset \div Block)..(r.end \div Block - 1)

\* Merging loses nothing and reads nothing twice: every block with tensor bytes
\* is in a range, ranges begin and end with such a block, skip no more than max_gap
\* bytes inside and more than max_gap between two of them.
PlanExact ==
    plan_pc \in {"jobs", "done"} /\ file_read.merge =>
        /\ Needed \subseteq UNION {BlocksOf(ranges[k]) : k \in DOMAIN ranges}
        /\ \A k \in DOMAIN ranges :
              LET r == ranges[k]
                  last == r.end \div Block - 1
              IN  /\ r.offset % Block = 0 /\ r.end % Block = 0 /\ r.offset < r.end
                  /\ {r.offset \div Block, last} \subseteq Needed
                  /\ \A b \in BlocksOf(r) \ {last} :
                        \E c \in Needed : b < c /\ (c - b - 1) * Block <= file_read.max_gap
                  /\ k > 1 => r.offset > ranges[k - 1].end + file_read.max_gap

\* The jobs go through the ranges in order and follow each other without gap or
\* overlap from the start of a range to its end, each aligned for O_DIRECT and no
\* longer than a buffer.
Begins(j, k) == j.range = k /\ j.offset = ranges[k].offset
JobsExact ==
    plan_pc = "done" =>
        /\ ranges = <<>> <=> jobs = <<>>
        /\ jobs # <<>> => Begins(jobs[1], 1)
        /\ \A n \in DOMAIN jobs :
              LET j == jobs[n]
                  end == j.offset + j.len
              IN  /\ j.offset % Block = 0 /\ j.len % Block = 0 /\ j.len \in 1..Chunk
                  /\ j.range \in DOMAIN ranges
                  /\ \/ end < ranges[j.range].end /\ n < Len(jobs)
                        /\ jobs[n + 1].range = j.range /\ jobs[n + 1].offset = end
                     \/ end = ranges[j.range].end /\ n < Len(jobs) /\ Begins(jobs[n + 1], j.range + 1)
                     \/ end = ranges[j.range].end /\ n = Len(jobs) /\ j.range = Len(ranges)

\* stloader (header.rs, plan.rs, reader.rs): what read_header accepts has as many
\* bytes inside the file as shape and dtype say; merging loses no block with
\* tensor bytes and reads none twice; and the jobs of a range tile it in aligned
\* pieces no longer than a buffer.
ReadsExact == HeaderSound /\ PlanExact /\ JobsExact
=============================================================================
