-------------------------------- MODULE MCFiles --------------------------------
(***************************************************************************)
(* The components that lay out and read checkpoints, in one run: a         *)
(* behaviour belongs to one of them, the variable part says to which, and  *)
(* the variables of the others keep their idle values.  The properties are *)
(* those of the modules.                                                   *)
(***************************************************************************)
EXTENDS ChunkLayout, ResidencyProbe, WeightLoading, ReadPlan, Verdict

VARIABLE part

layoutVars  == vars
filesVars == <<part, layoutVars, planVars, probeVars, weightVars, verdictVars>>

-----------------------------------------------------------------------------
(* Inputs of compute_layout: every way to fill one file or two with          *)
(* TensorCount tensors of a few sizes, the data of each file starting        *)
(* anywhere in Starts.                                                       *)
TensorCount == 5
Starts == {8, 11}

\* tensor_offsets of the tensors a..b of sizes s in file f, from start.
FileOffsets(f, start, s, a, b) ==
    LET begin[k \in 1..(b - a + 2)] == IF k = 1 THEN start ELSE begin[k - 1] + s[a + k - 2]
    IN  [k \in 1..(b - a + 2) |-> <<f, begin[k]>>]

OneFile(s) == {FileOffsets(0, start, s, 1, TensorCount) : start \in Starts}
TwoFiles(s) == {FileOffsets(0, st[1], s, 1, cut)
                   \o FileOffsets(1, st[2], s, cut + 1, TensorCount) :
                   st \in Starts \X Starts, cut \in 1..(TensorCount - 1)}

\* The frontend asks for a buffer of at least the largest tensor.
InputsOf(setup) ==
    UNION {{[world_size     |-> setup.world,
             chunk_size     |-> setup.chunk,
             io_depth       |-> 1,
             buffer_size    |-> Max({s[k] : k \in 1..TensorCount}) + extra,
             tensor_offsets |-> offs] :
                offs \in OneFile(s) \cup TwoFiles(s), extra \in setup.extra} :
           s \in [1..TensorCount -> setup.sizes]}

\* One rank whose chunk size init_buffer has to round, two ranks, and one rank with
\* chunks of one page.
MCSetups == {[world |-> 1, chunk |-> 7, sizes |-> {3, 10, 17}, extra |-> {0}],
             [world |-> 2, chunk |-> 4, sizes |-> {3, 10, 25}, extra |-> {5}],
             [world |-> 1, chunk |-> 4, sizes |-> {3, 10}, extra |-> {0}]}

MCInputs == UNION {InputsOf(setup) : setup \in MCSetups}

(* Checkpoints for the probe: files from less than a page to many windows,   *)
(* cold, warm at the start, or cached as a whole.                            *)
ProbeSizes == {0, 1, 2, 5, 11, 12, 20, 37, 41, 48, 80}
FileOf(size, cached, known) == [size |-> size, cached |-> cached, known |-> known]
MCProbed == UNION {{FileOf(s, {}, TRUE), FileOf(s, 0..1, TRUE), FileOf(s, 0..3, TRUE),
                    FileOf(s, 0..(s \div Page), TRUE), FileOf(s, {}, FALSE)} : s \in ProbeSizes}
MCCheckpoints == {<<>>} \cup {<<f>> : f \in MCProbed} \cup {<<f, g>> : f, g \in MCProbed}

PlanInputs == INSTANCE MCReadPlan
MCShards == PlanInputs!MCShards

WeightInputs == INSTANCE MCWeights
MCDirectories == WeightInputs!MCDirectories
MCConfigs == WeightInputs!MCConfigs
MCBundles == WeightInputs!MCBundles
MCRewrites == WeightInputs!MCRewrites

VerdictInputs == INSTANCE MCVerdict
MCJobs == VerdictInputs!MCJobs

ASSUME FilesAssumption == /\ AlignmentAssumption /\ InputsAssumption
                          /\ ProbeAssumption /\ OpenAssumption /\ WeightAssumption
                          /\ VerdictAssumption

-----------------------------------------------------------------------------
LayoutIdle == open_args = 0 /\ i = 0 /\ pc = "idle" /\ L = [bad |-> FALSE]
PlanIdle == /\ file_read = 0 /\ plan_pc = "idle" /\ at = 0 /\ tensors = 0 /\ ranges = 0 /\ off = 0 /\ jobs = 0
ProbeIdle == /\ files = 0 /\ threshold = 0 /\ stage = "idle" /\ offset = 0 /\ total = 0 /\ resident = 0
             /\ seen = {} /\ asked = {} /\ ratios = 0 /\ backends = "none"
LoadingIdle == /\ ostage = "idle" /\ disk = 0 /\ rewritten = 0 /\ shard = 0 /\ shards = 0 /\ index = 0 /\ bufs = 0
               /\ lstage = "idle" /\ config = 0 /\ sizes = 0 /\ weights = 0
CheckIdle == vstage = "idle" /\ job = 0 /\ cursor = 0 /\ any_failed = 0 /\ verdict = 0

FilesInit ==
        \/ part = "layout" /\ Init /\ PlanIdle /\ ProbeIdle /\ LoadingIdle /\ CheckIdle
        \/ part = "plan" /\ PlanInit /\ LayoutIdle /\ ProbeIdle /\ LoadingIdle /\ CheckIdle
        \/ part = "probe" /\ ProbeInit /\ LayoutIdle /\ PlanIdle /\ LoadingIdle /\ CheckIdle
        \/ part = "loading" /\ WeightInit /\ LayoutIdle /\ PlanIdle /\ ProbeIdle /\ CheckIdle
        \/ part = "check" /\ VerdictInit /\ LayoutIdle /\ PlanIdle /\ ProbeIdle /\ LoadingIdle

FilesNext ==
        /\ UNCHANGED part
        /\ \/ part = "layout" /\ Next /\ UNCHANGED <<planVars, probeVars, weightVars, verdictVars>>
           \/ part = "plan" /\ PlanNext /\ UNCHANGED <<layoutVars, probeVars, weightVars, verdictVars>>
           \/ part = "probe" /\ ProbeNext /\ UNCHANGED <<layoutVars, planVars, weightVars, verdictVars>>
           \/ part = "loading" /\ WeightNext /\ UNCHANGED <<layoutVars, planVars, probeVars, verdictVars>>
           \/ part = "check" /\ VerdictNext /\ UNCHANGED <<layoutVars, planVars, probeVars, weightVars>>

FilesSpec == FilesInit /\ [][FilesNext]_filesVars

=============================================================================
