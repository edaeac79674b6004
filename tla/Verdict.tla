------------------------------- MODULE Verdict -------------------------------
(***************************************************************************)
(* The checkers of qwen35-forward: gdncheck (gdn/src/main.rs, with the     *)
(* capture names of gdn/src/loader.rs and the captures themselves of       *)
(* golden/gen_golden.py), bundlecmp (bundle/src) and deltacheck            *)
(* (delta/src/main.rs).  Each reads a golden bundle, compares what an      *)
(* implementation computed with it, and exits with a verdict.              *)
(*                                                                         *)
(* A tensor is abstracted to its origin, the layer and the part of the     *)
(* reference it was captured from, and a comparison to a deviation in      *)
(* units of the base tolerance TOL.  What the implementation under test    *)
(* computes is arbitrary: job.dev says where it deviates, and by how much. *)
(***************************************************************************)
EXTENDS Integers, Sequences, SequencesExt, FiniteSetsExt

CONSTANTS Jobs \* invocations: the tool, its flags, the bundles, what deviates

\* What the tools parse: a model has a layer, flags are set or not, deviations and
\* tensors are numbers.
VerdictAssumption ==
    \A j \in Jobs :
        /\ j.tool \in {"gdncheck", "compare", "selftest", "deltacheck"}
        /\ j.tool = "gdncheck" =>
              /\ j.kinds \in Seq(STRING) /\ j.kinds # <<>>
              /\ {j.opens, j.chain, j.model} \subseteq BOOLEAN
              /\ j.only = -1 \/ j.only \in Nat
              /\ j.errs \subseteq {"model_weights", "forward", "greedy"}
              /\ j.ssm_gain \in Int /\ \A d \in DOMAIN j.dev : j.dev[d] \in Int
              /\ j.greedy \in Seq(Range(j.greedy))
              /\ \A s \in Range(j.greedy) : s.readable \in BOOLEAN /\ s.logit_abs \in Nat
        /\ j.tool = "compare" =>
              /\ j.golden.tensors \in Seq(Range(j.golden.tensors))
              /\ j.cand.tensors \in Seq(Range(j.cand.tensors))
        /\ j.tool = "selftest" =>
              /\ j.golden.tensors \in Seq(Range(j.golden.tensors))
              /\ \A t \in Range(j.golden.tensors) : t.data \in Seq(Int)
        /\ j.tool = "deltacheck" =>
              /\ {j.opens, j.list} \subseteq BOOLEAN
              /\ j.cases \in Seq(Range(j.cases))

VARIABLES vstage, job, cursor, any_failed, verdict

verdictVars == <<vstage, job, cursor, any_failed, verdict>>

None == -1
Far == 1000     \* between tensors that have nothing to do with each other
Layers == 0 .. Len(job.kinds) - 1

-----------------------------------------------------------------------------
\* loader.rs: the names.  Parts are named per layer, the convolution and the
\* delta rule per call, i.e. by position among the linear layers.
is_linear(l) == job.kinds[l + 1] = "linear_attention"

\* Mutant: indexed by layer number.
OrdinalByLayer(l) == IF is_linear(l) THEN l ELSE None

ssm_ordinal(l) == IF is_linear(l) THEN Cardinality({k \in 0 .. l - 1 : is_linear(k)}) ELSE None

input_name(l) == IF l = 0 THEN <<"model", 0, "embed_tokens">> ELSE <<"layer", l - 1, "out">>

chain_layers == [k \in 1 .. Len(job.kinds) |-> k - 1]

conv(ssm, part) == IF ssm = None THEN <<>> ELSE <<"conv", ssm, part>>
delta(ssm, part) == IF ssm = None THEN <<>> ELSE <<"delta", ssm, part>>

MlpParts == {"post_attention_layernorm", "mlp_gate_proj", "mlp_up_proj", "mlp_swiglu", "mlp_down_proj",
             "mlp", "out"}
LinearParts == {"in_proj_qkv", "in_proj_z", "in_proj_b", "in_proj_a", "mixer_norm", "out_proj", "linear_attn"}
ConvParts == {"conv_in", "conv_out"}
DeltaParts == {"q", "k", "v", "g", "beta", "delta_out", "delta_state"}
FullParts == {"q_proj", "q_norm", "k_proj", "k_norm", "v_proj", "o_proj_in", "o_proj", "self_attn_out0"}

Named(l, parts) == {<<p, <<"layer", l, p>>>> : p \in parts}

\* The steps of verify_layer: a part of the layer and the name it is compared with.
LayerSteps(l) ==
    LET ssm == ssm_ordinal(l)
    IN  Named(l, {"input_layernorm"} \cup MlpParts)
        \cup IF is_linear(l)
             THEN Named(l, LinearParts) \cup {<<p, conv(ssm, p)>> : p \in ConvParts}
                                       \cup {<<p, delta(ssm, p)>> : p \in DeltaParts}
             ELSE Named(l, FullParts)

-----------------------------------------------------------------------------
\* gen_golden.py, one forward pass under its hooks: which layer and part a capture
\* came from.  ModuleSpy and DeltaOperandSpy count the calls, which the linear
\* layers make in the order of the layers.
NthLinear(k) == CHOOSE l \in Layers : is_linear(l) /\ Cardinality({j \in 0 .. l - 1 : is_linear(j)}) = k

\* HookRecorder names a module's output after the module, InputSpy and SwigluSpy
\* after the layer; the two spies name what a call takes and returns by its number.
Captures ==
    LET ks == 0 .. Cardinality({l \in Layers : is_linear(l)}) - 1
        per(l) == MlpParts \cup {"input_layernorm"} \cup IF is_linear(l) THEN LinearParts ELSE FullParts
    IN  (UNION {{"layer"} \X {l} \X per(l) : l \in Layers})
        \cup ({"conv"} \X ks \X ConvParts) \cup ({"delta"} \X ks \X DeltaParts)
        \cup ({"model"} \X {0} \X {"embed_tokens", "norm", "lm_head", "rope"})

Origin(name) == CASE name[1] = "layer" -> <<name[2], name[3]>>
                  [] name[1] = "model" -> <<None, name[3]>>
                  [] OTHER -> <<NthLinear(name[2]), name[3]>>

\* Bundle::read on a name: job.faults says which tensors are absent, not of the
\* size the manifest says, or recorded with another length.
Fault(name) == IF name \notin Captures THEN "absent"
               ELSE IF name \in DOMAIN job.faults THEN job.faults[name] ELSE "none"
Readable(name) == Fault(name) \in {"none", "resized"}

\* read_exact also wants the length.
reads_exact(name) == Fault(name) = "none"

-----------------------------------------------------------------------------
\* gdncheck.  tolerance_for: ssm_gain.max(1.0).
tolerance_for(ssm_gain) == Max({1, ssm_gain})
tol == tolerance_for(job.ssm_gain)

Dev(mode, origin) == IF <<mode, origin>> \in DOMAIN job.dev THEN job.dev[<<mode, origin>>] ELSE 0

\* max_abs_diff of what the layer computes and the golden tensor; nothing it
\* computes is right when it was fed another layer's input.
max_abs_diff(mode, mine, fed, name) ==
    IF fed /\ Origin(name) = mine THEN Dev(mode, mine) ELSE Far

\* Checker::step_opt and Checker::compare on one step: whether the check is ok.
step_opt(mode, l, fed, s) ==
    LET name == s[2]
    IN  name = <<>> \/ (reads_exact(name) /\ max_abs_diff(mode, <<l, s[1]>>, fed, name) <= tol)

failed(mode, l, fed) == {s \in LayerSteps(l) : ~step_opt(mode, l, fed, s)}

\* verify_layer: job.weights are the layers whose weights do not load; the forward
\* pass asserts the length of its input.
verify_layer(mode, l, input, sized) ==
    IF l \in job.weights THEN "error"
    ELSE IF ~sized THEN "panic"
    ELSE IF failed(mode, l, input = (IF l = 0 THEN <<None, "embed_tokens">> ELSE <<l - 1, "out">>)) # {}
         THEN "failed" ELSE "ok"

Exit(v) == /\ vstage' = "done" /\ verdict' = v /\ UNCHANGED <<job, cursor, any_failed>>

Go(stage) == /\ vstage' = stage /\ cursor' = 0 /\ UNCHANGED <<job, verdict>>

\* Bundle::open and load_model, and the rope tables; load_rope reads the tables
\* of the whole bundle with read_exact.
OpenGdn ==
    /\ vstage = "start" /\ job.tool = "gdncheck"
    /\ \/ ~job.opens /\ Exit("FAIL")
       \/ /\ job.opens
          /\ any_failed' = (reads_exact(<<"model", 0, "rope">>) /\ Dev("rope", <<None, "rope">>) > tol)
          /\ Go(IF job.only = None THEN "tables" ELSE "single")

\* One layer, every check printed; without --model the program ends here, with
\* SUCCESS even when the comparison of the rope tables set any_failed.
Single ==
    /\ vstage = "single"
    /\ LET l == job.only
           r == verify_layer("isolated", l, Origin(input_name(l)), reads_exact(input_name(l)))
       IN  IF l \notin Layers THEN Exit("usage")
           ELSE IF ~Readable(input_name(l)) \/ ~reads_exact(<<"model", 0, "rope">>) THEN Exit("FAIL")
           ELSE IF r # "ok" THEN Exit(IF r = "panic" THEN "panic" ELSE "FAIL")
           ELSE IF ~job.model THEN Exit("PASS")
           ELSE Go("tables") /\ UNCHANGED any_failed

Tables ==
    /\ vstage = "tables"
    /\ IF ~reads_exact(<<"model", 0, "rope">>) THEN Exit("FAIL")
       ELSE /\ Go(IF job.only = None THEN "isolated" ELSE "model") /\ UNCHANGED any_failed

\* Every layer on the golden input recorded for it.
Isolated ==
    /\ vstage = "isolated"
    /\ LET name == input_name(cursor)
           r == verify_layer("isolated", cursor, Origin(name), reads_exact(name))
       IN  IF cursor \notin Layers
           THEN /\ Go(IF job.chain THEN "chain" ELSE IF job.model THEN "model" ELSE "report")
                /\ UNCHANGED any_failed
           ELSE IF Readable(name) /\ r = "panic" THEN Exit("panic")
           ELSE /\ cursor' = cursor + 1 /\ any_failed' = (any_failed \/ ~Readable(name) \/ r # "ok")
                /\ UNCHANGED <<vstage, job, verdict>>

\* Every layer on the output of the one before it; the first error ends the chain.
Chain ==
    /\ vstage = "chain"
    /\ LET next == IF job.model THEN "model" ELSE "report"
           k == cursor + 1
           input == IF cursor = 0 THEN Origin(input_name(chain_layers[1])) ELSE <<chain_layers[cursor], "out">>
           first == input_name(chain_layers[1])
           r == verify_layer("chain", chain_layers[k], input, cursor > 0 \/ reads_exact(first))
       IN  IF cursor >= Len(chain_layers) THEN Go(next) /\ UNCHANGED any_failed
           ELSE IF (cursor = 0 /\ ~Readable(first)) \/ r = "error"
           THEN Go(next) /\ any_failed' = TRUE
           ELSE /\ cursor' = k /\ any_failed' = (any_failed \/ r # "ok")
                /\ UNCHANGED <<vstage, job, verdict>>

\* --model: the embedding, every layer's output, the final norm and the logits.
\* job.errs are the calls that return an error: load_model_weights, forward, greedy.
ModelSteps == {<<<<None, p>>, <<"model", 0, p>>>> : p \in {"embed_tokens", "norm", "lm_head"}}
              \cup {<<<<l, "out">>, <<"layer", l, "out">>>> : l \in Layers}

ModelOk(s) == reads_exact(s[2]) /\ max_abs_diff("model", s[1], TRUE, s[2]) <= tol

WholeModel ==
    /\ vstage = "model"
    /\ IF job.weights # {} \/ job.errs \cap {"model_weights", "forward"} # {} THEN Exit("FAIL")
       ELSE /\ any_failed' = (any_failed \/ \E s \in ModelSteps : ~ModelOk(s))
            /\ Go("greedy")

\* The greedy trace: job.greedy has one record per step of the manifest, with the
\* token and the logits' deviation the implementation produced.  Logits that
\* cannot be read are skipped, their token is not.
Greedy ==
    /\ vstage = "greedy"
    /\ LET steps == job.greedy
           token_ok == Cardinality({k \in DOMAIN steps : steps[k].got = steps[k].argmax_token})
           worst_logit == Max({0} \cup {steps[k].logit_abs : k \in {k \in DOMAIN steps : steps[k].readable}})
           mine_ids == job.prompt \o [k \in DOMAIN steps |-> steps[k].got]
       IN  IF "greedy" \in job.errs THEN Exit("FAIL")
           ELSE /\ any_failed' = (any_failed \/ token_ok # Len(steps) \/ worst_logit > tol \/ mine_ids # job.final_ids)
                /\ Go("report")

Report == vstage = "report" /\ Exit(IF any_failed THEN "FAIL" ELSE "PASS")

-----------------------------------------------------------------------------
\* bundlecmp.  A tensor is [name, group, read, data]; read is whether the file has
\* the bytes the manifest says, data a sequence of numbers, one of which may be
\* NonFinite.
NonFinite == 1000
AbsV(n) == IF n < 0 THEN -n ELSE n

\* Bundle::open: schema, byte order and dtype, and no name twice.
Opens(b) == b.schema /\ \A j, k \in DOMAIN b.tensors : b.tensors[j].name = b.tensors[k].name => j = k

Entry(b, name) == {t \in Range(b.tensors) : t.name = name}

\* diff: whether the relative error is at most max_rel percent.
diff(g, c, max_rel) ==
    LET worst == Max({0} \cup {AbsV(g[k] - c[k]) : k \in DOMAIN g \cap DOMAIN c})
        scale == Max({0} \cup {AbsV(g[k]) : k \in DOMAIN g})
    IN  /\ Len(g) = Len(c) /\ NonFinite \notin Range(g) \cup Range(c)
        /\ worst = 0 \/ (scale > 0 /\ 100 * worst <= max_rel * scale)

\* check_token_selfconsistency: the steps whose token is not the first largest logit.
argmax(data) == Min({k \in DOMAIN data : \A j \in DOMAIN data : data[j] <= data[k]}) - 1
check_token_selfconsistency(b) ==
    {k \in DOMAIN b.steps : \E t \in Entry(b, b.steps[k].logits) :
        t.read /\ t.data # <<>> /\ argmax(t.data) # b.steps[k].argmax_token}

diff_tokens(g, c) == g.final_ids = c.final_ids

\* cmd_compare, one tensor of the golden bundle after the other: any_failed stands
\* for a tensor missing or out of tolerance.  One that cannot be read is left out.
OpenCompare == /\ vstage = "start" /\ job.tool = "compare"
               /\ IF ~Opens(job.golden) \/ ~Opens(job.cand) THEN Exit("FAIL")
                  ELSE /\ Go("compare") /\ any_failed' = FALSE

Compare ==
    /\ vstage = "compare" /\ cursor < Len(job.golden.tensors)
    /\ LET e == job.golden.tensors[cursor + 1]
           found == Entry(job.cand, e.name)
       IN  any_failed' = (any_failed \/ (/\ job.group \in {"all", e.group}
                                         /\ \/ found = {}
                                            \/ \E c \in found : e.read /\ c.read /\ ~diff(e.data, c.data, job.max_rel)))
    /\ cursor' = cursor + 1 /\ UNCHANGED <<vstage, job, verdict>>

CompareResult ==
    /\ vstage = "compare" /\ cursor = Len(job.golden.tensors)
    /\ Exit(IF /\ ~any_failed /\ diff_tokens(job.golden, job.cand)
               /\ check_token_selfconsistency(job.golden) = {} /\ check_token_selfconsistency(job.cand) = {}
            THEN "PASS" ELSE "FAIL")

\* cmd_selftest: the first tensor that cannot be read ends it.
Selftest ==
    /\ vstage = "start" /\ job.tool = "selftest"
    /\ Exit(IF /\ Opens(job.golden)
               /\ \A k \in DOMAIN job.golden.tensors :
                      LET t == job.golden.tensors[k] IN t.read /\ diff(t.data, t.data, 0)
               /\ diff_tokens(job.golden, job.golden)
            THEN "PASS" ELSE "FAIL")

-----------------------------------------------------------------------------
\* deltacheck.  A tag is a sequence of <<key, number>>; the number is None when it
\* does not parse, the key "" in a part too short to have both.
Unparsed == <<>>
parse_tag(tag) ==
    LET parts == SelectSeq(tag, LAMBDA p : p[1] # "")
        of(key) == {k \in DOMAIN parts : parts[k][1] = key}
    IN  IF (\E k \in DOMAIN parts : parts[k][2] = None) \/ \E key \in {"B", "H", "T", "K", "V"} : of(key) = {}
        THEN Unparsed
        ELSE [key \in {"B", "H", "T", "K", "V"} |-> parts[Max(of(key))][2]]

\* discover: the per-layer captures are delta_ tensors too, and no cases.
discover == {k \in DOMAIN job.cases : parse_tag(job.cases[k].tag) # Unparsed}

\* One case: all five operands of the lengths the tag says, and both forms' output
\* and state readable and within TOL.
CaseOk(c) ==
    LET s == parse_tag(c.tag)
        rows == s.B * s.T * s.H
    IN  /\ \A op \in {"q", "k", "v", "g", "beta"} : op \in DOMAIN c.operands
        /\ c.operands.q = rows * s.K /\ c.operands.k = rows * s.K /\ c.operands.v = rows * s.V
        /\ c.operands.g = rows /\ c.operands.beta = rows
        /\ \A form \in {"recurrent", "chunked"} : \A out \in {"out", "state"} :
               <<form, out>> \in DOMAIN c.results /\ c.results[<<form, out>>] <= 1

OpenDelta == /\ vstage = "start" /\ job.tool = "deltacheck"
             /\ IF ~job.opens \/ discover = {} THEN Exit("FAIL")
                ELSE IF job.list THEN Exit("listed")
                ELSE Go("cases") /\ any_failed' = FALSE

\* The cases that are left, in the order of their tags.
Left == {k \in discover : cursor < k}

DeltaCase == /\ vstage = "cases"
             /\ \E k \in Left : /\ \A n \in Left : k <= n
                               /\ any_failed' = (any_failed \/ ~CaseOk(job.cases[k]))
                               /\ cursor' = k
             /\ UNCHANGED <<vstage, job, verdict>>

DeltaResult == vstage = "cases" /\ Left = {} /\ Exit(IF any_failed THEN "FAIL" ELSE "PASS")

-----------------------------------------------------------------------------
VerdictInit == vstage = "start" /\ job \in Jobs /\ cursor = 0 /\ any_failed = FALSE /\ verdict = "none"

VerdictNext == OpenGdn \/ Single \/ Tables \/ Isolated \/ Chain \/ WholeModel \/ Greedy \/ Report
               \/ OpenCompare \/ Compare \/ CompareResult \/ Selftest \/ OpenDelta \/ DeltaCase \/ DeltaResult

VerdictSpec == VerdictInit /\ [][VerdictNext]_verdictVars

-----------------------------------------------------------------------------
\* What an invocation of gdncheck is about: the captures of the layers it checks
\* hold the reference's tensors, and what was computed from the right input is
\* within the tolerance of them, whichever name they were captured under.
LayerDeserves(mode, l) ==
    /\ l \notin job.weights
    /\ \A n \in Captures : Origin(n)[1] = l => reads_exact(n) /\ Dev(mode, Origin(n)) <= tol

\* --layer N without --model is about the checks of layer N, and about nothing else:
\* the rope tables have to be read, but their comparison, made and printed before, is
\* not part of the verdict (main.rs:361, 409-411).
LayerOnly == job.only # None /\ ~job.model

GdnDeserves ==
    LET single == job.only # None
        fed(l) == reads_exact(input_name(l))
    IN  /\ job.opens /\ reads_exact(<<"model", 0, "rope">>)
        /\ LayerOnly \/ Dev("rope", <<None, "rope">>) <= tol
        /\ \A l \in IF single THEN {job.only} ELSE Layers : LayerDeserves("isolated", l) /\ fed(l)
        /\ (job.chain /\ ~single) => fed(0) /\ \A l \in Layers : LayerDeserves("chain", l)
        /\ job.model =>
            /\ job.weights = {} /\ job.errs = {}
            /\ \A p \in {"embed_tokens", "norm", "lm_head"} :
                   reads_exact(<<"model", 0, p>>) /\ Dev("model", <<None, p>>) <= tol
            /\ \A l \in Layers : reads_exact(<<"layer", l, "out">>) /\ Dev("model", <<l, "out">>) <= tol
            /\ \A k \in DOMAIN job.greedy : job.greedy[k].got = job.greedy[k].argmax_token
                                            /\ (job.greedy[k].readable => job.greedy[k].logit_abs <= tol)
            /\ job.final_ids = job.prompt \o [k \in DOMAIN job.greedy |-> job.greedy[k].argmax_token]

\* Every golden tensor asked for has a counterpart, equal to it within max_rel
\* wherever both files are whole; and the tokens are those the logits choose.
CompareDeserves ==
    LET g == job.golden
        c == job.cand
    IN  /\ Opens(g) /\ Opens(c) /\ g.final_ids = c.final_ids
        /\ \A t \in Range(g.tensors) : job.group \in {"all", t.group} =>
               \E u \in Range(c.tensors) : u.name = t.name /\ (t.read /\ u.read => diff(t.data, u.data, job.max_rel))
        /\ \A b \in {g, c} : check_token_selfconsistency(b) = {}

SelftestDeserves == /\ Opens(job.golden)
                    /\ \A t \in Range(job.golden.tensors) : t.read /\ NonFinite \notin Range(t.data)

DeltaDeserves == /\ job.opens /\ ~job.list
                 /\ \E c \in Range(job.cases) : parse_tag(c.tag) # Unparsed
                 /\ \A c \in Range(job.cases) : parse_tag(c.tag) # Unparsed => CaseOk(c)

\* A checker exits with PASS exactly when its invocation deserves it: no layer is
\* passed without all its checks or failed over another layer's tensor, an error of
\* any step or a case that cannot be read is no success, and no failed comparison is
\* forgotten by a later step, with one exception that is part of the statement:
\* --layer N alone passes whatever the rope tables compared to (LayerOnly).
VerdictExact ==
    vstage = "done" =>
        (verdict = "PASS" <=> CASE job.tool = "gdncheck"   -> (job.only = None \/ job.only \in Layers) /\ GdnDeserves
                                [] job.tool = "compare"    -> CompareDeserves
                                [] job.tool = "selftest"   -> SelftestDeserves
                                [] job.tool = "deltacheck" -> DeltaDeserves)
=============================================================================
