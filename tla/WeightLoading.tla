---------------------------- MODULE WeightLoading ----------------------------
(***************************************************************************)
(* gdn: assembling a model for the forward pass, from a checkpoint         *)
(* (real.rs, over the shards SafeTensors has opened) or from a golden      *)
(* bundle (loader.rs).  Sizes are read off some tensors' shapes and some   *)
(* settings; every tensor is then required to have exactly so many         *)
(* elements.  A tensor is named by its prefix, layer and part.             *)
(***************************************************************************)
EXTENDS SafeTensors

CONSTANTS Configs, \* config.json of a checkpoint
          Bundles  \* bundles: the tensors' shapes and the settings

VARIABLES lstage,  \* "open", "load", "loaded", "refused" or "panic"
          config,  \* the settings
          sizes,   \* ModelConfig: what the kernels index with
          weights  \* the loaded tensors' lengths: <<layer, part>> -> length

weightVars == <<openVars, lstage, config, sizes, weights>>

NoLayer == -1      \* tensors outside the layers
Missing == -1      \* a setting that is not there
Linear == "linear_attention"
Full   == "full_attention"

\* Settings are unsigned or not there, shapes lists of unsigned numbers.
WeightAssumption ==
    /\ Word \in Nat \ {0}
    /\ \A c \in Configs :
          /\ c.layer_types \in Seq(STRING) /\ c.num_hidden_layers \in Nat
          /\ \A s \in {"head_dim", "num_attention_heads", "num_key_value_heads", "linear_num_key_heads",
                        "linear_num_value_heads", "linear_key_head_dim", "linear_value_head_dim"} :
                c[s] \in Nat \cup {Missing}
    /\ \A b \in Bundles :
          /\ \A n \in DOMAIN b.shapes : b.shapes[n] \in Seq(Nat)
          /\ \A s \in {"vocab_size", "head_dim", "num_attention_heads", "num_key_value_heads"} :
                b[s] \in Nat \cup {Missing}

\* Products of sizes wrap in a release build.
a ** b == (a * b) % Word

-----------------------------------------------------------------------------
\* What the checkpoint's index says.

Names == DOMAIN index
Shape(n) == index[n][2].shape
Length(n) == Numel(Shape(n))

\* detect_prefix: the one tensor that ends in embed_tokens.weight.
Embeddings == {n \in Names : n[3] = "embed_tokens"}
prefix == (CHOOSE n \in Embeddings : TRUE)[1]
T(layer, part) == <<prefix, layer, part>>

\* kind_of, with layers counted from 0.
kind_of(types, layer) == IF layer < Len(types) THEN types[layer + 1] ELSE "none"
FirstOf(types, n, kind) == {l \in 0 .. n - 1 : kind_of(types, l) = kind}

\* The shapes that sizes are read from, in the order of the code: a missing
\* tensor is an error, a shape without the axis an index out of range.
Probes(c) ==
    LET lin == Min(FirstOf(c.layer_types, c.num_hidden_layers, Linear))
        att == Min(FirstOf(c.layer_types, c.num_hidden_layers, Full))
    IN  << <<T(0, "gate_proj"), 1>>, <<T(lin, "in_proj_qkv"), 1>>, <<T(lin, "in_proj_z"), 1>>,
           <<T(lin, "in_proj_b"), 1>>, <<T(lin, "norm"), 1>>, <<T(lin, "conv1d"), 1>>,
           <<T(att, "q_proj"), 1>>, <<T(att, "k_proj"), 1>>, <<T(att, "o_proj"), 2>> >>
FirstBad(outcomes) == LET bad == SelectSeq(outcomes, LAMBDA o : o # "ok") IN IF bad = <<>> THEN "ok" ELSE Head(bad)
ProbeOutcome(p) == CASE p[1] \notin Names        -> "refused"
                     [] p[1] \in Names /\ Len(Shape(p[1])) < p[2]
                                               -> IF p[1][3] = "conv1d" THEN "refused" ELSE "panic"
                     [] OTHER                  -> "ok"
ProbesOutcome(ps) == FirstBad([k \in DOMAIN ps |-> ProbeOutcome(ps[k])])

\* cfg_usize.
SettingsOutcome(c, keys) == IF \E s \in keys : c[s] = Missing THEN "refused" ELSE "ok"

Axis(p) == Shape(p[1])[p[2]]

\* The sizes, before anything is checked.
Derived(c) ==
    LET p == Probes(c)
        emb == Shape(T(NoLayer, "embed_tokens"))
    IN  [vocab |-> emb[1], hidden |-> emb[2], intermediate |-> Axis(p[1]),
         conv_dim |-> Axis(p[2]), value_dim |-> Axis(p[3]), num_v_heads |-> Axis(p[4]),
         head_v_dim |-> Axis(p[5]), conv_kernel |-> Last(Shape(p[6][1])),
         q_out |-> Axis(p[7]), kv_out |-> Axis(p[8]), o_in |-> Axis(p[9]), o_out |-> Shape(p[9][1])[1],
         key_dim |-> (Axis(p[2]) - Axis(p[3])) \div 2]

\* Mutant: the keys' heads are taken from the settings unchecked.
ChecksNoKeyDim(c, d) ==
    /\ c.linear_num_value_heads = d.num_v_heads /\ c.linear_value_head_dim = d.head_v_dim
    /\ c.linear_num_value_heads ** c.linear_value_head_dim = d.value_dim
    /\ (2 * d.key_dim + d.value_dim) % Word = d.conv_dim
    /\ (c.num_attention_heads ** c.head_dim) ** 2 = d.q_out
    /\ c.num_key_value_heads ** c.head_dim = d.kv_out
    /\ c.num_attention_heads % c.num_key_value_heads = 0
    /\ d.num_v_heads % c.linear_num_key_heads = 0
    /\ d.o_in = c.num_attention_heads ** c.head_dim /\ d.o_out = d.hidden
\* The cross-checks between settings and shapes.
CrossChecks(c, d) ==
    /\ c.linear_num_value_heads = d.num_v_heads /\ c.linear_value_head_dim = d.head_v_dim
    /\ c.linear_num_key_heads ** c.linear_key_head_dim = d.key_dim
    /\ c.linear_num_value_heads ** c.linear_value_head_dim = d.value_dim
    /\ (2 * d.key_dim + d.value_dim) % Word = d.conv_dim
    /\ (c.num_attention_heads ** c.head_dim) ** 2 = d.q_out
    /\ c.num_key_value_heads ** c.head_dim = d.kv_out
    /\ c.num_attention_heads % c.num_key_value_heads = 0
    /\ d.num_v_heads % c.linear_num_key_heads = 0
    /\ d.o_in = c.num_attention_heads ** c.head_dim /\ d.o_out = d.hidden

\* head_dim * partial_rotary_factor, the factor in quarters.
rotary_dim(c) == (c.head_dim * c.partial_quarters) \div 4
RotaryOk(rotary, head_dim) == rotary # 0 /\ rotary <= head_dim /\ rotary % 2 = 0

\* The head: a tensor of its own inside or outside the prefix, or the embeddings.
LmHead(c) == CASE T(NoLayer, "lm_head") \in Names -> T(NoLayer, "lm_head")
               [] T(NoLayer, "lm_head") \notin Names /\ <<"", NoLayer, "lm_head">> \in Names
                    -> <<"", NoLayer, "lm_head">>
               [] OTHER -> T(NoLayer, "embed_tokens")
HeadMissing(c) == /\ ~c.tied
                  /\ {T(NoLayer, "lm_head"), <<"", NoLayer, "lm_head">>} \cap Names = {}

\* GdnConfig and AttnConfig: the dimensions they derive.
key_dim(z)    == z.head_k_dim ** z.num_k_heads
value_dim(z)  == z.head_v_dim ** z.num_v_heads
conv_dim(z)   == (2 * key_dim(z) + value_dim(z)) % Word
q_out_dim(z)  == (z.num_heads ** z.head_dim) ** 2
kv_out_dim(z) == z.num_kv_heads ** z.head_dim

Sizing(c, d) ==
    [vocab |-> d.vocab, hidden |-> d.hidden, intermediate |-> d.intermediate,
     num_k_heads |-> c.linear_num_key_heads, num_v_heads |-> d.num_v_heads,
     head_k_dim |-> c.linear_key_head_dim, head_v_dim |-> d.head_v_dim, conv_kernel |-> d.conv_kernel,
     num_heads |-> c.num_attention_heads, num_kv_heads |-> c.num_key_value_heads,
     head_dim |-> c.head_dim, rotary_dim |-> rotary_dim(c),
     kinds |-> SubSeq(c.layer_types, 1, c.num_hidden_layers)]

\* The tensors of a layer.
BlockParts  == {"input_layernorm", "post_attention_layernorm", "gate_proj", "up_proj", "down_proj"}
LinearAttnParts == {"in_proj_qkv", "in_proj_z", "in_proj_b", "in_proj_a", "conv1d", "A_log", "dt_bias",
                    "norm", "out_proj"}
SelfAttnParts == {"q_proj", "k_proj", "v_proj", "o_proj", "q_norm", "k_norm"}
LayerParts(kind) == BlockParts \cup IF kind = Linear THEN LinearAttnParts ELSE SelfAttnParts
ModelParts == {"embed_tokens", "lm_head", "norm"}
LayerKeys(types, n) == UNION {{<<l, p>> : p \in LayerParts(kind_of(types, l))} : l \in 0 .. n - 1}
Keys(types, n) == ({NoLayer} \X ModelParts) \cup LayerKeys(types, n)

\* The length asked of a tensor, for the dimensions d and the attention's heads.
Want(d, num_heads, head_dim, key) ==
    LET p == key[2]
    IN  CASE p \in {"embed_tokens", "lm_head"} -> d.vocab ** d.hidden
          [] p \in {"input_layernorm", "post_attention_layernorm"} -> d.hidden
          [] p \in {"gate_proj", "up_proj"} -> d.intermediate ** d.hidden
          [] p = "down_proj" -> d.hidden ** d.intermediate
          [] p = "in_proj_qkv" -> d.conv_dim ** d.hidden
          [] p = "in_proj_z" -> d.value_dim ** d.hidden
          [] p \in {"in_proj_b", "in_proj_a"} -> d.num_v_heads ** d.hidden
          [] p = "conv1d" -> d.conv_dim ** d.conv_kernel
          [] p \in {"A_log", "dt_bias"} -> d.num_v_heads
          [] p = "norm" -> IF key[1] = NoLayer THEN d.hidden ELSE d.head_v_dim
          [] p = "out_proj" -> d.hidden ** d.value_dim
          [] p = "q_proj" -> d.q_out ** d.hidden
          [] p \in {"k_proj", "v_proj"} -> d.kv_out ** d.hidden
          [] p = "o_proj" -> (d.hidden ** num_heads) ** head_dim
          [] p \in {"q_norm", "k_norm"} -> head_dim

\* want: load asks with the sizes the shapes gave.
RealWant(c, d, key) == Want(d, c.num_attention_heads, c.head_dim, key)

\* The tensor each place of the model is filled from.
Source(c, key) == IF key = <<NoLayer, "lm_head">> THEN LmHead(c) ELSE T(key[1], key[2])

Refuse(how) == lstage' = how /\ UNCHANGED <<sizes, weights>>

\* Reading the sizes, in the order of the code: `%` by a setting that is zero
\* panics.
SizesOutcome(c) ==
    LET p == Probes(c)
        underflow == ProbesOutcome(SubSeq(p, 2, 3)) = "ok" /\ Axis(p[2]) < Axis(p[3])
    IN  FirstBad(<< ProbesOutcome(SubSeq(p, 1, 6)),
                    SettingsOutcome(c, {"head_dim", "num_attention_heads", "num_key_value_heads"}),
                    ProbesOutcome(SubSeq(p, 7, 8)),
                    IF underflow THEN "refused" ELSE "ok",
                    SettingsOutcome(c, {"linear_num_key_heads", "linear_num_value_heads",
                                        "linear_key_head_dim", "linear_value_head_dim"}),
                    IF 0 \in {c.num_key_value_heads, c.linear_num_key_heads} THEN "panic" ELSE "ok",
                    ProbeOutcome(p[9]) >>)

\* load.  c.qwen3_5: config.json can be read, has this model type and an epsilon.
LoadReal ==
    /\ lstage = "open" /\ ostage \in {"opened", "failed"}
    /\ LET c == config
           kinds == {kind_of(c.layer_types, l) : l \in 0 .. c.num_hidden_layers - 1}
           emb == T(NoLayer, "embed_tokens")
       IN  IF \/ ostage = "failed" \/ ~c.qwen3_5 \/ Cardinality(Embeddings) # 1
              \/ c.layer_types = <<>> \/ Len(c.layer_types) < c.num_hidden_layers
              \/ Len(Shape(emb)) # 2 \/ ~({Linear, Full} \subseteq kinds)
           THEN Refuse("refused")
           ELSE IF SizesOutcome(c) # "ok" THEN Refuse(IF SizesOutcome(c) = "panic" THEN "panic" ELSE "refused")
           ELSE LET d == Derived(c)
                    keys == Keys(c.layer_types, c.num_hidden_layers)
                IN  IF \/ ~CrossChecks(c, d) \/ ~RotaryOk(rotary_dim(c), c.head_dim)
                       \/ HeadMissing(c) \/ ~(kinds \subseteq {Linear, Full})
                       \/ \E key \in keys : \/ Source(c, key) \notin Names
                                            \/ Length(Source(c, key)) # RealWant(c, d, key)
                    THEN Refuse("refused")
                    ELSE /\ lstage' = "loaded" /\ sizes' = Sizing(c, d)
                         /\ weights' = [key \in keys |-> Length(Source(c, key))]
    /\ UNCHANGED <<openVars, config>>

-----------------------------------------------------------------------------
\* loader.rs: the same from a bundle.  `config` is the bundle.

Has(n) == n \in DOMAIN config.shapes
FirstAxis(n) == IF config.shapes[n] = <<>> THEN 0 ELSE Head(config.shapes[n])

\* The layers whose outputs were captured.
BundleLayers == {n[1] : n \in {m \in DOMAIN config.shapes : m[2] = "output"}}
NumLayers == 1 + CHOOSE l \in BundleLayers : \A k \in BundleLayers : k <= l

\* layer_types: the config's when it has enough of them, otherwise by which
\* module each layer has.
BundleKinds ==
    IF Len(config.layer_types) >= NumLayers THEN SubSeq(config.layer_types, 1, NumLayers)
    ELSE [l \in 1 .. NumLayers |-> IF Has(<<l - 1, "linear_attn">>) THEN Linear ELSE Full]

\* The vocabulary: the config's, or the rows of the embedding.
VocabUnknown == LET emb == <<NoLayer, "embed_tokens">>
                IN  config.vocab_size = Missing /\ (~Has(emb) \/ config.shapes[emb] = <<>>)

\* load_model: where each size comes from.
BundleSizing ==
    LET f == Min(FirstOf(BundleKinds, NumLayers, Linear))
        conv == FirstAxis(<<f, "in_proj_qkv">>)
        value == FirstAxis(<<f, "in_proj_z">>)
        head_k_dim == Last(config.shapes[<<0, "delta_q">>])
        keys == IF conv < value THEN 0 ELSE (conv - value) \div 2
    IN  [vocab |-> IF config.vocab_size = Missing THEN FirstAxis(<<NoLayer, "embed_tokens">>) ELSE config.vocab_size,
         hidden |-> FirstAxis(<<0, "input_layernorm">>),
         intermediate |-> FirstAxis(<<0, "gate_proj">>),
         num_k_heads |-> IF head_k_dim = 0 THEN 0 ELSE keys \div head_k_dim,
         num_v_heads |-> FirstAxis(<<f, "in_proj_b">>),
         head_k_dim |-> head_k_dim, head_v_dim |-> FirstAxis(<<f, "norm">>),
         conv_kernel |-> Last(config.shapes[<<f, "conv1d">>]),
         num_heads |-> config.num_attention_heads, num_kv_heads |-> config.num_key_value_heads,
         head_dim |-> config.head_dim,
         rotary_dim |-> IF Has(<<NoLayer, "rotary">>) THEN Last(config.shapes[<<NoLayer, "rotary">>])
                        ELSE rotary_dim(config),
         kinds |-> BundleKinds,
         conv_dim |-> conv, value_dim |-> value, key_dim |-> keys]

BundleProbes == LET f == Min(FirstOf(BundleKinds, NumLayers, Linear))
                IN  {<<f, p>> : p \in {"in_proj_qkv", "in_proj_z", "in_proj_b", "norm", "conv1d"}}
                    \cup {<<0, "delta_q">>, <<0, "input_layernorm">>, <<0, "gate_proj">>}

DimsConsistent(z) ==
    /\ z.hidden > 0 /\ z.intermediate > 0
    /\ z.head_k_dim # 0 /\ z.num_k_heads # 0
    /\ z.key_dim = z.num_k_heads ** z.head_k_dim
    /\ z.conv_dim = (2 * z.key_dim + z.value_dim) % Word
    /\ z.value_dim = z.num_v_heads ** z.head_v_dim
    /\ z.num_v_heads % z.num_k_heads = 0

\* read_exact: what load_layer_weights, load_gdn_weights and load_attn_weights
\* ask for, from the configs' own dimensions.
BundleWant(z, key) ==
    Want([vocab |-> z.vocab, hidden |-> z.hidden, intermediate |-> z.intermediate,
          conv_dim |-> conv_dim(z), value_dim |-> value_dim(z), num_v_heads |-> z.num_v_heads,
          head_v_dim |-> z.head_v_dim, conv_kernel |-> z.conv_kernel,
          q_out |-> q_out_dim(z), kv_out |-> kv_out_dim(z)], z.num_heads, z.head_dim, key)

LoadBundle ==
    /\ lstage = "bundle"
    /\ IF \/ ~Has(<<NoLayer, "embed_out">>) \/ BundleLayers = {}
       THEN Refuse("refused")
       ELSE IF \/ Len(config.shapes[<<NoLayer, "embed_out">>]) # 3
               \/ FirstOf(BundleKinds, NumLayers, Linear) = {}
       THEN Refuse("refused")
       ELSE IF \/ \E n \in BundleProbes : ~Has(n)
               \/ \E n \in BundleProbes : n[2] \in {"conv1d", "delta_q"} /\ config.shapes[n] = <<>>
               \/ VocabUnknown
               \/ \E s \in {"head_dim", "num_attention_heads", "num_key_value_heads"} : config[s] = Missing
       THEN Refuse("refused")
       ELSE LET z == BundleSizing
                keys == Keys(z.kinds, Len(z.kinds))
            IN  IF ~DimsConsistent(z) \/ ~RotaryOk(z.rotary_dim, z.head_dim) THEN Refuse("refused")
                ELSE IF z.num_kv_heads = 0 THEN Refuse("panic")
                ELSE IF \/ z.num_heads % z.num_kv_heads # 0
                        \/ \E n \in keys : ~Has(n) \/ Numel(config.shapes[n]) # BundleWant(z, n)
                THEN Refuse("refused")
                ELSE /\ lstage' = "loaded" /\ sizes' = z
                     /\ weights' = [n \in keys |-> Numel(config.shapes[n])]
    /\ UNCHANGED <<openVars, config>>

-----------------------------------------------------------------------------
WeightInit ==
    /\ sizes = <<>> /\ weights = <<>>
    /\ \/ lstage = "open" /\ OpenInit /\ config \in Configs
       \/ /\ lstage = "bundle" /\ config \in Bundles
          /\ ostage = "failed" /\ disk = <<>> /\ rewritten = FALSE
          /\ shard = NoShard /\ shards = <<>> /\ index = <<>> /\ bufs = <<>>

WeightNext == \/ lstage = "open" /\ OpenNext /\ UNCHANGED <<lstage, config, sizes, weights>>
              \/ LoadReal \/ LoadBundle

WeightSpec == WeightInit /\ [][WeightNext]_weightVars

-----------------------------------------------------------------------------
\* What the kernels assert about a layer's tensors (linear, conv_forward,
\* rms_norm, attention), for the dimensions of GdnConfig and AttnConfig.
KernelSize(z, layer, part) ==
    CASE part \in {"input_layernorm", "post_attention_layernorm"} -> z.hidden
      [] part \in {"gate_proj", "up_proj"} -> z.intermediate ** z.hidden
      [] part = "down_proj" -> z.hidden ** z.intermediate
      [] part = "in_proj_qkv" -> conv_dim(z) ** z.hidden
      [] part = "in_proj_z" -> value_dim(z) ** z.hidden
      [] part = "out_proj" -> z.hidden ** value_dim(z)
      [] part \in {"in_proj_a", "in_proj_b"} -> z.num_v_heads ** z.hidden
      [] part = "conv1d" -> conv_dim(z) ** z.conv_kernel
      [] part \in {"A_log", "dt_bias"} -> z.num_v_heads
      [] part = "norm" -> IF layer = NoLayer THEN z.hidden ELSE z.head_v_dim
      [] part = "q_proj" -> q_out_dim(z) ** z.hidden
      [] part \in {"k_proj", "v_proj"} -> kv_out_dim(z) ** z.hidden
      [] part = "o_proj" -> z.hidden ** (z.num_heads ** z.head_dim)
      [] part \in {"q_norm", "k_norm"} -> z.head_dim
      [] part \in {"embed_tokens", "lm_head"} -> z.vocab ** z.hidden

\* A model that loads, from either source, satisfies every size assertion the
\* forward pass makes: each layer has the tensors of its kind in exactly the
\* lengths the kernels index with, although the sizes were read off one layer and
\* the heads off the settings, and the grouped heads divide evenly.
LoadedFits ==
    lstage = "loaded" =>
        /\ \A l \in 0 .. Len(sizes.kinds) - 1 : \A p \in LayerParts(kind_of(sizes.kinds, l)) :
               /\ <<l, p>> \in DOMAIN weights
               /\ weights[<<l, p>>] = KernelSize(sizes, l, p)
        /\ \A p \in {"embed_tokens", "lm_head", "norm"} :
               weights[<<NoLayer, p>>] = KernelSize(sizes, NoLayer, p)
        /\ sizes.num_v_heads % sizes.num_k_heads = 0 /\ sizes.num_heads % sizes.num_kv_heads = 0
        /\ RotaryOk(sizes.rotary_dim, sizes.head_dim)
=============================================================================
