------------------------------ MODULE MCWeights ------------------------------
(* Checkpoint directories, settings and bundles for WeightLoading: one        *)
(* consistent model of three layers, and everything one step away from it.    *)
EXTENDS Integers, Sequences, SequencesExt, TLC

NoLayer == -1
Missing == -1
Linear == "linear_attention"
Full == "full_attention"
Sizes == [F32 |-> 4, F16 |-> 2, BF16 |-> 2]
Numel(shape) == FoldLeft(LAMBDA n, d : n * d, 1, shape)

P == "model.language_model."
MlpShapes == [input_layernorm |-> <<2>>, post_attention_layernorm |-> <<2>>,
              gate_proj |-> <<3, 2>>, up_proj |-> <<3, 2>>, down_proj |-> <<2, 3>>]
LinearShapes == MlpShapes @@ [in_proj_qkv |-> <<6, 2>>, in_proj_z |-> <<2, 2>>, in_proj_b |-> <<2, 2>>,
                 in_proj_a |-> <<2, 2>>, conv1d |-> <<6, 1, 2>>, A_log |-> <<2>>, dt_bias |-> <<2>>,
                 norm |-> <<1>>, out_proj |-> <<2, 2>>]
FullShapes == MlpShapes @@ [q_proj |-> <<8, 2>>, k_proj |-> <<2, 2>>, v_proj |-> <<2, 2>>, o_proj |-> <<2, 4>>,
               q_norm |-> <<2>>, k_norm |-> <<2>>]
LayersOf(l) == IF l = 1 THEN FullShapes ELSE LinearShapes
Base == (<<NoLayer, "embed_tokens">> :> <<3, 2>>) @@ (<<NoLayer, "norm">> :> <<2>>)
        @@ [n \in UNION {{<<l, p>> : p \in DOMAIN LayersOf(l)} : l \in 0 .. 2} |-> LayersOf(n[1])[n[2]]]

\* One tensor away from Base: transposed, longer, without axes, or absent.
Altered == {[Base EXCEPT ![n] = Reverse(@)] : n \in DOMAIN Base}
           \cup {[Base EXCEPT ![n] = <<@[1] + 1>> \o Tail(@)] : n \in DOMAIN Base}
           \cup {[Base EXCEPT ![n] = <<>>] : n \in DOMAIN Base}
           \cup {[m \in DOMAIN Base \ {n} |-> Base[m]] : n \in DOMAIN Base}
           \cup {Base @@ (<<NoLayer, "lm_head">> :> s) : s \in {<<3, 2>>, <<2, 2>>}}
           \cup {Base}

RECURSIVE Listed(_)
Listed(S) == IF S = {} THEN <<>> ELSE LET x == CHOOSE x \in S : TRUE IN <<x>> \o Listed(S \ {x})

\* A file that holds these tensors one after the other.
File(shapes, dtype) ==
    LET names == Listed(DOMAIN shapes)
        end[k \in 0 .. Len(names)] == IF k = 0 THEN 0 ELSE end[k - 1] + Sizes[dtype] * Numel(shapes[names[k]])
    IN  [size |-> 8 + 10 + end[Len(names)], header_len |-> 10, json_len |-> 7, json |-> TRUE,
         entries |-> [n \in DOMAIN shapes |->
            LET k == CHOOSE k \in 1 .. Len(names) : names[k] = n
            IN  [formed |-> TRUE, dtype |-> dtype, shape |-> shapes[n], from |-> end[k - 1], to |-> end[k]]]]

Named(shapes) == [n \in {<<P, m[1], m[2]>> : m \in DOMAIN shapes} |-> shapes[<<n[2], n[3]>>]]
Part(shapes, l) == [n \in {m \in DOMAIN shapes : (m[1] = 2) = l} |-> shapes[n]]

\* Small shards for the writer: one tensor, and what replaces it.
Tiny(shape, dtype, from, to, size, len) ==
    [size |-> size, header_len |-> len, json_len |-> len - 3, json |-> TRUE,
     entries |-> (<<P, 0, "x">> :> [formed |-> TRUE, dtype |-> dtype, shape |-> shape, from |-> from, to |-> to])]
Old == Tiny(<<2>>, "F32", 0, 8, 26, 10)
New == { Tiny(<<4>>, "F32", 0, 16, 34, 10), Tiny(<<1>>, "F32", 0, 4, 22, 10), Tiny(<<3>>, "F32", 0, 12, 32, 12),
         Tiny(<<4>>, "BF16", 0, 8, 26, 10), Tiny(<<2>>, "F32", 0, 8, 24, 8), Tiny(<<1>>, "F16", 4, 6, 26, 12),
         [Old EXCEPT !.size = 5, !.json = FALSE] }
Odd == { Tiny(<<64, 64>>, "F32", 0, 0, 26, 10), Tiny(<<2>>, "F64", 0, 16, 34, 10), Tiny(<<2>>, "F32", 8, 0, 26, 10),
         Tiny(<<2>>, "F32", 0, 8, 25, 10), Tiny(<<60, 60>>, "F32", 0, 8, 26, 10), [Old EXCEPT !.json = FALSE],
         Tiny(<<3>>, "F32", 0, 8, 26, 10) }
MCRewrites == {<<Old, f>> : f \in New}
MCOpenDirs == {<<>>, <<Old>>, <<Old, Old>>} \cup {<<f>> : f \in Odd \cup New}
MCDirectories == {<<File(Named(Part(s, FALSE)), "BF16"), File(Named(Part(s, TRUE)), "F32")>> : s \in Altered} \cup MCOpenDirs

Config == [qwen3_5 |-> TRUE, layer_types |-> <<Linear, Full, Linear>>, num_hidden_layers |-> 3,
           head_dim |-> 2, num_attention_heads |-> 2, num_key_value_heads |-> 1, linear_num_key_heads |-> 1,
           linear_num_value_heads |-> 2, linear_key_head_dim |-> 2, linear_value_head_dim |-> 1,
           partial_quarters |-> 4, tied |-> TRUE]
MCConfigs == {Config, [Config EXCEPT !.qwen3_5 = FALSE], [Config EXCEPT !.tied = FALSE], [Config EXCEPT !.partial_quarters = 2],
              [Config EXCEPT !.layer_types = <<Linear, Full>>], [Config EXCEPT !.layer_types = <<Linear, Full, Linear, Full>>],
              [Config EXCEPT !.layer_types = <<Linear, Linear, Linear>>], [Config EXCEPT !.layer_types = <<Full, Full, Linear>>],
              [Config EXCEPT !.layer_types = <<Linear, Full, "sliding">>], [Config EXCEPT !.num_hidden_layers = 2],
              [Config EXCEPT !.linear_num_key_heads = 2, !.linear_key_head_dim = 1],
              [Config EXCEPT !.linear_num_key_heads = 2], [Config EXCEPT !.linear_num_key_heads = 0],
              [Config EXCEPT !.num_attention_heads = 4, !.head_dim = 1],
              [Config EXCEPT !.num_key_value_heads = 2], [Config EXCEPT !.num_key_value_heads = 0],
              [Config EXCEPT !.head_dim = Missing], [Config EXCEPT !.linear_value_head_dim = 2]}

Captured == (<<NoLayer, "embed_out">> :> <<1, 4, 2>>) @@ (<<NoLayer, "lm_head">> :> <<3, 2>>)
            @@ (<<0, "delta_q">> :> <<1, 4, 2, 2>>) @@ (<<NoLayer, "rotary">> :> <<1, 4, 2>>)
            @@ [n \in {<<l, "output">> : l \in 0 .. 2} |-> <<1, 4, 2>>]
            @@ [n \in {<<l, "linear_attn">> : l \in {0, 2}} |-> <<1, 4, 2>>]
WithCaptures(s) == s @@ Captured
BundleOf(s, c) == [shapes |-> s, vocab_size |-> 3] @@ [f \in DOMAIN c \ {"qwen3_5", "tied", "num_hidden_layers"} |-> c[f]]
MCBundles == {BundleOf(WithCaptures(s), c) : s \in Altered, c \in MCConfigs}
             \cup {BundleOf([m \in DOMAIN WithCaptures(Base) \ {n} |-> WithCaptures(Base)[m]], c) : n \in DOMAIN Captured, c \in {Config}}
             \cup {BundleOf([WithCaptures(Base) EXCEPT ![<<0, "delta_q">>] = q], Config) : q \in {<<>>, <<1, 4, 2, 0>>, <<1, 4, 2, 3>>, <<1, 4, 2, 1>>}}
             \cup {[BundleOf(WithCaptures(s), Config) EXCEPT !.vocab_size = v] : s \in Altered, v \in {Missing, 4}}
             \cup {BundleOf([WithCaptures(Base) EXCEPT ![<<NoLayer, "rotary">>] = <<1, 4, 1>>], Config)}
=============================================================================
