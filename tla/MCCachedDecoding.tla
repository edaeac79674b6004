-------------------------- MODULE MCCachedDecoding --------------------------
(* A model of three layers over the residues modulo P, and prompts for it. *)
EXTENDS Integers, Sequences

CONSTANT P

\* Arbitrary but fixed weights: n residues that differ by tag and place.
Some(tag, n) == [i \in 1 .. n |-> (i * i * 3 + i * (tag + 2) + tag * 5 + 1) % P] \o <<>>

MCConfig ==
    [vocab |-> 3, hidden |-> 2,
     gdn  |-> [hidden |-> 2, num_k_heads |-> 2, num_v_heads |-> 4, head_k_dim |-> 2, head_v_dim |-> 1, conv_kernel |-> 3],
     attn |-> [hidden |-> 2, num_heads |-> 4, num_kv_heads |-> 2, head_dim |-> 3, rotary_dim |-> 2]]

Layer(kind, tag) ==
    [kind |-> kind,
     input_layernorm |-> Some(tag, 2), post_attention_layernorm |-> Some(tag + 1, 2),
     mlp |-> [gate_proj |-> Some(tag + 2, 6), up_proj |-> Some(tag + 3, 6), down_proj |-> Some(tag + 4, 6)],
     gdn |-> [in_proj_qkv |-> Some(tag, 24), in_proj_z |-> Some(tag + 1, 8), in_proj_b |-> Some(tag + 2, 8),
              in_proj_a |-> Some(tag + 3, 8), conv1d |-> Some(tag + 4, 36), a_log |-> Some(tag + 5, 4),
              dt_bias |-> Some(tag + 6, 4), norm |-> Some(tag + 7, 1), out_proj |-> Some(tag + 8, 8)],
     attn |-> [q_proj |-> Some(tag, 48), k_proj |-> Some(tag + 1, 12), v_proj |-> Some(tag + 2, 12),
               o_proj |-> Some(tag + 3, 24), q_norm |-> Some(tag + 4, 3), k_norm |-> Some(tag + 5, 3)]]

MCWeights ==
    [embed_tokens |-> Some(1, 6), final_norm |-> Some(2, 2), lm_head |-> Some(3, 6),
     layers |-> <<Layer("linear", 1), Layer("full", 4), Layer("linear", 7)>>]

MCPrompts == UNION {[1 .. n -> 0 .. 2] : n \in 1 .. 3} \cup {<<0, 1, 2, 0>>, <<2, 2, 1, 0>>, <<1, 3, 0>>}

=============================================================================
