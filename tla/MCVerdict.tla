------------------------------ MODULE MCVerdict ------------------------------
(* Invocations of the checkers: every mode of gdncheck with at most one fault *)
(* of the bundle or of the implementation, pairs of small bundles, and cases. *)
EXTENDS Integers, Sequences, TLC

Linear == "linear_attention"
None == -1
NonFinite == 1000
Full == "full_attention"
Clean == [tool |-> "gdncheck", kinds |-> <<Linear, Full, Linear, Linear>>, only |-> None, chain |-> TRUE, model |-> TRUE,
          ssm_gain |-> 1, opens |-> TRUE, faults |-> <<>>, dev |-> <<>>, weights |-> {}, errs |-> {}, prompt |-> <<7>>,
          greedy |-> <<[argmax_token |-> 3, got |-> 3, readable |-> TRUE, logit_abs |-> 1],
                       [argmax_token |-> 4, got |-> 4, readable |-> TRUE, logit_abs |-> 0]>>,
          final_ids |-> <<7, 3, 4>>]
SomeNames == {<<"layer", 0, "out">>, <<"layer", 2, "in_proj_qkv">>, <<"layer", 1, "o_proj_in">>, <<"layer", 3, "out">>,
          <<"conv", 0, "conv_out">>, <<"conv", 1, "conv_in">>, <<"conv", 2, "conv_out">>, <<"delta", 1, "beta">>, <<"delta", 2, "delta_state">>,
          <<"model", 0, "embed_tokens">>, <<"model", 0, "norm">>, <<"model", 0, "rope">>}
Origins == {<<0, "conv_out">>, <<1, "o_proj">>, <<2, "delta_state">>, <<3, "out">>, <<-1, "embed_tokens">>, <<-1, "norm">>, <<-1, "lm_head">>}
Flags == {[Clean EXCEPT !.only = o, !.chain = c, !.model = m] : o \in {None, 0, 1, 2, 3, 4}, c \in BOOLEAN, m \in BOOLEAN}
Faulty(j) == {j, [j EXCEPT !.opens = FALSE]}
    \cup {[j EXCEPT !.faults = n :> f] : n \in SomeNames, f \in {"absent", "unreadable", "resized"}}
    \cup {[j EXCEPT !.dev = <<m, o>> :> d, !.ssm_gain = g] : m \in {"isolated", "chain", "model"}, o \in Origins, d \in {1, 2, 3}, g \in {0, 2}}
    \cup {[j EXCEPT !.dev = <<"rope", <<-1, "rope">>>> :> d] : d \in {1, 2}}
    \cup {[j EXCEPT !.weights = {l}] : l \in 0 .. 3} \cup {[j EXCEPT !.errs = {e}] : e \in {"model_weights", "forward", "greedy"}}
    \cup {[j EXCEPT !.greedy[k].got = 9] : k \in {1, 2}} \cup {[j EXCEPT !.greedy[2].logit_abs = 2, !.greedy[2].readable = r] : r \in BOOLEAN}
    \cup {[j EXCEPT !.final_ids = <<7, 3>>]}
T(n, g, r, d) == [name |-> n, group |-> g, read |-> r, data |-> d]
B(ts) == [schema |-> TRUE, tensors |-> ts, steps |-> <<[logits |-> "s0", argmax_token |-> 1]>>, final_ids |-> <<5, 1>>]
Ts == {T("a", "units", r, d) : r \in BOOLEAN, d \in {<<>>, <<0, 0>>, <<100, 50>>, <<100, 51>>, <<100, 60>>, <<100>>, <<100, NonFinite>>}}
Ss == {T("s0", "greedy", r, d) : r \in BOOLEAN, d \in {<<>>, <<1, 2>>, <<2, 2>>, <<NonFinite, 2>>}}
Bs == {B(<<t, s>>) : t \in Ts, s \in Ss}
Few == {B(<<T("a", "units", TRUE, <<100, 50>>), T("s0", "greedy", TRUE, <<1, 2>>)>>)}
Odd == {B(<<>>), B(<<T("a", "units", TRUE, <<100, 50>>), T("a", "units", TRUE, <<100, 50>>)>>),
       [B(<<T("a", "units", TRUE, <<100, 50>>)>>) EXCEPT !.schema = FALSE], [B(<<T("a", "units", TRUE, <<100, 50>>)>>) EXCEPT !.final_ids = <<5>>]}
Cmp(g, c, gr) == [tool |-> "compare", golden |-> g, cand |-> c, group |-> gr, max_rel |-> 1]
Tag == <<<<"B", 1>>, <<"H", 1>>, <<"T", 2>>, <<"K", 2>>, <<"V", 1>>>>
Case == [tag |-> Tag, operands |-> [q |-> 4, k |-> 4, v |-> 2, g |-> 2, beta |-> 2],
         results |-> [r \in {"recurrent", "chunked"} \X {"out", "state"} |-> 1]]
Cases == {Case, [Case EXCEPT !.operands = [q |-> 4, k |-> 4, v |-> 2, g |-> 2]], [Case EXCEPT !.operands.v = 3],
          [Case EXCEPT !.tag = <<<<"", 0>>, <<"X", 3>>>> \o Tag], [Case EXCEPT !.tag = Tag \o <<<<"T", 3>>>>],
          [Case EXCEPT !.tag = Tail(Tag)], [Case EXCEPT !.tag = <<<<"t", None>>>>]}
         \cup {[Case EXCEPT !.results[r] = 2] : r \in DOMAIN Case.results}
         \cup {[Case EXCEPT !.results = [x \in DOMAIN Case.results \ {r} |-> 0]] : r \in DOMAIN Case.results}
MCJobs == UNION {Faulty(j) : j \in Flags}
          \cup {Cmp(g, c, gr) : g \in Few, c \in Bs \cup Odd, gr \in {"all", "units"}} \cup {Cmp(g, c, "all") : g \in Bs \cup Odd, c \in Few}
          \cup {[tool |-> "selftest", golden |-> b] : b \in Bs \cup Odd}
          \cup {[tool |-> "deltacheck", opens |-> o, list |-> l, cases |-> cs] : o \in BOOLEAN, l \in BOOLEAN, cs \in {<<>>} \cup {<<c>> : c \in Cases} \cup {<<a, b>> : a \in Cases, b \in Cases}}
=============================================================================
