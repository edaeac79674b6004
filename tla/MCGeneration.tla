---------------------------- MODULE MCGeneration ----------------------------
(* Sampler configurations, prompts and logits. *)
EXTENDS Sampler

Tokens == 0 .. 3

MCLogits == [Tokens -> {-2, 0, 2}]

Sampling == [Default EXCEPT !.temperature = 1]

MCConfigs ==
    {Default, Sampling, [Sampling EXCEPT !.temperature = 2],
     [Sampling EXCEPT !.no_repeat_ngram_size = 1], [Sampling EXCEPT !.top_p = Unit + 1],
     [Sampling EXCEPT !.no_repeat_ngram_size = 2], [Sampling EXCEPT !.no_repeat_ngram_size = 3, !.top_k = 3],
     [Sampling EXCEPT !.top_p = 0], [Sampling EXCEPT !.min_p = Unit],
     [Sampling EXCEPT !.repetition_penalty = 2, !.top_p = 3],
     [Sampling EXCEPT !.presence_penalty = 1, !.frequency_penalty = 1, !.typical_p = 1],
     [Sampling EXCEPT !.top_k = 2, !.top_p = 2, !.min_p = 2, !.typical_p = 2, !.no_repeat_ngram_size = 2]}

MCPrompts == {<<0, 1, 0>>, <<2, 2, 1>>, <<5, 3>>}

=============================================================================
