--------------------------- MODULE CachedDecoding ---------------------------
(***************************************************************************)
(* The model of gdn/src/model.rs: embedding, decoder stack and head, and   *)
(* greedy decoding with a cache that is carried from chunk to chunk.       *)
(***************************************************************************)
EXTENDS Kernels, FiniteSets

CONSTANTS Config,    \* vocab, hidden, gdn and attn
          Weights,   \* embed_tokens, final_norm, lm_head, layers
          Prompts,   \* token sequences, possibly with ids the vocabulary lacks
          Steps,     \* bound: tokens to generate
          Stop,      \* stop tokens
          Hardware   \* what available_parallelism may report

VARIABLES hw, prompt, cache, logits, fed, generated, status

vars == <<hw, prompt, cache, logits, fed, generated, status>>

Layers == Len(Weights.layers)

-----------------------------------------------------------------------------

embed(tokens) ==
    Concat(Len(tokens), LAMBDA i : Slice(Weights.embed_tokens, At(tokens, i) * Config.hidden, Config.hidden))

\* Final norm and head; decoding reads the last position.
LastLogits(h, t, n) ==
    LET norm == rmsnorm_1plus(Weights.final_norm, h, t, Config.hidden)
    IN  Slice(linear(Weights.lm_head, norm, t, Config.hidden, Config.vocab, n),
              (t - 1) * Config.vocab, Config.vocab)

AfterLayer(prev, tr) == [h |-> tr.out, states |-> Append(prev.states, tr.state)]

NextLayer(prev, lw, t, rope, state, n) ==
    AfterLayer(prev, LayerForward(Config, lw, prev.h, 1, t, rope, state, n))

\* The stack over one chunk: layer i continues from states[i].
Stack(tokens, states, start, n) ==
    LET t    == Len(tokens)
        rope == build_rope(Config.attn, t, start)
        run[i \in 0 .. Layers] ==
            IF i = 0 THEN [h |-> embed(tokens), states |-> <<>>]
            ELSE NextLayer(run[i - 1], Weights.layers[i], t, rope, states[i], n)
    IN  run[Layers]

\* forward: the whole sequence, every layer from zero state.
forward(tokens, n) ==
    LastLogits(Stack(tokens, [i \in 1 .. Layers |-> NoState], 0, n).h, Len(tokens), n)

NewCache ==
    [states |-> [i \in 1 .. Layers |-> IF Weights.layers[i].kind = "linear"
                                       THEN NewGdnState(Config.gdn, 1) ELSE NewAttnState],
     len |-> 0]

\* forward_cached: the rotary tables start at the chunk's absolute position.
Cached(run, len, t, n) == [cache |-> [states |-> run.states, len |-> len + t], logits |-> LastLogits(run.h, t, n)]

forward_cached(c, tokens, n) == Cached(Stack(tokens, c.states, c.len, n), c.len, Len(tokens), n)

\* The first of the largest logits.
argmax_last(l) == (CHOOSE i \in DOMAIN l : \A j \in DOMAIN l : l[j] < l[i] \/ (l[j] = l[i] /\ i <= j)) - 1

\* greedy: the uncached loop.
GreedyNext(ids, out) == Append(out, argmax_last(forward(ids \o out, 1)))

greedy(ids, steps) ==
    LET run[n \in 0 .. steps] ==
            IF n = 0 THEN <<>>
            ELSE GreedyNext(ids, run[n - 1])
    IN  run[steps]

-----------------------------------------------------------------------------

Init ==
    /\ hw \in Hardware /\ prompt \in Prompts
    /\ cache = NewCache /\ logits = <<>>
    /\ fed = <<>> /\ generated = <<>> /\ status = "prefill"

\* An id outside the vocabulary is refused before any state has changed.
Refused(tokens) == \E i \in DOMAIN tokens : tokens[i] >= Config.vocab

Adopt(run) == cache' = run.cache /\ logits' = run.logits

Advance(tokens) == /\ Adopt(forward_cached(cache, tokens, hw))
                   /\ fed' = fed \o tokens

\* One call for the next n tokens of the prompt; greedy_cached_stopping passes all of them.
Prefill(n) ==
    LET chunk == SubSeq(prompt, Len(fed) + 1, Len(fed) + n)
    IN  /\ status = "prefill" /\ Len(fed) + n <= Len(prompt)
        /\ IF Refused(chunk)
           THEN status' = "refused" /\ UNCHANGED <<cache, logits, fed>>
           ELSE /\ Advance(chunk)
                /\ status' = IF Len(fed) + n = Len(prompt) THEN "decode" ELSE "prefill"
        /\ UNCHANGED <<hw, prompt, generated>>

\* A bug to rule out: the stop token is kept as part of the reply.
StepKeepsStop ==
    LET token == argmax_last(logits)
    IN  /\ status = "decode" /\ Len(generated) < Steps
        /\ generated' = Append(generated, token)
        /\ Advance(<<token>>)
        /\ status' = IF token \in Stop THEN "stopped" ELSE IF Len(generated) + 1 = Steps THEN "limit" ELSE "decode"
        /\ UNCHANGED <<hw, prompt>>

\* One round of the loop: read the argmax, stop on a stop token, else feed it.
DecodeStep ==
    LET token == argmax_last(logits)
    IN  /\ status = "decode" /\ Len(generated) < Steps
        /\ IF token \in Stop
           THEN status' = "stopped" /\ UNCHANGED <<cache, logits, fed, generated>>
           ELSE /\ generated' = Append(generated, token)
                /\ Advance(<<token>>)
                /\ status' = IF Len(generated) + 1 = Steps THEN "limit" ELSE "decode"
        /\ UNCHANGED <<hw, prompt>>

Next == (\E n \in 1 .. Len(prompt) : Prefill(n)) \/ DecodeStep

Spec == Init /\ [][Next]_vars

-----------------------------------------------------------------------------

(***************************************************************************)
(* A cache that is subtly wrong still produces fluent text.  However the   *)
(* sequence was cut into chunks and whatever parallelism the machine       *)
(* reports, the logits of the cached run are those of one serial forward   *)
(* over everything fed so far ("the same arithmetic as forward over the    *)
(* concatenated sequence").                                                *)
(***************************************************************************)
CacheExact == fed # <<>> => logits = forward(fed, 1)

(***************************************************************************)
(* greedy_cached_stopping generates what greedy does, up to the first stop *)
(* token, which is not part of the reply; the flag tells a finished turn   *)
(* from a truncated one.                                                   *)
(***************************************************************************)
GreedyAgrees ==
    status \in {"stopped", "limit"} =>
        LET full == greedy(prompt, Steps)
        IN  /\ generated = SubSeq(full, 1, Len(generated))
            /\ \A i \in DOMAIN generated : generated[i] \notin Stop
            /\ status = "stopped" <=> (Len(generated) < Steps /\ full[Len(generated) + 1] \in Stop)

\* Both mixers on two sequences of the same length at once, and on each alone.
Together(i, x, y, t) ==
    LET layer == Weights.layers[i]
        rope  == build_rope(Config.attn, t, 0)
        Alone(v) == LayerForward(Config, layer, v, 1, t, rope, NoState, hw).out
    IN  LayerForward(Config, layer, x \o y, 2, t, rope, NoState, hw).out = Alone(x) \o Alone(y)

\* The same with a state carried from all positions but the last to the last.
TogetherCarried(i, x, y, t) ==
    LET layer == Weights.layers[i]
        cut   == (t - 1) * Config.hidden
        Zero(b) == IF layer.kind = "linear" THEN NewGdnState(Config.gdn, b) ELSE NewAttnState
        Run(v, b, n, from, state) == LayerForward(Config, layer, v, b, n, build_rope(Config.attn, n, from), state, hw)
        LastOf(head, last, b) == Run(last, b, 1, t - 1, Run(head, b, t - 1, 0, Zero(b)).state).out
        Early(v) == SubSeq(v, 1, cut)
        Final(v) == SubSeq(v, cut + 1, Len(v))
    IN  LastOf(Early(x) \o Early(y), Final(x) \o Final(y), 2) = LastOf(Early(x), Final(x), 1) \o LastOf(Early(y), Final(y), 1)

(***************************************************************************)
(* The kernels take a batch: sequences in one batch never read each        *)
(* other's rows, heads or state, in one pass over the whole input and when *)
(* the convolution window, the delta state, keys and values are carried    *)
(* from one chunk to the next.                                             *)
(***************************************************************************)
BatchIndependent ==
    fed # <<>> /\ cache.len <= 3 =>
        LET t == Len(fed)
            y == [j \in 1 .. t |-> (fed[j] + j) % Config.vocab] \o <<>>
        IN  \A i \in 1 .. Layers :
                /\ Together(i, embed(fed), embed(y), t)
                /\ t > 1 => TogetherCarried(i, embed(fed), embed(y), t)

=============================================================================
