----------------------------- MODULE Generation -----------------------------
(***************************************************************************)
(* The sampled decode loop: sample_stopping of gdn/src/model.rs, drawing   *)
(* with the Sampler of sample.rs.  The model is any model: each step it    *)
(* may produce any logits.                                                 *)
(***************************************************************************)
EXTENDS Sampler

CONSTANTS SamplerConfigs, \* sampler configurations, valid ones and not
          Prompts,        \* non-empty token sequences
          Logits,         \* what a forward pass may produce
          Stop,           \* stop tokens
          Steps,          \* bound: tokens to generate
          Draws           \* resolution of the draws: u / Draws

\* Tokens are unsigned, and a row of logits has one for each token of a vocabulary.
ASSUME SampleAssumption ==
    /\ \A c \in SamplerConfigs : c.no_repeat_ngram_size \in Nat
    /\ \A h \in Prompts : h \in Seq(Nat)
    /\ \A l \in Logits : IsFiniteSet(DOMAIN l) /\ DOMAIN l = 0 .. Cardinality(DOMAIN l) - 1

VARIABLES cfg,
          history, start, \* prompt and reply, and the length of the prompt
          row,            \* the logits of the last position
          sampling        \* where the loop is, or how it ended

sampleVars == <<cfg, history, start, row, sampling>>

NoLogits == <<>>

\* An invalid configuration is refused when the flags are read (and by Sampler::new); a
\* greedy one goes to greedy_cached_stopping instead (CachedDecoding), no filter applied.
SampleInit ==
    /\ cfg \in SamplerConfigs /\ history \in Prompts
    /\ start = Len(history) /\ row = NoLogits
    /\ sampling = IF ~validate(cfg) THEN "invalid" ELSE IF is_greedy(cfg) THEN "greedy" ELSE "forward"

\* forward_cached, seen from the loop.
Forward ==
    /\ sampling = "forward"
    /\ row' \in Logits
    /\ sampling' = IF Len(history) - start = Steps THEN "limit" ELSE "draw"
    /\ UNCHANGED <<cfg, history, start>>

\* A logit that is not finite ends the loop with an error.
NonFinite ==
    /\ sampling = "forward" /\ Len(history) - start < Steps
    /\ sampling' = "nonfinite"
    /\ UNCHANGED <<cfg, history, start, row>>

\* The draw, from a copy of the logits.
Chosen(u) == next(cfg, row, history, u, Draws)

Draw(u) ==
    /\ sampling = "draw"
    /\ ~DrawFails(cfg, row, history)
    /\ IF Chosen(u) \in Stop
       THEN sampling' = "stopped" /\ UNCHANGED <<history, row>>
       ELSE sampling' = "forward" /\ history' = Append(history, Chosen(u)) /\ row' = NoLogits
    /\ UNCHANGED <<cfg, start>>

NothingToDraw ==
    /\ sampling = "draw" /\ DrawFails(cfg, row, history)
    /\ sampling' = "empty"
    /\ UNCHANGED <<cfg, history, start, row>>

SampleNext == Forward \/ NonFinite \/ NothingToDraw \/ \E u \in 0 .. Draws - 1 : Draw(u)

SampleSpec == SampleInit /\ [][SampleNext]_sampleVars

-----------------------------------------------------------------------------

(***************************************************************************)
(* With no_repeat_ngram_size n, no n-gram that ends in a generated token   *)
(* occurs earlier in the sequence, prompt included, however many steps     *)
(* the loop has made: the ban is decided on the whole history, never on    *)
(* the reply alone.                                                        *)
(***************************************************************************)
NoRepeatedNgram ==
    LET n == cfg.no_repeat_ngram_size
        Gram(e) == SubSeq(history, e - n + 1, e)
    IN  n >= 2 =>
            \A e \in start + 1 .. Len(history) : \A f \in n .. e - 1 : Gram(f) # Gram(e)

(***************************************************************************)
(* Every truncation filter keeps at least one token of those it gets: a    *)
(* valid configuration runs out of tokens only when the n-gram ban has     *)
(* taken all of them ("Errors only when the filters leave nothing").       *)
(***************************************************************************)
TruncationKeepsOne == sampling = "empty" => Open(Penalties(cfg, row, history)) = {}

\* What each filter is documented to keep, stated without its algorithm.
AtLeast(l, i) == {j \in Open(l) : l[j] > l[i]}

Heavier(l, i) == {j \in Open(l) : l[j] > l[i] \/ (l[j] = l[i] /\ j > i)}

TopKKeeps(l, k) == IF k = 0 THEN Open(l) ELSE {i \in Open(l) : Cardinality(AtLeast(l, i)) < k}

\* The smallest set, from the heaviest token down, whose mass reaches top_p.
TopPKeeps(l, p) ==
    {i \in Open(l) : Heavier(l, i) = {} \/ MassOf(Mass(l), Heavier(l, i)) * Unit < p * Total(l)}

MinPKeeps(l, p) == {i \in Open(l) : \A j \in Open(l) : 2 ^ (l[j] - Min({l[i], l[j]})) * p
                                                        <= 2 ^ (l[i] - Min({l[i], l[j]})) * Unit}

\* Closest to the entropy first: what a kept token has before it must fall short of the mass.
TypicalKeeps(l, p) ==
    LET s == Shifted(l)
    IN  {i \in Open(l) : MassOf(Mass(l), {j \in Open(l) : s[j] < s[i]}) * Unit < p * Total(l)}

(***************************************************************************)
(* The filters keep what their comments say, on every distribution, ties   *)
(* at the boundary and masked tokens included, and only mask: the logits   *)
(* that stay are untouched.                                                *)
(***************************************************************************)
FiltersExact ==
    /\ TruncationKeepsOne
    /\ sampling = "draw" =>
        LET l == no_repeat_ngram(row, history, 2)
        IN  \A q \in 0 .. Unit :
                /\ Open(top_k(l, q)) = TopKKeeps(l, q)
                /\ Open(l) # {} =>
                      /\ Open(top_p(l, q)) = TopPKeeps(l, q)
                      /\ Open(min_p(l, q)) = MinPKeeps(l, q)
                      /\ q \in 1 .. Unit - 1 => Open(typical_p(l, q)) = TypicalKeeps(l, q)
                /\ \A f \in {top_k(l, q), top_p(l, q), min_p(l, q), typical_p(l, q)} :
                      \A i \in Open(f) : f[i] = l[i]

DrawnByMass(l, T, m) ==
    /\ \A i \in DOMAIN l : Cardinality({u \in 0 .. T - 1 : select(l, u, T) = i}) = m[i]
    /\ Mass(log_softmax(l, 3)) = m

FairlyDrawn(l) == DrawnByMass(l, Total(l), Mass(l))

(***************************************************************************)
(* The walk draws every token exactly as often as its mass says, and never *)
(* a masked one; log_softmax changes none of it.                           *)
(***************************************************************************)
DrawFair ==
    sampling = "draw" /\ ~DrawFails(cfg, row, history) => FairlyDrawn(apply_filters(cfg, row, history))

=============================================================================
