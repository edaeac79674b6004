------------------------------ MODULE Sampler ------------------------------
(***************************************************************************)
(* The sampling pipeline of gdn/src/sample.rs: penalties, temperature,     *)
(* truncation filters and the draw.                                        *)
(*                                                                         *)
(* Logits are integers and the softmax has base two, so a probability is   *)
(* the quotient of two integers and every comparison of the filters is     *)
(* exact: what the properties tell apart is the order of the logits, their *)
(* ties and the masses, never the rounding of f32.  Probability-like       *)
(* settings are numerators over Unit.                                      *)
(***************************************************************************)
EXTENDS Integers, Sequences, FiniteSets, FiniteSetsExt, SequencesExt

Unit == 4                \* denominator of top_p, min_p and typical_p

FILTERED == -1000        \* below every logit, as NEG_INFINITY is

IsOpen(l, i) == l[i] # FILTERED

Open(l) == {i \in DOMAIN l : IsOpen(l, i)}

Default == [temperature |-> 0, top_k |-> 0, top_p |-> Unit, min_p |-> 0, typical_p |-> Unit,
            repetition_penalty |-> 1, presence_penalty |-> 0, frequency_penalty |-> 0,
            no_repeat_ngram_size |-> 0]

is_greedy(c) == c.temperature <= 0

validate(c) ==
    /\ c.top_p \in 0 .. Unit /\ c.min_p \in 0 .. Unit
    /\ c.repetition_penalty > 0
    /\ c.no_repeat_ngram_size # 1

-----------------------------------------------------------------------------
(* Penalties: functions of the history, which is prompt and reply so far.  *)

\* The tokens of the history that the vocabulary has, each once.
distinct_tokens(l, history) == {history[p] : p \in DOMAIN history} \cap DOMAIN l

Penalised(l, history, F(_, _)) ==
    [i \in DOMAIN l |-> IF i \in distinct_tokens(l, history) /\ IsOpen(l, i) THEN F(i, l[i]) ELSE l[i]]

\* A quotient is exact for the inputs of the runs (see README, Bounds).
repetition_penalty(l, history, penalty) ==
    LET Scaled(i, s) == IF s < 0 THEN s * penalty ELSE s \div penalty
    IN  Penalised(l, history, Scaled)

presence_penalty(l, history, penalty) ==
    LET Lowered(i, s) == s - penalty IN Penalised(l, history, Lowered)

Occurrences(history, i) == Cardinality({p \in DOMAIN history : history[p] = i})

frequency_penalty(l, history, penalty) ==
    LET Lowered(i, s) == s - penalty * Occurrences(history, i)
    IN  Penalised(l, history, Lowered)

\* A bug to rule out: the most recent window is left out.
BannedShort(history, n) ==
    LET H      == Len(history)
        suffix == SubSeq(history, H - n + 2, H)
    IN  {history[w + n - 1] : w \in {v \in 1 .. H - n : SubSeq(history, v, v + n - 2) = suffix}}

\* The tokens that followed an earlier occurrence of the last n-1 tokens.
Banned(history, n) ==
    LET H      == Len(history)
        suffix == SubSeq(history, H - n + 2, H)
    IN  IF H < n THEN {}
        ELSE {history[w + n - 1] : w \in {v \in 1 .. H - n + 1 : SubSeq(history, v, v + n - 2) = suffix}}

no_repeat_ngram(l, history, n) ==
    IF n < 2 THEN l ELSE [i \in DOMAIN l |-> IF i \in Banned(history, n) THEN FILTERED ELSE l[i]]

temperature(l, t) == [i \in DOMAIN l |-> IF IsOpen(l, i) THEN l[i] \div t ELSE l[i]]

-----------------------------------------------------------------------------
(* Truncation filters.                                                     *)

Masked(l, removed) == [i \in DOMAIN l |-> IF i \in removed THEN FILTERED ELSE l[i]]

\* softmax: the mass of a token, over Total(l).  Nothing open: all masses are 0.
Mass(l) ==
    LET low == Min({l[i] : i \in Open(l)})
    IN  [i \in DOMAIN l |-> IF IsOpen(l, i) THEN 2 ^ (l[i] - low) ELSE 0]

MassOf(m, S) == FoldSet(LAMBDA i, acc : acc + m[i], 0, S)

Total(l) == LET m == Mass(l) IN MassOf(m, DOMAIN l)

\* The k-th largest logit is the threshold; equal logits all stay.
top_k(l, k) ==
    IF k = 0 \/ k >= Cardinality(DOMAIN l) THEN l
    ELSE LET kth == CHOOSE v \in {l[i] : i \in DOMAIN l} :
                        /\ Cardinality({i \in DOMAIN l : l[i] > v}) < k
                        /\ Cardinality({i \in DOMAIN l : l[i] >= v}) >= k
         IN  Masked(l, {i \in DOMAIN l : l[i] < kth})

\* Ascending by logit, equal logits by id: the order of the stable sort.
Before(l, i, j) == l[i] < l[j] \/ (l[i] = l[j] /\ i <= j)

Largest(l) == CHOOSE i \in DOMAIN l : \A j \in DOMAIN l : Before(l, j, i)

top_p_threshold(p) == Unit - p

top_p(l, p) ==
    LET m       == Mass(l)
        T       == Total(l)
        UpTo(i) == MassOf(m, {j \in DOMAIN l : Before(l, j, i)})
        removed == {i \in DOMAIN l : UpTo(i) * Unit <= top_p_threshold(p) * T}
    IN  IF p >= Unit \/ Open(l) = {} THEN l ELSE Masked(l, removed \ {Largest(l)})

min_p(l, p) ==
    LET m == Mass(l)
    IN  IF p <= 0 \/ Open(l) = {} THEN l
        ELSE Masked(l, {i \in DOMAIN l : m[i] * Unit < p * Max({m[j] : j \in DOMAIN l})})

\* |surprise - entropy| over Total(l): the logarithm of the total cancels.
Shifted(l) ==
    LET m    == Mass(l)
        T    == Total(l)
        mean == FoldSet(LAMBDA i, acc : acc + m[i] * l[i], 0, Open(l))
        D(i) == mean - l[i] * T
    IN  [i \in Open(l) |-> IF D(i) < 0 THEN -D(i) ELSE D(i)]

\* A bug to rule out: the cutoff is the last token below the mass, not one further.
TypicalShort(l, p) ==
    LET m       == Mass(l)
        T       == Total(l)
        s       == Shifted(l)
        Upto(i) == {j \in Open(l) : s[j] < s[i] \/ (s[j] = s[i] /\ j <= i)}
        counted == {i \in Open(l) : MassOf(m, Upto(i)) * Unit < p * T}
        cutoff  == Max({s[i] : i \in counted} \cup {-1})
    IN  IF p <= 0 \/ p >= Unit \/ Open(l) = {} THEN l
        ELSE Masked(l, {i \in Open(l) : s[i] > cutoff})

\* Tokens in the order of their shift, as long as the mass before them is below p;
\* equal shifts at the cutoff all stay, masked tokens sort last and never stay.
typical_p(l, p) ==
    LET m       == Mass(l)
        T       == Total(l)
        s       == Shifted(l)
        Pre(i)  == {j \in Open(l) : s[j] < s[i] \/ (s[j] = s[i] /\ j < i)}
        counted == {i \in Open(l) : MassOf(m, Pre(i)) * Unit < p * T}
        cutoff  == Max({s[i] : i \in counted})
    IN  IF p <= 0 \/ p >= Unit \/ Open(l) = {} THEN l
        ELSE Masked(l, {i \in Open(l) : s[i] > cutoff})

\* log_softmax_in_place subtracts one number from every open logit.
log_softmax(l, lse) == [i \in DOMAIN l |-> IF IsOpen(l, i) THEN l[i] - lse ELSE l[i]]

-----------------------------------------------------------------------------
(* The pipeline, in the order of the reference, and the draw.              *)

\* A stage runs only if its setting asks for it.
RepetitionStage(c, l, history) ==
    IF c.repetition_penalty # 1 THEN repetition_penalty(l, history, c.repetition_penalty) ELSE l
PresenceStage(c, l, history) ==
    IF c.presence_penalty # 0 THEN presence_penalty(l, history, c.presence_penalty) ELSE l
FrequencyStage(c, l, history) ==
    IF c.frequency_penalty # 0 THEN frequency_penalty(l, history, c.frequency_penalty) ELSE l
TemperatureStage(c, l) ==
    IF c.temperature > 0 /\ c.temperature # 1 THEN temperature(l, c.temperature) ELSE l

Penalties(c, l, history) ==
    no_repeat_ngram(FrequencyStage(c, PresenceStage(c, RepetitionStage(c, l, history), history), history),
                    history, c.no_repeat_ngram_size)

Truncations(c, l) ==
    typical_p(min_p(top_p(top_k(TemperatureStage(c, l), c.top_k), c.top_p), c.min_p), c.typical_p)

apply_filters(c, l, history) == Truncations(c, Penalties(c, l, history))

\* A bug to rule out: the walk compares with <=, one step of the generator too far.
SelectInclusive(l, u, of) ==
    LET m       == Mass(l)
        T       == Total(l)
        UpTo(i) == MassOf(m, {j \in DOMAIN l : j <= i})
        over    == {i \in Open(l) : u * T <= UpTo(i) * of}
    IN  IF over # {} THEN Min(over) ELSE Max(Open(l))

\* The first token, by ascending id, whose cumulative mass exceeds u / of.
select(l, u, of) ==
    LET m       == Mass(l)
        T       == Total(l)
        UpTo(i) == MassOf(m, {j \in DOMAIN l : j <= i})
        over    == {i \in Open(l) : u * T < UpTo(i) * of}
    IN  IF over # {} THEN Min(over) ELSE Max(Open(l))

\* next: the draw fails only if nothing is left to draw from.
DrawFails(c, l, history) == Open(apply_filters(c, l, history)) = {}

next(c, l, history, u, of) == select(apply_filters(c, l, history), u, of)

=============================================================================
