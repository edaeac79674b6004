-------------------------- MODULE Generation_proofs --------------------------
(***************************************************************************)
(* Proofs about Generation, for every configuration, prompt, vocabulary    *)
(* and model: with no_repeat_ngram_size n, the reply repeats no n-gram.    *)
(*                                                                         *)
(* The argument has three parts.  Whatever the penalties, the temperature  *)
(* and the truncations do, none opens a token that is masked (Narrows).    *)
(* So the token drawn is not banned (DrawnNotBanned).  An n-gram that ends *)
(* in a token just appended and occurs before is one whose first n - 1     *)
(* tokens are the end of the old history, followed by a banned token       *)
(* (ExtendFresh).                                                          *)
(***************************************************************************)
EXTENDS Generation, DataLemmas

-----------------------------------------------------------------------------
(* The filters.                                                              *)

\* l is what a filter makes of k: a row for the same tokens, and a token that was
\* masked stays masked.
Narrows(l, k) == DOMAIN l = DOMAIN k /\ Open(l) \subseteq Open(k)

\* A filter that is off.
LEMMA NarrowsSelf == \A l : Narrows(l, l) BY DEF Narrows

\* One filter after another.
LEMMA NarrowsTwice == \A l, k, j : Narrows(l, k) /\ Narrows(k, j) => Narrows(l, j) BY DEF Narrows

\* Masking some tokens.
LEMMA MaskedNarrows == \A l, R : Narrows(Masked(l, R), l) BY DEF Narrows, Masked, Open, IsOpen

\* Each truncation only masks.
LEMMA StagesNarrow ==
    ASSUME NEW l, NEW q
    PROVE  /\ Narrows(top_k(l, q), l) /\ Narrows(top_p(l, q), l)
           /\ Narrows(min_p(l, q), l) /\ Narrows(typical_p(l, q), l)
  <1>1. Narrows(top_k(l, q), l) BY NarrowsSelf, MaskedNarrows DEF top_k
  <1>2. Narrows(top_p(l, q), l) BY NarrowsSelf, MaskedNarrows DEF top_p
  <1>3. Narrows(min_p(l, q), l) BY NarrowsSelf, MaskedNarrows DEF min_p
  <1>4. Narrows(typical_p(l, q), l) BY NarrowsSelf, MaskedNarrows DEF typical_p
  <1> QED BY <1>1, <1>2, <1>3, <1>4

\* The temperature scales the open logits.
LEMMA TemperatureNarrows ==
    ASSUME NEW c, NEW l
    PROVE  Narrows(TemperatureStage(c, l), l)
  <1>1. \A t : Narrows(temperature(l, t), l) BY DEF Narrows, temperature, Open, IsOpen
  <1> QED BY <1>1, NarrowsSelf DEF TemperatureStage

\* The truncations, in their order.
LEMMA TruncationsNarrow ==
    ASSUME NEW c, NEW l
    PROVE  Narrows(Truncations(c, l), l)
  <1> DEFINE a == TemperatureStage(c, l)
             b == top_k(a, c.top_k)
             d == top_p(b, c.top_p)
             e == min_p(d, c.min_p)
             f == typical_p(e, c.typical_p)
  <1>1. Narrows(a, l) BY TemperatureNarrows
  <1> HIDE DEF a
  <1>2. Narrows(b, a) BY StagesNarrow
  <1> HIDE DEF b
  <1>3. Narrows(d, b) BY StagesNarrow
  <1> HIDE DEF d
  <1>4. Narrows(e, d) BY StagesNarrow
  <1> HIDE DEF e
  <1>5. Narrows(f, e) BY StagesNarrow
  <1> HIDE DEF f
  <1>6. Narrows(f, l) BY <1>1, <1>2, <1>3, <1>4, <1>5, NarrowsTwice
  <1> QED BY <1>6 DEF Truncations, a, b, d, e, f

\* The penalties leave no banned token open.
LEMMA PenaltiesBan ==
    ASSUME NEW c, NEW l, NEW h
    PROVE  /\ DOMAIN Penalties(c, l, h) = DOMAIN l
           /\ c.no_repeat_ngram_size \in Nat /\ c.no_repeat_ngram_size >= 2
                 => Open(Penalties(c, l, h)) \cap Banned(h, c.no_repeat_ngram_size) = {}
  <1> DEFINE a == RepetitionStage(c, l, h)
             b == PresenceStage(c, a, h)
             d == FrequencyStage(c, b, h)
             n == c.no_repeat_ngram_size
  <1>1. DOMAIN a = DOMAIN l BY DEF RepetitionStage, repetition_penalty, Penalised
  <1>2. DOMAIN b = DOMAIN a BY DEF PresenceStage, presence_penalty, Penalised
  <1>3. DOMAIN d = DOMAIN b BY DEF FrequencyStage, frequency_penalty, Penalised
  <1>4. Penalties(c, l, h) = no_repeat_ngram(d, h, n) BY DEF Penalties
  <1> HIDE DEF a, b, d, n
  <1>5. DOMAIN no_repeat_ngram(d, h, n) = DOMAIN d BY DEF no_repeat_ngram
  <1>6. n \in Nat /\ n >= 2 => Open(no_repeat_ngram(d, h, n)) \cap Banned(h, n) = {}
    BY DEF no_repeat_ngram, Open, IsOpen
  <1> QED BY <1>1, <1>2, <1>3, <1>4, <1>5, <1>6 DEF n

\* What is drawn was open.
LEMMA SelectOpen ==
    ASSUME NEW v \in Nat, NEW l, DOMAIN l \subseteq 0 .. v, Open(l) # {}, NEW u, NEW of
    PROVE  select(l, u, of) \in Open(l)
  <1> DEFINE T == Total(l)
             UpTo(i) == MassOf(Mass(l), {j \in DOMAIN l : j <= i})
             over == {i \in Open(l) : u * T < UpTo(i) * of}
  <1>1. Open(l) \subseteq 0 .. v BY DEF Open
  <1>2. Max(Open(l)) \in Open(l) BY <1>1, Greatest
  <1>3. over \subseteq Open(l) OBVIOUS
  <1>4. select(l, u, of) = IF over # {} THEN Min(over) ELSE Max(Open(l)) BY DEF select
  <1> HIDE DEF over
  <1>5. over # {} => Min(over) \in over
    <2>1. over \subseteq Nat BY <1>1, <1>3
    <2> QED BY <2>1, Least
  <1> QED BY <1>2, <1>3, <1>4, <1>5

-----------------------------------------------------------------------------
(* The loop.                                                                 *)

\* No n-gram that ends after the prompt, in s, occurs before.
Fresh(s, from, n) ==
    \A e \in from + 1 .. Len(s) : \A f \in n .. e - 1 : SubSeq(s, f - n + 1, f) # SubSeq(s, e - n + 1, e)

\* A sequence extended by a token that is not banned.
LEMMA ExtendFresh ==
    ASSUME NEW s, IsSeq(s), NEW from \in Nat, from <= Len(s), NEW n \in Nat, n >= 2,
           Fresh(s, from, n), NEW t, t \notin Banned(s, n)
    PROVE  Fresh(Append(s, t), from, n)
  <1> DEFINE r == Append(s, t)
             H == Len(s)
  <1>1. /\ H \in Nat /\ Len(r) = H + 1 /\ r[H + 1] = t
        /\ \A k \in 1 .. H : r[k] = s[k]
    BY Extend
  <1> HIDE DEF r, H
  <1>2. ASSUME NEW e \in from + 1 .. H + 1, NEW f \in n .. e - 1,
               SubSeq(r, f - n + 1, f) = SubSeq(r, e - n + 1, e)
        PROVE  FALSE
    <2> DEFINE w == f - n + 1
               g == e - n + 1
    <2>1. /\ e \in Int /\ f \in Int /\ w \in Int /\ g \in Int
          /\ 1 <= w /\ 1 <= g /\ f < e /\ e <= H + 1 /\ n <= f
          /\ f = w + n - 1 /\ e = g + n - 1
      BY <1>1
    <2>2. SubSeq(r, w, f) = SubSeq(r, g, e) BY <1>2
    <2> HIDE DEF w, g
    <2>3. \A k \in 0 .. n - 1 : r[w + k] = r[g + k] BY <2>1, <2>2, Windows
    <2>4. CASE e <= H
      <3>1. \A k \in 0 .. n - 1 : s[w + k] = s[g + k]
        <4> TAKE k \in 0 .. n - 1
        <4>1. w + k \in 1 .. H /\ g + k \in 1 .. H BY <1>1, <2>1, <2>4
        <4> QED BY <1>1, <2>3, <4>1
      <3>2. SubSeq(s, w, f) = SubSeq(s, g, e) BY <2>1, <3>1, Windows
      <3>3. e \in from + 1 .. H BY <2>4
      <3> QED BY <3>2, <3>3 DEF Fresh, H, w, g
    <2>5. CASE e = H + 1
      <3> DEFINE m == n - 1
                 y == w + n - 2
      <3>1. /\ m \in Nat /\ y \in Int /\ y = w + m - 1 /\ H = g + m - 1
            /\ w \in 1 .. H - n + 1 /\ w + n - 1 = f /\ ~(H < n) /\ g = H - n + 2
        BY <1>1, <2>1, <2>5
      <3> HIDE DEF m, y
      <3>2. \A k \in 0 .. m - 1 : s[w + k] = s[g + k]
        <4> TAKE k \in 0 .. m - 1
        <4>1. w + k \in 1 .. H /\ g + k \in 1 .. H /\ k \in 0 .. n - 1 BY <1>1, <2>1, <3>1 DEF m
        <4> QED BY <1>1, <2>3, <4>1
      <3>3. SubSeq(s, w, y) = SubSeq(s, g, H) BY <1>1, <2>1, <3>1, <3>2, Windows
      <3>4. s[w + n - 1] = t
        <4>1. n - 1 \in 0 .. n - 1 /\ g + (n - 1) = H + 1 /\ w + (n - 1) \in 1 .. H
          BY <1>1, <2>1, <3>1
        <4>2. r[w + (n - 1)] = r[g + (n - 1)] BY <2>3, <4>1
        <4> QED BY <1>1, <4>1, <4>2
      <3>5. SubSeq(s, w, w + n - 2) = SubSeq(s, H - n + 2, H) BY <3>1, <3>3 DEF y
      <3>6. t \in Banned(s, n) BY <3>1, <3>4, <3>5 DEF Banned, H
      <3> QED BY <3>6
    <2> QED BY <1>1, <2>1, <2>4, <2>5
  <1> QED BY <1>1, <1>2 DEF Fresh, r

\* The history is a sequence that begins with the prompt.
SampleTypes ==
    /\ cfg \in SamplerConfigs /\ IsSeq(history) /\ start \in Nat /\ start <= Len(history)
    /\ sampling = "draw" => row \in Logits

\* The reply repeats no n-gram, whatever the stage.
Sampling ==
    cfg.no_repeat_ngram_size >= 2 => Fresh(history, start, cfg.no_repeat_ngram_size)

\* The inductive invariant.
SampleInv == SampleTypes /\ Sampling

\* A token that is drawn is not banned.
LEMMA DrawnNotBanned ==
    ASSUME SampleInv, sampling = "draw", cfg.no_repeat_ngram_size >= 2,
           ~DrawFails(cfg, row, history), NEW u
    PROVE  Chosen(u) \notin Banned(history, cfg.no_repeat_ngram_size)
  <1> DEFINE P == Penalties(cfg, row, history)
             F == apply_filters(cfg, row, history)
             v == Cardinality(DOMAIN row)
  <1>1. row \in Logits /\ cfg \in SamplerConfigs BY DEF SampleInv, SampleTypes
  <1>2. v \in Nat /\ DOMAIN row \subseteq 0 .. v
    <2>1. IsFiniteSet(DOMAIN row) /\ DOMAIN row = 0 .. v - 1 BY <1>1, SampleAssumption
    <2>2. v \in Nat BY <2>1, FS_CardinalityType
    <2> HIDE DEF v
    <2> QED BY <2>1, <2>2
  <1>3. cfg.no_repeat_ngram_size \in Nat BY <1>1, SampleAssumption
  <1>4. DOMAIN P = DOMAIN row /\ Open(P) \cap Banned(history, cfg.no_repeat_ngram_size) = {}
    BY <1>3, PenaltiesBan
  <1>5. Narrows(F, P) BY TruncationsNarrow DEF apply_filters
  <1>6. Open(F) # {} BY DEF DrawFails
  <1>7. Chosen(u) = select(F, u, Draws) BY DEF Chosen, next
  <1> HIDE DEF P, F, v
  <1>8. select(F, u, Draws) \in Open(F)
    <2>1. DOMAIN F \subseteq 0 .. v BY <1>2, <1>4, <1>5 DEF Narrows
    <2> QED BY <1>2, <1>6, <2>1, SelectOpen
  <1> QED BY <1>4, <1>5, <1>7, <1>8 DEF Narrows

\* There is no reply yet.
LEMMA SampleStart == ASSUME SampleInit PROVE SampleInv
  <1>1. history \in Seq(Nat) /\ cfg \in SamplerConfigs BY SampleAssumption DEF SampleInit
  <1>2. start = Len(history) /\ sampling # "draw" BY DEF SampleInit
  <1>3. Len(history) \in Nat /\ history \in [1 .. Len(history) -> Nat] BY <1>1, LenProperties
  <1>4. IsSeq(history)
    <2>1. history \in [1 .. Len(history) -> {history[k] : k \in 1 .. Len(history)}] BY <1>3
    <2> QED BY <1>3, <2>1, SeqDef DEF IsSeq
  <1>5. SampleTypes BY <1>1, <1>2, <1>3, <1>4 DEF SampleTypes
  <1>6. \A n : Fresh(history, start, n) BY <1>2, <1>3 DEF Fresh
  <1> QED BY <1>5, <1>6 DEF SampleInv, Sampling

\* Only Draw extends the history.
LEMMA SampleStep == ASSUME SampleInv, [SampleNext]_sampleVars PROVE SampleInv'
  <1>1. CASE /\ UNCHANGED <<cfg, history, start>>
             /\ sampling' = "draw" => row' \in Logits
    BY <1>1 DEF SampleInv, SampleTypes, Sampling
  <1>2. ASSUME NEW u \in 0 .. Draws - 1, Draw(u), UNCHANGED history PROVE SampleInv'
    BY <1>1, <1>2 DEF Draw, SampleInv, SampleTypes
  <1>3. ASSUME NEW u \in 0 .. Draws - 1, Draw(u), history' = Append(history, Chosen(u)), sampling' = "forward"
        PROVE  SampleInv'
    <2>1. sampling = "draw" /\ ~DrawFails(cfg, row, history) /\ UNCHANGED <<cfg, start>>
      BY <1>3 DEF Draw
    <2>2. SampleTypes'
      BY <1>3, <2>1, Extend DEF SampleInv, SampleTypes
    <2>3. ASSUME cfg.no_repeat_ngram_size >= 2
          PROVE  Fresh(history', start, cfg.no_repeat_ngram_size)
      <3>1. Chosen(u) \notin Banned(history, cfg.no_repeat_ngram_size) BY <2>1, <2>3, DrawnNotBanned
      <3>2. cfg.no_repeat_ngram_size \in Nat BY SampleAssumption DEF SampleInv, SampleTypes
      <3>3. Fresh(history, start, cfg.no_repeat_ngram_size) BY <2>3 DEF SampleInv, Sampling
      <3> QED BY <1>3, <2>3, <3>1, <3>2, <3>3, ExtendFresh DEF SampleInv, SampleTypes
    <2> QED BY <2>1, <2>2, <2>3 DEF SampleInv, Sampling
  <1>4. CASE Forward BY <1>1, <1>4 DEF Forward
  <1>5. CASE NonFinite BY <1>1, <1>5 DEF NonFinite
  <1>6. CASE NothingToDraw BY <1>1, <1>6 DEF NothingToDraw
  <1>7. ASSUME NEW u \in 0 .. Draws - 1, Draw(u) PROVE SampleInv' BY <1>2, <1>3, <1>7 DEF Draw
  <1>8. CASE UNCHANGED sampleVars BY <1>1, <1>8 DEF sampleVars, SampleInv, SampleTypes
  <1> QED BY <1>4, <1>5, <1>6, <1>7, <1>8 DEF SampleNext

\* sample_stopping, for every model: with no_repeat_ngram_size n, no n-gram that ends
\* in a generated token occurs earlier in the sequence, prompt included, whatever
\* penalties, temperature and truncations are in force and whatever is drawn.
THEOREM ReplyRepeatsNothing == SampleSpec => []NoRepeatedNgram
  <1>1. SampleInit => SampleInv BY SampleStart
  <1>2. SampleInv /\ [SampleNext]_sampleVars => SampleInv' BY SampleStep
  <1>3. SampleInv => NoRepeatedNgram BY DEF SampleInv, Sampling, Fresh, NoRepeatedNgram
  <1> QED BY <1>1, <1>2, <1>3, PTL DEF SampleSpec
=============================================================================
