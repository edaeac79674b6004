------------------------------ MODULE Kernels ------------------------------
(***************************************************************************)
(* The numeric kernels of gdn/src/lib.rs, attention.rs, layer.rs and       *)
(* delta/src/lib.rs, with their flat arrays and index arithmetic.          *)
(*                                                                         *)
(* A value is a residue modulo P and every scalar function of the code     *)
(* (exp, silu, 1/sqrt, cos...) a fixed function on residues.  An element   *)
(* computed from the wrong operands, in the wrong row, head or position,   *)
(* comes out different; what rounding does to it is left out.              *)
(***************************************************************************)
EXTENDS Integers, Sequences

CONSTANTS P,                \* the modulus, a prime
          WORK_PER_THREAD,  \* products that justify one thread of linear
          MAX_THREADS

-----------------------------------------------------------------------------
(* Arrays, indexed from 0.  (\o <<>> makes TLC compute the elements once.) *)

Array(n, F(_)) == [i \in 1 .. n |-> F(i - 1)] \o <<>>

At(a, i) == a[i + 1]

Slice(a, from, len) == SubSeq(a, from + 1, from + len)

Zeros(n) == Array(n, LAMBDA i : 0)

SumOf(n, F(_)) ==
    LET s[i \in 0 .. n] == IF i = 0 THEN 0 ELSE (s[i - 1] + F(i - 1)) % P IN s[n]

Concat(n, F(_)) ==
    LET s[i \in 0 .. n] == IF i = 0 THEN <<>> ELSE s[i - 1] \o F(i - 1) IN s[n]

Least(a, b) == IF a < b THEN a ELSE b

CeilDiv(a, b) == (a + b - 1) \div b

-----------------------------------------------------------------------------
(* Scalar functions: any fixed functions that are not linear will do.  The *)
(* ones that are positive in the code are never 0.                         *)

Positive(y) == 1 + (y % (P - 1))
Exp(x) == Positive(3 * x * x + x)
Rsqrt(x) == Positive(x * x + 5 * x + 2)
sigmoid(x) == Positive(2 * x * x + 3)
silu(x) == (x * x + 2 * x) % P
softplus(x) == (x * x * x + x + 4) % P
Cos(x) == (x * x + 7) % P
Sin(x) == (x * x * x + 2 * x) % P
Reciprocal(x) == IF x % P = 0 THEN 0 ELSE CHOOSE y \in 1 .. P - 1 : (x * y) % P = 1

-----------------------------------------------------------------------------
(* linear: y[r, o] = sum of w[o, i] * x[r, i], split over threads by the   *)
(* flattened output index.                                                 *)

dot(a, ao, b, bo, n) == SumOf(n, LAMBDA i : At(a, ao + i) * At(b, bo + i))

Threads(work, hw) == Least(Least(work \div WORK_PER_THREAD, hw), MAX_THREADS)

\* A bug to rule out: every thread starts at the first column of its row.
ChunkFromColumnZero(w, x, base, len, in, out) ==
    LET walk[k \in 0 .. len] ==
            IF k = 0 THEN <<base \div out, 0>>
            ELSE LET at == walk[k - 1]
                 IN  IF at[2] + 1 = out THEN <<at[1] + 1, 0>> ELSE <<at[1], at[2] + 1>>
    IN  Array(len, LAMBDA k : LET at == walk[k] IN dot(w, at[2] * in, x, (at[1] * in) % Len(x), in))

\* One thread's part: it divides once and then walks row and column along.
LinearChunk(w, x, base, len, in, out) ==
    LET walk[k \in 0 .. len] ==
            IF k = 0 THEN <<base \div out, base % out>>
            ELSE LET at == walk[k - 1]
                 IN  IF at[2] + 1 = out THEN <<at[1] + 1, 0>> ELSE <<at[1], at[2] + 1>>
    IN  Array(len, LAMBDA k : LET at == walk[k] IN dot(w, at[2] * in, x, at[1] * in, in))

\* The flattened output in pieces of chunk elements, one thread each.
LinearParts(w, x, rows, in, out, chunk) ==
    Concat(CeilDiv(rows * out, chunk),
           LAMBDA ci : LinearChunk(w, x, ci * chunk, Least(chunk, rows * out - ci * chunk), in, out))

LinearOn(n, w, x, rows, in, out) ==
    IF n <= 1
    THEN Array(rows * out, LAMBDA i : dot(w, (i % out) * in, x, (i \div out) * in, in))
    ELSE LinearParts(w, x, rows, in, out, CeilDiv(rows * out, n))

linear(w, x, rows, in, out, hw) == LinearOn(Threads(rows * in * out, hw), w, x, rows, in, out)

-----------------------------------------------------------------------------
(* Norms, over rows of dim values.                                         *)

InvNorm(x, r, dim) == Rsqrt(dot(x, r * dim, x, r * dim, dim))

rmsnorm_1plus(w, x, rows, dim) ==
    LET inv == Array(rows, LAMBDA r : InvNorm(x, r, dim))
    IN  Array(rows * dim, LAMBDA i : (At(x, i) * At(inv, i \div dim) * (1 + At(w, i % dim))) % P)

rmsnorm_gated(w, x, z, rows, dim) ==
    LET inv == Array(rows, LAMBDA r : InvNorm(x, r, dim))
    IN  Array(rows * dim, LAMBDA i :
            (((At(x, i) * At(inv, i \div dim)) % P) * ((At(w, i % dim) * silu(At(z, i))) % P)) % P)

-----------------------------------------------------------------------------
(* Layouts.                                                                *)

btc_to_bct(x, b, t, c) ==
    Array(b * c * t, LAMBDA i :
        LET ti == i % t  ci == (i \div t) % c  bi == i \div (t * c) IN At(x, (bi * t + ti) * c + ci))

bct_to_btc(x, b, c, t) ==
    Array(b * t * c, LAMBDA i :
        LET ci == i % c  ti == (i \div c) % t  bi == i \div (t * c) IN At(x, (bi * c + ci) * t + ti))

\* A bug to rule out: every batch reads the rows of the first.
ToBhtdFirstBatch(x, b, t, h, d) ==
    Array(b * h * t * d, LAMBDA i :
        LET di == i % d  ti == (i \div d) % t  hi == (i \div (d * t)) % h IN At(x, (ti * h + hi) * d + di))

to_bhtd(x, b, t, h, d) ==
    Array(b * h * t * d, LAMBDA i :
        LET di == i % d  ti == (i \div d) % t  hi == (i \div (d * t)) % h  bi == i \div (d * t * h)
        IN  At(x, ((bi * t + ti) * h + hi) * d + di))

to_bthd(x, b, t, h, d) ==
    Array(b * t * h * d, LAMBDA i :
        LET di == i % d  hi == (i \div d) % h  ti == (i \div (d * h)) % t  bi == i \div (d * t * h)
        IN  At(x, ((bi * h + hi) * t + ti) * d + di))

\* Head h becomes the heads h*ratio .. h*ratio + ratio - 1.
repeat_interleave_heads(x, b, t, h, d, ratio) ==
    Array(b * t * h * ratio * d, LAMBDA i :
        LET di == i % d  oh == (i \div d) % (h * ratio)  row == i \div (d * h * ratio)
        IN  At(x, (row * h + oh \div ratio) * d + di))

-----------------------------------------------------------------------------
(* The causal convolution: [left context, chunk], whose last k-1 entries   *)
(* are the context of the next chunk.                                      *)

ConvFull(x, t, keep, state, row) == Slice(state, row * keep, keep) \o Slice(x, row * t, t)

conv_forward(w, x, b, channels, t, k, state) ==
    LET keep == k - 1
        Out(row) == LET full == ConvFull(x, t, keep, state, row)
                    IN  Array(t, LAMBDA ti : silu(dot(w, (row % channels) * k, full, ti, k)))
        Kept(row) == Slice(ConvFull(x, t, keep, state, row), t, keep)
    IN  [out |-> Concat(b * channels, Out), state |-> Concat(b * channels, Kept)]

-----------------------------------------------------------------------------
(* The gated delta rule, per batch and head a matrix state[ki, vi].        *)

Scaled(x, rows, d, scale) ==
    LET inv == Array(rows, LAMBDA r : InvNorm(x, r, d))
    IN  Array(rows * d, LAMBDA i : (At(x, i) * At(inv, i \div d) * scale) % P)

\* One step of the recurrence for one (batch, time, head): decay, read, correct, read.
Decayed(m, g, s, row) == Array(s.k * s.v, LAMBDA i : (At(m, i) * Exp(At(g, row))) % P)

ReadOut(m, x, s, row) ==
    Array(s.v, LAMBDA vi : SumOf(s.k, LAMBDA ki : At(m, ki * s.v + vi) * At(x, row * s.k + ki)))

PredictionError(mem, v, beta, s, row) ==
    Array(s.v, LAMBDA vi : ((At(v, row * s.v + vi) - At(mem, vi)) * At(beta, row)) % P)

Corrected(m, k, v, beta, s, row) ==
    LET delta == PredictionError(ReadOut(m, k, s, row), v, beta, s, row)
    IN  Array(s.k * s.v, LAMBDA i : (At(m, i) + At(k, row * s.k + i \div s.v) * At(delta, i % s.v)) % P)

StepResult(next, q, s, row) == [state |-> next, out |-> ReadOut(next, q, s, row)]

DeltaStep(m, q, k, v, g, beta, s, row) ==
    StepResult(Corrected(Decayed(m, g, s, row), k, v, beta, s, row), q, s, row)

\* The step's result after what the earlier steps left.
AfterStep(prev, step) == [state |-> step.state, out |-> Append(prev.out, step.out)]

DeltaNext(prev, q, k, v, g, beta, s, row) == AfterStep(prev, DeltaStep(prev.state, q, k, v, g, beta, s, row))

\* The recurrence over the chunk, from the state on entry.
DeltaHead(q, k, v, g, beta, state, s, bi, hi) ==
    LET run[n \in 0 .. s.t] ==
            IF n = 0 THEN [state |-> Slice(state, (bi * s.h + hi) * s.k * s.v, s.k * s.v), out |-> <<>>]
            ELSE DeltaNext(run[n - 1], q, k, v, g, beta, s, (bi * s.t + n - 1) * s.h + hi)
    IN  run[s.t]

DeltaHeads(q, k, v, g, beta, state, s) ==
    Array(s.b * s.h, LAMBDA j : DeltaHead(q, k, v, g, beta, state, s, j \div s.h, j % s.h))

\* The heads' outputs as [b, t, h, v], their states as [b, h, k, v].
Gathered(head, s) ==
    [out   |-> Concat(s.b * s.t * s.h, LAMBDA row :
                   LET hi == row % s.h  ti == (row \div s.h) % s.t  bi == row \div (s.h * s.t)
                   IN  At(At(head, bi * s.h + hi).out, ti)),
     state |-> Concat(s.b * s.h, LAMBDA j : At(head, j).state)]

\* forward_prepared_into: normalise q and k, scale q, run every head.
DeltaRule(q_in, k_in, v, g, beta, state, s) ==
    LET rows == s.b * s.t * s.h
    IN  Gathered(DeltaHeads(Scaled(q_in, rows, s.k, Rsqrt(s.k)), Scaled(k_in, rows, s.k, 1), v, g, beta, state, s), s)

-----------------------------------------------------------------------------
(* The gated delta net.  state is [conv, ssm].                             *)

NoState == [kind |-> "none"]           \* a run that restarts from zero

key_dim(c) == c.head_k_dim * c.num_k_heads
value_dim(c) == c.head_v_dim * c.num_v_heads
conv_dim(c) == 2 * key_dim(c) + value_dim(c)

NewGdnState(c, b) ==
    [kind |-> "linear", conv |-> Zeros(b * conv_dim(c) * (c.conv_kernel - 1)),
     ssm |-> Zeros(b * c.num_v_heads * c.head_k_dim * c.head_v_dim)]

\* Columns from .. from + width - 1 of every row of conv_dim values.
Columns(c, x, rows, from, width) ==
    Array(rows * width, LAMBDA i : At(x, (i \div width) * conv_dim(c) + from + (i % width)))

\* q, k and v are columns of the convolved rows, q and k repeated for the value heads.
GdnDelta(c, cb, beta, g, b, t, ssm) ==
    LET rows == b * t
        kd   == key_dim(c)
        Heads(from) == repeat_interleave_heads(Columns(c, cb, rows, from, kd), b, t, c.num_k_heads, c.head_k_dim,
                                               c.num_v_heads \div c.num_k_heads)
    IN  DeltaRule(Heads(0), Heads(kd), Columns(c, cb, rows, 2 * kd, value_dim(c)), g, beta, ssm,
                  [b |-> b, t |-> t, h |-> c.num_v_heads, k |-> c.head_k_dim, v |-> c.head_v_dim])

Beta(c, bb, rows) == Array(rows * c.num_v_heads, LAMBDA i : sigmoid(At(bb, i)))

Gate(c, w, aa, rows) ==
    Array(rows * c.num_v_heads, LAMBDA i :
        (0 - Exp(At(w.a_log, i % c.num_v_heads))
               * softplus((At(aa, i) + At(w.dt_bias, i % c.num_v_heads)) % P)) % P)

GdnOut(c, w, z, delta, conv_state, rows, hw) ==
    [out   |-> linear(w.out_proj, rmsnorm_gated(w.norm, delta.out, z, rows * c.num_v_heads, c.head_v_dim),
                      rows, value_dim(c), c.hidden, hw),
     state |-> [kind |-> "linear", conv |-> conv_state, ssm |-> delta.state]]

GdnMix(c, w, x, conv, b, t, ssm, hw) ==
    LET rows == b * t
        Proj(p, out) == linear(p, x, rows, c.hidden, out, hw)
    IN  GdnOut(c, w, Proj(w.in_proj_z, value_dim(c)),
               GdnDelta(c, bct_to_btc(conv.out, b, conv_dim(c), t), Beta(c, Proj(w.in_proj_b, c.num_v_heads), rows),
                        Gate(c, w, Proj(w.in_proj_a, c.num_v_heads), rows), b, t, ssm),
               conv.state, rows, hw)

GdnFrom(c, w, x, b, t, from, hw) ==
    LET mixed == linear(w.in_proj_qkv, x, b * t, c.hidden, conv_dim(c), hw)
    IN  GdnMix(c, w, x, conv_forward(w.conv1d, btc_to_bct(mixed, b, t, conv_dim(c)), b, conv_dim(c), t,
                                     c.conv_kernel, from.conv),
               b, t, from.ssm, hw)

GdnForward(c, w, x, b, t, state, hw) ==
    GdnFrom(c, w, x, b, t, IF state = NoState THEN NewGdnState(c, b) ELSE state, hw)

-----------------------------------------------------------------------------
(* Full attention.  state is [k, v, len], keys and values [b, kvh, len, d].*)

NewAttnState == [kind |-> "full", k |-> <<>>, v |-> <<>>, len |-> 0]

\* The angle of slot i at a position; slots i and i + half share it.
Angle(c, position, i) == (position * (3 + (i % (c.rotary_dim \div 2)))) % P

\* build_rope: the angles of positions start .. start + t - 1.
build_rope(c, t, start) ==
    Array(t * c.rotary_dim, LAMBDA i : Angle(c, start + i \div c.rotary_dim, i % c.rotary_dim))

\* Slot i of rotate_half of the head vector at base.
RotateHalf(c, x, base, i) ==
    LET half == c.rotary_dim \div 2
    IN  IF i < half THEN 0 - At(x, base + i + half) ELSE At(x, base + i - half)

\* Rows are [b, t, heads] flattened, so row r belongs to position (r / heads) % t.
apply_rope(c, x, rows, heads, rope, t) ==
    Array(rows * c.head_dim, LAMBDA j :
        LET d     == c.head_dim
            r     == j \div d
            i     == j % d
            angle == At(rope, ((r \div heads) % t) * c.rotary_dim + i)
        IN  IF i >= c.rotary_dim THEN At(x, j)
            ELSE (At(x, j) * Cos(angle) + RotateHalf(c, x, r * d, i) * Sin(angle)) % P)

\* append_kv for keys or values: per (batch, head) the old rows, then the chunk's.
AppendRows(old, start, x, b, t, kvh, d) ==
    Concat(b * kvh, LAMBDA j :
        Slice(old, j * start * d, start * d)
        \o Array(t * d, LAMBDA i : At(x, ((j \div kvh) * t + i \div d) * kvh * d + (j % kvh) * d + (i % d))))

\* softmax of a row of scores, with the maximum subtracted.
Softmax(row) ==
    LET n    == Len(row)
        high == CHOOSE m \in 0 .. P - 1 : (\E i \in 1 .. n : row[i] = m) /\ \A i \in 1 .. n : row[i] <= m
        e    == Array(n, LAMBDA i : Exp((At(row, i) - high) % P))
        inv  == Reciprocal(SumOf(n, LAMBDA i : At(e, i)))
    IN  Array(n, LAMBDA i : (At(e, i) * inv) % P)

\* Output head hh reads kv head hh / groups; the query at start + ti sees keys 0 .. start + ti.
attend(q, keys, values, b, t, start, h, kvh, d) ==
    Concat(b * h * t, LAMBDA j :
        LET ti   == j % t
            hh   == (j \div t) % h
            bi   == j \div (t * h)
            kb   == (bi * kvh + hh \div (h \div kvh)) * (start + t) * d
            qrow == ((bi * t + ti) * h + hh) * d
            p    == start + ti
            a    == Softmax(Array(p + 1, LAMBDA tj : (dot(q, qrow, keys, kb + tj * d, d) * Rsqrt(d)) % P))
        IN  Array(d, LAMBDA i : SumOf(p + 1, LAMBDA tj : At(a, tj) * At(values, kb + tj * d + i))))

\* The gate of a head follows its query: d columns of one, then d of the other.
QueryColumns(qflat, n, d) == Array(n, LAMBDA i : At(qflat, (i \div d) * 2 * d + (i % d)))

Gated(out, qflat, d) ==
    Array(Len(out), LAMBDA i : (At(out, i) * sigmoid(At(qflat, (i \div d) * 2 * d + d + (i % d)))) % P)

AttnOut(c, w, q, qflat, keys, vals, b, t, start, hw) ==
    LET h   == c.num_heads
        d   == c.head_dim
        out == to_bthd(attend(q, keys, vals, b, t, start, h, c.num_kv_heads, d), b, t, h, d)
    IN  [out   |-> linear(w.o_proj, Gated(out, qflat, d), b * t, h * d, c.hidden, hw),
         state |-> [kind |-> "full", k |-> keys, v |-> vals, len |-> start + t]]

\* A run without a cache lays keys and values out anew, one with a cache appends.
AttnRows(c, old, from, x, b, t) ==
    IF old = NoState THEN to_bhtd(x, b, t, c.num_kv_heads, c.head_dim)
    ELSE AppendRows(from, old.len, x, b, t, c.num_kv_heads, c.head_dim)

Rotated(c, w, x, b, t, heads, rope) ==
    apply_rope(c, rmsnorm_1plus(w, x, b * t * heads, c.head_dim), b * t * heads, heads, rope, t)

AttnMix(c, w, qflat, kflat, vflat, b, t, rope, state, hw) ==
    AttnOut(c, w,
            Rotated(c, w.q_norm, QueryColumns(qflat, b * t * c.num_heads * c.head_dim, c.head_dim), b, t, c.num_heads, rope),
            qflat,
            AttnRows(c, state, state.k, Rotated(c, w.k_norm, kflat, b, t, c.num_kv_heads, rope), b, t),
            AttnRows(c, state, state.v, vflat, b, t),
            b, t, IF state = NoState THEN 0 ELSE state.len, hw)

AttnForward(c, w, x, b, t, rope, state, hw) ==
    LET Proj(p, out) == linear(p, x, b * t, c.hidden, out, hw)
    IN  AttnMix(c, w, Proj(w.q_proj, c.num_heads * c.head_dim * 2), Proj(w.k_proj, c.num_kv_heads * c.head_dim),
                Proj(w.v_proj, c.num_kv_heads * c.head_dim), b, t, rope, state, hw)

-----------------------------------------------------------------------------
(* The decoder layer.                                                      *)

mlp_forward(w, x, rows, hidden, inter, hw) ==
    LET gate == linear(w.gate_proj, x, rows, hidden, inter, hw)
        up   == linear(w.up_proj, x, rows, hidden, inter, hw)
        prod == Array(rows * inter, LAMBDA i : (silu(At(gate, i)) * At(up, i)) % P)
    IN  linear(w.down_proj, prod, rows, inter, hidden, hw)

Plus(a, b) == Array(Len(a), LAMBDA i : (At(a, i) + At(b, i)) % P)

\* layer_forward_from_mixer: each residual adds the value before its norm.
MlpResidual(lw, first, rows, hidden, hw) ==
    Plus(first, mlp_forward(lw.mlp, rmsnorm_1plus(lw.post_attention_layernorm, first, rows, hidden),
                            rows, hidden, Len(lw.mlp.gate_proj) \div hidden, hw))

FromMixer(lw, x, mix, rows, hw) ==
    [out |-> MlpResidual(lw, Plus(x, mix.out), rows, Len(lw.input_layernorm), hw), state |-> mix.state]

\* layer_forward_inner, on no state or one of the layer's kind.
Mixed(m, lw, ln, b, t, rope, state, hw) ==
    IF lw.kind = "linear" THEN GdnForward(m.gdn, lw.gdn, ln, b, t, state, hw)
    ELSE AttnForward(m.attn, lw.attn, ln, b, t, rope, state, hw)

LayerForward(m, lw, x, b, t, rope, state, hw) ==
    FromMixer(lw, x,
              Mixed(m, lw, rmsnorm_1plus(lw.input_layernorm, x, b * t, Len(lw.input_layernorm)), b, t, rope, state, hw),
              b * t, hw)

=============================================================================
