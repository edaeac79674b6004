------------------------------ MODULE HalfFloat ------------------------------
(***************************************************************************)
(* gdn: decoding F16 elements (safetensors.rs, Dtype::decode and           *)
(* f16_to_f32).  A number is its sign, exponent and fraction fields: 1, 5  *)
(* and 10 bits of a half, 1, 8 and 23 of a single.                         *)
(***************************************************************************)
EXTENDS Integers

CONSTANT Fractions \* the fraction fields to decode, a subset of 0 .. 1023

VARIABLES half, single

NotDecoded == [sign |-> 0, exp |-> -1, frac |-> 0]

HalfInit == /\ half \in [sign : {0, 1}, exp : 0 .. 31, frac : Fractions]
            /\ single = NotDecoded

\* The loop shifts a subnormal's fraction until bit 10 is set, taking one off
\* the exponent each time.
f16_to_f32(h) ==
    LET shifts == CHOOSE k \in 1 .. 10 : h.frac * 2^k \in 1024 .. 2047
        e == 127 - 15 - 10 - shifts
    IN  CASE h.exp = 0 /\ h.frac = 0 -> [h EXCEPT !.exp = 0]
          [] h.exp = 0 /\ h.frac # 0 -> [h EXCEPT !.exp = e + 1, !.frac = (@ * 2^shifts - 1024) * 2^13]
          [] h.exp = 31 -> [h EXCEPT !.exp = 255, !.frac = @ * 2^13]
          [] OTHER -> [h EXCEPT !.exp = @ + 127 - 15, !.frac = @ * 2^13]

Decode == /\ single = NotDecoded
          /\ single' = f16_to_f32(half)
          /\ UNCHANGED half

HalfSpec == HalfInit /\ [][Decode]_<<half, single>>

\* A half with leading bit k of a subnormal fraction is 2^(k-24) times one plus
\* what follows that bit; every other half keeps its unbiased exponent.
Widened(h) ==
    LET k == CHOOSE k \in 0 .. 9 : h.frac \in 2^k .. 2^(k + 1) - 1
    IN  CASE h.exp = 0 /\ h.frac = 0 -> [h EXCEPT !.exp = 0]
          [] h.exp = 0 /\ h.frac # 0 -> [h EXCEPT !.exp = 127 + k - 24, !.frac = (@ - 2^k) * 2^(23 - k)]
          [] h.exp = 31 -> [h EXCEPT !.exp = 255, !.frac = @ * 2^13]
          [] OTHER -> [h EXCEPT !.exp = @ - 15 + 127, !.frac = @ * 2^13]

\* "Handles subnormals, infinities and NaN" (safetensors.rs:104): a decoded
\* element is the number the half stands for.
HalfExact == single # NotDecoded => single = Widened(half)
=============================================================================
