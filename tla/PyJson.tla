-------------------------------- MODULE PyJson --------------------------------
(***************************************************************************)
(* shell-text: the JSON reader and writer (pyjson.rs) that tool            *)
(* definitions and tool arguments go through.  A text is a sequence of     *)
(* characters; a value is a tuple that starts with its kind:               *)
(*   <<"null">>, <<"bool", b>>, <<"int", neg, digits>>,                    *)
(*   <<"float", neg, digits, exp>> (digits[1].digits[2]... * 10^exp, the   *)
(*   shortest digits), <<"inf", neg>>, <<"nan">>, <<"str", s>>,            *)
(*   <<"array", vs>> and <<"object", kvs>>, pairs in insertion order.      *)
(***************************************************************************)
EXTENDS Integers, Sequences, SequencesExt, FiniteSetsExt, TLC

CONSTANTS IntDigits,  \* the longest integer that fits i128
          MaxExp,     \* the largest decimal exponent of an f64
          MinExp,     \* minus the smallest one, of a subnormal
          Values,     \* values a program may write
          Documents   \* texts it may be given

VARIABLES jstage, input, value, written, back

jsonVars == <<jstage, input, value, written, back>>

DigitSeq == <<"0", "1", "2", "3", "4", "5", "6", "7", "8", "9">>
Digits == Range(DigitSeq)
Bad == <<"error">>

Zeros(n) == [k \in 1 .. n |-> "0"]
Digit(n) == DigitSeq[(n % 10) + 1]
Decimal(n) == (IF n >= 100 THEN <<Digit(n \div 100)>> ELSE <<>>) \o (IF n >= 10 THEN <<Digit(n \div 10)>> ELSE <<>>)
              \o <<Digit(n)>>

-----------------------------------------------------------------------------
\* Writing.  Mutant: positional form for every exponent, without the zeros.
ReprNoZeros(neg, digits, exp) ==
    LET decpt == exp + 1
    IN  (IF neg THEN <<"-">> ELSE <<>>) \o
        CASE decpt <= 0 -> <<"0", ".">> \o Zeros(-decpt) \o digits
          [] decpt >= Len(digits) -> digits \o <<".", "0">>
          [] OTHER -> SubSeq(digits, 1, decpt) \o <<".">> \o SubSeq(digits, decpt + 1, Len(digits))

py_repr_f64(neg, digits, exp) ==
    LET decpt == exp + 1
        mag == IF exp < 0 THEN -exp ELSE exp
    IN  (IF neg THEN <<"-">> ELSE <<>>) \o
        CASE decpt <= -4 \/ decpt > 16 ->
                 <<digits[1]>> \o (IF Len(digits) > 1 THEN <<".">> \o Tail(digits) ELSE <<>>)
                 \o <<"e", IF exp < 0 THEN "-" ELSE "+">> \o (IF mag < 10 THEN <<"0">> ELSE <<>>) \o Decimal(mag)
          [] decpt \in -3 .. 0 -> <<"0", ".">> \o Zeros(-decpt) \o digits
          [] decpt \in 1 .. 16 /\ decpt >= Len(digits) -> digits \o Zeros(decpt - Len(digits)) \o <<".", "0">>
          [] OTHER -> SubSeq(digits, 1, decpt) \o <<".">> \o SubSeq(digits, decpt + 1, Len(digits))

\* json_escape_into: the quote, the backslash and the C0 controls.  Named
\* characters: "nl" is \n, and so on; "ctl" stands for the other controls.
Letter == [nl |-> "n", cr |-> "r", tab |-> "t", bs |-> "b", ff |-> "f"]
Escaped(c) == CASE c \in {"\"", "\\"} -> <<"\\", c>>
                [] c \in DOMAIN Letter -> <<"\\", Letter[c]>>
                [] c = "ctl" -> <<"\\", "u", "0", "0", "0", "1">>
                [] OTHER -> <<c>>
Quoted(s) == <<"\"">> \o FlattenSeq([k \in DOMAIN s |-> Escaped(s[k])]) \o <<"\"">>

\* Items separated by a comma and a blank.
Joined(items) == FlattenSeq([k \in DOMAIN items |-> (IF k > 1 THEN <<",", " ">> ELSE <<>>) \o items[k]])

RECURSIVE dumps(_)
dumps(v) ==
    CASE v[1] = "null"   -> <<"n", "u", "l", "l">>
      [] v[1] = "bool"   -> IF v[2] THEN <<"t", "r", "u", "e">> ELSE <<"f", "a", "l", "s", "e">>
      [] v[1] = "int"    -> (IF v[2] THEN <<"-">> ELSE <<>>) \o v[3]
      [] v[1] = "float"  -> py_repr_f64(v[2], v[3], v[4])
      [] v[1] = "inf"    -> (IF v[2] THEN <<"-">> ELSE <<>>) \o <<"I", "n", "f", "i", "n", "i", "t", "y">>
      [] v[1] = "nan"    -> <<"N", "a", "N">>
      [] v[1] = "str"    -> Quoted(v[2])
      [] v[1] = "array"  -> <<"[">> \o Joined([k \in DOMAIN v[2] |-> dumps(v[2][k])]) \o <<"]">>
      [] v[1] = "object" -> <<"{">> \o Joined([k \in DOMAIN v[2] |-> Quoted(v[2][k][1]) \o <<":", " ">> \o dumps(v[2][k][2])])
                            \o <<"}">>

-----------------------------------------------------------------------------
\* Reading.  Every reader takes the text and a position and returns a value and
\* the position after it, or Bad.
At(t, i) == IF i <= Len(t) THEN t[i] ELSE "end"
Slice(t, i, j) == SubSeq(t, i, Min({j, Len(t)}))
Spaces == {" ", "nl", "tab", "cr"}
Past(t, i, set) == Min({k \in i .. Len(t) + 1 : At(t, k) \notin set})
ws(t, i) == Past(t, i, Spaces)
Lit(t, i, word, v) == IF IsPrefix(word, SubSeq(t, i, Len(t))) THEN <<v, i + Len(word)>> ELSE <<Bad, i>>

\* hex4: from_str_radix takes a leading plus as well as hexadecimal digits.
Hex == Digits \cup {"a", "b", "c", "d", "e", "f"}
FourHex(h) == IF Len(h) = 4 /\ h[1] \in Hex \cup {"+"} /\ \A k \in 2 .. 4 : h[k] \in Hex THEN h ELSE Bad
hex4(t, i) == FourHex(Slice(t, i, i + 3))
High(h) == h[1] = "d" /\ h[2] \in {"8", "9", "a", "b"}
Low(h) == h[1] = "d" /\ h[2] \in {"c", "d", "e", "f"}
\* The characters of the model that an escape can name; "other" is any other one.
Scalar(h) == CASE h = <<"0", "0", "0", "1">> -> "ctl"
               [] h \in {<<"0", "0", "4", "1">>, <<"+", "0", "4", "1">>} -> "A"
               [] OTHER -> "other"

\* \u and four digits, the second half of a surrogate pair included; hi is the
\* first four, and the low half starts two characters further on.
LowHalf(t, i) == Slice(t, i, i + 1) = <<"\\", "u">> /\ hex4(t, i + 2) # Bad /\ Low(hex4(t, i + 2))
UnicodeEscape(t, i, hi) == IF hi = Bad \/ Low(hi) THEN Bad
                           ELSE IF ~High(hi) THEN <<Scalar(hi), i + 5>>
                           ELSE IF LowHalf(t, i + 5) THEN <<"astral", i + 11>> ELSE Bad

\* One escape after its backslash: the character and the next position.
Escape(t, i, e) ==
    IF e \in {"\"", "\\", "/"} THEN <<e, i + 1>>
    ELSE IF e = "u" THEN UnicodeEscape(t, i, hex4(t, i + 1))
    ELSE IF \E c \in DOMAIN Letter : Letter[c] = e
         THEN <<CHOOSE c \in DOMAIN Letter : Letter[c] = e, i + 1>> ELSE Bad

RECURSIVE Chars(_, _, _), AfterEscape(_, _, _, _)
Chars(t, i, out) ==
    CASE At(t, i) = "end" -> <<Bad, i>>
      [] At(t, i) = "\"" -> <<<<"str", out>>, i + 1>>
      [] At(t, i) = "\\" -> AfterEscape(t, i, out, Escape(t, i + 1, At(t, i + 1)))
      [] OTHER -> Chars(t, i + 1, Append(out, t[i]))
AfterEscape(t, i, out, e) == IF e = Bad THEN <<Bad, i>> ELSE Chars(t, e[2], Append(out, e[1]))
string(t, i) == IF At(t, i) = "\"" THEN Chars(t, i + 1, <<>>) ELSE <<Bad, i>>

\* text.parse::<f64>(): the shortest digits of the value and its exponent; what is
\* too large is infinite, what is too small is zero.
ValueOf(ds) == FoldLeft(LAMBDA n, d : 10 * n + (CHOOSE k \in 0 .. 9 : DigitSeq[k + 1] = d), 0, ds)
Shortest(neg, all, nz, exp) == IF exp > MaxExp THEN <<"inf", neg>>
                               ELSE IF exp < -MinExp THEN <<"float", neg, <<"0">>, 0>>
                               ELSE <<"float", neg, SubSeq(all, Min(nz), Max(nz)), exp>>
Scaled(neg, all, nz, point) == IF nz = {} THEN <<"float", neg, <<"0">>, 0>>
                               ELSE Shortest(neg, all, nz, point - Min(nz))
Float(neg, int, frac, e) ==
    Scaled(neg, int \o frac, {k \in DOMAIN (int \o frac) : (int \o frac)[k] # "0"}, e + Len(int))

\* number: the integer's digits end at b, the fraction's at c, and the exponent's
\* are those from s on; dot and e tell whether there is a fraction, an exponent.
Numeral(neg, int, dot, frac, e, power, sign, after, i) ==
    IF \/ Len(int) > 1 /\ int[1] = "0"
       \/ dot /\ frac = <<>>
       \/ e /\ power = <<>>
       \/ int = <<>> /\ ~dot
    THEN <<Bad, i>>
    ELSE IF dot \/ e THEN <<Float(neg, int, frac, sign * ValueOf(power)), after>>
    ELSE IF Len(int) > IntDigits THEN <<Bad, i>>
    ELSE <<<<"int", neg /\ int # <<"0">>, int>>, after>>
Exponent(t, i, neg, int, dot, frac, c, s) ==
    IF At(t, c) \in {"e", "E"}
    THEN Numeral(neg, int, dot, frac, TRUE, SubSeq(t, s, Past(t, s, Digits) - 1),
                 IF At(t, c + 1) = "-" THEN -1 ELSE 1, Past(t, s, Digits), i)
    ELSE Numeral(neg, int, dot, frac, FALSE, <<>>, 1, c, i)
Fraction(t, i, neg, int, dot, b, c) ==
    Exponent(t, i, neg, int, dot, IF dot THEN SubSeq(t, b + 1, c - 1) ELSE <<>>, c,
             IF At(t, c + 1) \in {"+", "-"} THEN c + 2 ELSE c + 1)
Integer(t, i, neg, a, b) ==
    Fraction(t, i, neg, SubSeq(t, a, b - 1), At(t, b) = ".", b,
             IF At(t, b) = "." THEN Past(t, b + 1, Digits) ELSE b)
Signed(t, i, neg, a) == Integer(t, i, neg, a, Past(t, a, Digits))
number(t, i) == Signed(t, i, At(t, i) = "-", IF At(t, i) = "-" THEN i + 1 ELSE i)

RECURSIVE Value(_, _), Items(_, _, _), Pairs(_, _, _)
RECURSIVE AfterItem(_, _, _, _), AfterKey(_, _, _, _, _), AfterPair(_, _, _, _, _)
\* The inside of a bracket, from its first character that is not blank.
Object(t, j) == IF At(t, j) = "}" THEN <<<<"object", <<>>>>, j + 1>> ELSE Pairs(t, j, <<>>)
Array(t, j) == IF At(t, j) = "]" THEN <<<<"array", <<>>>>, j + 1>> ELSE Items(t, j, <<>>)
Value(t, i) ==
    CASE At(t, i) = "{" -> Object(t, ws(t, i + 1))
      [] At(t, i) = "[" -> Array(t, ws(t, i + 1))
      [] At(t, i) = "\"" -> string(t, i)
      [] At(t, i) = "t" -> Lit(t, i, <<"t", "r", "u", "e">>, <<"bool", TRUE>>)
      [] At(t, i) = "f" -> Lit(t, i, <<"f", "a", "l", "s", "e">>, <<"bool", FALSE>>)
      [] At(t, i) = "n" -> Lit(t, i, <<"n", "u", "l", "l">>, <<"null">>)
      [] At(t, i) \in Digits \cup {"-"} -> number(t, i)
      [] OTHER -> <<Bad, i>>

\* array: v is the item just read, j the first character after it.
AfterItem(t, out, v, j) ==
    IF v[1] = Bad THEN v
    ELSE CASE At(t, j) = "]" -> <<<<"array", Append(out, v[1])>>, j + 1>>
           [] At(t, j) = "," -> Items(t, ws(t, j + 1), Append(out, v[1]))
           [] OTHER -> <<Bad, j>>
ItemRead(t, out, v) == AfterItem(t, out, v, ws(t, v[2]))
Items(t, i, out) == ItemRead(t, out, Value(t, i))

\* object: the key k, the colon, the value v and what follows it.
AfterPair(t, out, k, v, j) ==
    IF v[1] = Bad THEN v
    ELSE CASE At(t, j) = "}" -> <<<<"object", Append(out, <<k, v[1]>>)>>, j + 1>>
           [] At(t, j) = "," -> Pairs(t, ws(t, j + 1), Append(out, <<k, v[1]>>))
           [] OTHER -> <<Bad, j>>
PairRead(t, out, k, v) == AfterPair(t, out, k, v, ws(t, v[2]))
AfterKey(t, i, out, k, colon) ==
    IF k[1] = Bad \/ At(t, colon) # ":" THEN <<Bad, i>>
    ELSE PairRead(t, out, k[1][2], Value(t, ws(t, colon + 1)))
KeyRead(t, i, out, k) == AfterKey(t, i, out, k, ws(t, k[2]))
Pairs(t, i, out) == KeyRead(t, i, out, string(t, i))

Whole(t, v) == IF v[1] # Bad /\ ws(t, v[2]) = Len(t) + 1 THEN v[1] ELSE Bad
parse(t) == Whole(t, Value(t, ws(t, 1)))

-----------------------------------------------------------------------------
\* A document is parsed, its value written, and what was written parsed again; or
\* a value built by the program is written and parsed.
JsonInit == /\ written = <<>> /\ back = <<>>
            /\ \/ jstage = "text" /\ input \in Documents /\ value = <<>>
               \/ jstage = "value" /\ input = <<>> /\ value \in Values

Adopted(v) == value' = v /\ jstage' = IF v = Bad THEN "refused" ELSE "value"
ReadText == jstage = "text" /\ Adopted(parse(input)) /\ UNCHANGED <<input, written, back>>
Write == jstage = "value" /\ written' = dumps(value) /\ jstage' = "written" /\ UNCHANGED <<input, value, back>>
ReadBack == jstage = "written" /\ back' = parse(written) /\ jstage' = "back" /\ UNCHANGED <<input, value, written>>

JsonNext == ReadText \/ Write \/ ReadBack

-----------------------------------------------------------------------------
RECURSIVE Finite(_)
Finite(v) == CASE v[1] \in {"inf", "nan"} -> FALSE
               [] v[1] = "array"  -> \A k \in DOMAIN v[2] : Finite(v[2][k])
               [] v[1] = "object" -> \A k \in DOMAIN v[2] : Finite(v[2][k][2])
               [] OTHER -> TRUE

\* dumps then parse is the identity on every value without an infinite or NaN
\* number: order and repetition of keys, every escape, and the value, the sign and
\* the kind of a number across the four layouts of py_repr_f64.
JsonRoundTrip == jstage = "back" /\ Finite(value) => back = value

\* "dumps then parse must be the identity on every value" (pyjson.rs:770), stated of
\* the values that parse itself made.  It is not: parse makes an infinite number of
\* 1e400, dumps writes it as Infinity, and parse refuses that.
JsonIdentity == jstage = "back" /\ input # <<>> => back = value
=============================================================================
