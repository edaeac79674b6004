-------------------------------- MODULE MCJson --------------------------------
(* Values to write and texts to read. *)
EXTENDS Integers, Sequences
DigitStrings == {<<"1">>, <<"1", "5">>, <<"1", "0", "2">>, [k \in 1 .. 17 |-> IF k = 17 THEN "7" ELSE "1"]}
Floats == {<<"float", n, d, e>> : n \in BOOLEAN, d \in DigitStrings, e \in -8 .. 18 \cup {99, -99}} \cup {<<"float", n, <<"0">>, 0>> : n \in BOOLEAN}
Ints == {<<"int", n, d>> : n \in BOOLEAN, d \in {<<"7">>, <<"1", "0">>, [k \in 1 .. 5 |-> "9"]}} \cup {<<"int", FALSE, <<"0">>>>}
CharSet == {"A", "\"", "\\", "/", "nl", "cr", "tab", "bs", "ff", "ctl", "astral", "u", "n", "{", "]", ",", ":", " ", "other"}
Strings == {<<>>} \cup {<<c>> : c \in CharSet} \cup {<<c, d>> : c \in CharSet, d \in CharSet}
Scalars == Floats \cup Ints \cup {<<"str", s>> : s \in Strings} \cup {<<"null">>, <<"nan">>} \cup {<<k, b>> : k \in {"bool", "inf"}, b \in BOOLEAN}
Few == {<<"null">>, <<"bool", FALSE>>, <<"int", TRUE, <<"3">>>>, <<"float", FALSE, <<"1">>, -5>>, <<"float", FALSE, <<"1">>, 16>>,
        <<"str", <<"\"", "\\">>>>, <<"inf", TRUE>>, <<"array", <<>>>>, <<"object", <<>>>>}
Keys == {<<>>, <<"A">>, <<"\"">>}
Flat == {<<"array", <<a>>>> : a \in Few} \cup {<<"array", <<a, b>>>> : a \in Few, b \in Few}
        \cup {<<"object", <<<<k, a>>>>>> : k \in Keys, a \in Few} \cup {<<"object", <<<<k, a>>, <<l, b>>>>>> : k \in Keys, l \in Keys, a \in Few, b \in Few}
Nested == {<<"array", <<a, b>>>> : a \in {<<"array", <<x>>>> : x \in Few}, b \in Few}
          \cup {<<"object", <<<<k, a>>>>>> : k \in Keys, a \in {<<"object", <<<<l, x>>>>>> : l \in Keys, x \in Few}}
MCValues == Scalars \cup Flat \cup Nested
\* Number-like and escape-like texts.
NumberTexts == UNION {[1 .. n -> {"-", "0", "1", ".", "e", "+"}] : n \in 1 .. 5}
EscapeTexts == {<<"\"", "\\">> \o e \o <<"\"">> : e \in {<<"/">>, <<"x">>, <<"u", "0", "0", "4", "1">>, <<"u", "+", "0", "4", "1">>, <<"u", "0", "0", "4">>,
     <<"u", "d", "8", "3", "d">>, <<"u", "d", "e", "0", "0">>, <<"u", "d", "8", "3", "d", "\\", "u", "d", "e", "0", "0">>,
     <<"u", "d", "8", "3", "d", "\\", "u", "0", "0", "4", "1">>, <<"u", "0", "0", "0", "1">>}}
TokenTexts == UNION {[1 .. n -> {"[", "]", ",", "1", " "}] : n \in 1 .. 4} \cup UNION {[1 .. n -> {"{", "}", ",", ":", "1"}] : n \in 1 .. 3}
     \cup {<<"{", "\"", "\"", x, ":", " ", "1", y, "}">> : x \in {" ", ",", "nl"}, y \in {" ", ",", "]"}} \cup {<<"\"", "A">>, <<"t", "r", "u">>, <<"n", "u", "l", "l", " ">>}
MCDocuments == NumberTexts \cup EscapeTexts \cup TokenTexts \cup {<<"9", "9", "9", "9", "9", "9">>, <<"1", "e", "4", "0", "0">>, <<"1", "e", "-", "4", "0", "0">>}
=============================================================================
