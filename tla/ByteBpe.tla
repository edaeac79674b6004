------------------------------- MODULE ByteBpe -------------------------------
(***************************************************************************)
(* gdn: the algorithms of the byte-level BPE tokenizer (tokenizer.rs):     *)
(* loading and checking tokenizer.json, what tokenizer_config.json adds,   *)
(* the pre-tokenizer's hand-written scanner, BPE and decode.  Text is a    *)
(* sequence of code points; byte offsets become positions, which is what   *)
(* they stand for once is_char_boundary has been asked.  The strings of    *)
(* the vocabulary keep their byte-level characters.                        *)
(***************************************************************************)
EXTENDS Unicode

Space == 32
Newlines == {10, 13}
Quote == 39
IsWhitespace(c) == c \in {9, 10, 11, 12, 13, 32, 133, 160, 8232, 8233, 12288} \* char::is_whitespace
Lower(c) == IF c \in 65 .. 90 THEN c + 32 ELSE c

\* char::len_utf8 and encode_utf8.
Utf8(c) == CASE c < 128   -> <<c>>
             [] c < 2048  -> <<192 + (c \div 64), 128 + (c % 64)>>
             [] c < 65536 -> <<224 + (c \div 4096), 128 + ((c \div 64) % 64), 128 + (c % 64)>>
Utf8Bytes(s) == FoldLeft(LAMBDA bs, c : bs \o Utf8(c), <<>>, s)

\* byte_to_char_table: printable Latin-1 bytes stand for themselves, the other
\* 68 for U+0100 + n in increasing order; char_to_byte is its inverse.
Printable == (33 .. 126) \cup (161 .. 172) \cup (174 .. 255)
byte_to_char(b) == CASE b \in Printable  -> b
                     [] b \in 0 .. 32    -> 256 + b
                     [] b \in 127 .. 160 -> 256 + 33 + (b - 127)
                     [] b = 173          -> 256 + 67
char_to_byte(ch) == CASE ch \in Printable  -> ch
                      [] ch \in 256 .. 288 -> ch - 256
                      [] ch \in 289 .. 322 -> ch - 289 + 127
                      [] ch = 323          -> 173
                      [] OTHER             -> None

-----------------------------------------------------------------------------
\* The scanner.  Each match_* returns the position after the match, or None.

RunEnd(c, i, P(_)) == CHOOSE j \in i .. Len(c) + 1 :
                          /\ \A k \in i .. j - 1 : P(c[k])
                          /\ j <= Len(c) => ~P(c[j])

match_contraction(c, i) ==
    LET lower(k) == IF k <= Len(c) THEN Lower(c[k]) ELSE None
        \* 's 't 'm 'd, then 're 've 'll
    IN  IF c[i] # Quote THEN None
        ELSE IF lower(i + 1) \in {115, 116, 109, 100} THEN i + 2
        ELSE IF <<lower(i + 1), lower(i + 2)>> \in {<<114, 101>>, <<118, 101>>, <<108, 108>>} THEN i + 3
        ELSE None

IsLM(x, marks_join) == is_letter(x) \/ (marks_join /\ is_mark(x))

match_letters(c, i, marks_join) ==
    LET run(k) == RunEnd(c, k, LAMBDA x : IsLM(x, marks_join))
    IN  IF /\ c[i] \notin Newlines /\ ~is_letter(c[i]) /\ ~is_number(c[i])
           /\ i < Len(c) /\ IsLM(c[i + 1], marks_join)
        THEN run(i + 1)
        ELSE IF IsLM(c[i], marks_join) THEN run(i) ELSE None

IsSym(x, marks_join) == ~IsWhitespace(x) /\ ~is_number(x) /\ ~IsLM(x, marks_join)

match_symbols(c, i, marks_join) ==
    LET start == IF c[i] = Space THEN i + 1 ELSE i
    IN  IF start > Len(c) \/ ~IsSym(c[start], marks_join) THEN None
        ELSE RunEnd(c, RunEnd(c, start, LAMBDA x : IsSym(x, marks_join)), LAMBDA x : x \in Newlines)

match_ws_then_newline(c, i) ==
    LET last == {j \in i .. RunEnd(c, i, IsWhitespace) - 1 : c[j] \in Newlines}
    IN  IF last = {} THEN None ELSE RunEnd(c, Max(last), LAMBDA x : x \in Newlines)

\* Mutant: the lookahead is forgotten.
LookaheadWhole(c, i) == IF IsWhitespace(c[i]) THEN RunEnd(c, i, IsWhitespace) ELSE None

\* The whole run at the end of the text, otherwise all but its last character.
match_ws_lookahead(c, i) ==
    LET k == RunEnd(c, i, IsWhitespace)
    IN  IF k = i THEN None
        ELSE IF k = Len(c) + 1 THEN k
        ELSE IF k >= i + 2 THEN k - 1 ELSE None

match_whitespace(c, i) == IF IsWhitespace(c[i]) THEN RunEnd(c, i, IsWhitespace) ELSE None

match_alternative(c, i, marks_join) ==
    LET tries == << match_contraction(c, i), match_letters(c, i, marks_join),
                    IF is_number(c[i]) THEN i + 1 ELSE None,
                    match_symbols(c, i, marks_join), match_ws_then_newline(c, i),
                    match_ws_lookahead(c, i), match_whitespace(c, i), i + 1 >>
    IN  SelectSeq(tries, LAMBDA j : j # None)[1]

RECURSIVE Pieces(_, _, _)
Pieces(c, i, marks_join) ==
    IF i > Len(c) THEN <<>>
    ELSE LET j == match_alternative(c, i, marks_join)
         IN  <<SubSeq(c, i, j - 1)>> \o Pieces(c, j, marks_join)
pretokenize_with(c, marks_join) == Pieces(c, 1, marks_join)

-----------------------------------------------------------------------------
\* Loading.

Qwen2Classes == {"Qwen2Tokenizer", "Qwen2TokenizerFast"} \* class.starts_with("Qwen2")
Regexes == {"with marks", "no marks"} \* PRETOKENIZE_REGEX_WITH_MARKS, _NO_MARKS

Missing(vocab) == {b \in 0 .. 255 : <<byte_to_char(b)>> \notin DOMAIN vocab}

MergeOk(vocab, m) == m[1] \in DOMAIN vocab /\ m[2] \in DOMAIN vocab /\ m[1] \o m[2] \in DOMAIN vocab

ModelOk(f) == f.type = "BPE" /\ ~f.byte_fallback /\ f.unk_token = "null"
PipelineOk(f) == f.normalizer = "NFC" /\ f.regex \in Regexes /\ f.second = "ByteLevel" /\ f.decoder = "ByteLevel"

\* Mutant: nobody asks for all 256 bytes.
AcceptPartial(f) == ModelOk(f) /\ (\A k \in DOMAIN f.merges : MergeOk(f.vocab, f.merges[k])) /\ PipelineOk(f)
\* from_file's checks, in the order of the code.
Accept(f) == /\ ModelOk(f) /\ Missing(f.vocab) = {}
             /\ \A k \in DOMAIN f.merges : MergeOk(f.vocab, f.merges[k])
             /\ PipelineOk(f)

\* added.sort_by: longest first (in bytes).  Two tokens of one length never
\* match at the same place, so their order is left to SortSeq.
LongestFirst(added) == SortSeq(added, LAMBDA a, b : Len(Utf8Bytes(a[1])) > Len(Utf8Bytes(b[1])))

\* The string of each id: an added token only where the vocabulary has none.
IdToToken(f) ==
    LET ofVocab == [id \in {f.vocab[t] : t \in DOMAIN f.vocab} |-> CHOOSE t \in DOMAIN f.vocab : f.vocab[t] = id]
    IN  FoldLeft(LAMBDA m, a : m @@ (a[2] :> a[1]), ofVocab, LongestFirst(f.added))

MergeTable(f) ==
    FoldLeft(LAMBDA m, k : (<<f.vocab[f.merges[k][1]], f.vocab[f.merges[k][2]]>>
                              :> <<k, f.vocab[f.merges[k][1] \o f.merges[k][2]]>>) @@ m,
             <<>>, [k \in DOMAIN f.merges |-> k])

from_file(f) ==
    [byte_char_id |-> [b \in 0 .. 255 |-> IF b \in Missing(f.vocab) THEN 0 ELSE f.vocab[<<byte_to_char(b)>>]],
     id_to_token |-> IdToToken(f), merge |-> MergeTable(f),
     added |-> LongestFirst(f.added), marks_join |-> f.regex = "with marks"]

\* absorb_added_tokens: the file wins on a conflict, an id already named keeps
\* its string, and the order is restored.
AbsorbOne(t, e) ==
    IF \E k \in DOMAIN t.added : t.added[k][1] = e[1] THEN t
    ELSE [t EXCEPT !.added = Append(@, e), !.id_to_token = @ @@ (e[2] :> e[1])]
absorb_added_tokens(t, extra) ==
    LET u == FoldLeft(AbsorbOne, t, extra) IN [u EXCEPT !.added = LongestFirst(@)]

\* from_model_dir: the file, then the config's tokens, then its class.  A directory
\* without tokenizer_config.json is served by the file alone.
from_model_dir(d) ==
    LET t == absorb_added_tokens(from_file(d.file), d.cfg.added)
    IN  IF d.cfg.state = "absent" THEN from_file(d.file)
        ELSE [t EXCEPT !.marks_join = @ /\ d.cfg.class \notin Qwen2Classes]

-----------------------------------------------------------------------------
\* BPE, encode and decode.

RECURSIVE Merge(_, _)
Merge(merge, syms) ==
    LET pair(i) == <<syms[i], syms[i + 1]>>
        cand == {i \in 1 .. Len(syms) - 1 : pair(i) \in DOMAIN merge}
        best == CHOOSE i \in cand : \A j \in cand : \/ merge[pair(i)][1] < merge[pair(j)][1]
                                                    \/ merge[pair(i)][1] = merge[pair(j)][1] /\ i <= j
    IN  IF cand = {} THEN syms
        ELSE Merge(merge, RemoveAt([syms EXCEPT ![best] = merge[pair(best)][2]], best + 1))

bpe(t, piece) == LET bs == Utf8Bytes(piece) IN Merge(t.merge, [k \in DOMAIN bs |-> t.byte_char_id[bs[k]]])

encode_plain(t, s) == FoldLeft(LAMBDA out, p : out \o bpe(t, p), <<>>, pretokenize_with(s, t.marks_join))

MatchesAt(s, i, tok) == i + Len(tok) - 1 <= Len(s) /\ SubSeq(s, i, i + Len(tok) - 1) = tok

\* The first entry of `added` that starts at position i; 0 if there is none.
Hit(t, s, i) == LET hits == {k \in DOMAIN t.added : MatchesAt(s, i, t.added[k][1])}
                IN  IF hits = {} THEN 0 ELSE Min(hits)

\* decode, before from_utf8_lossy, which leaves valid UTF-8 as it is.
ByteOf(ch) == IF char_to_byte(ch) = None THEN Utf8(ch) ELSE <<char_to_byte(ch)>>
decode(t, out) ==
    LET bytes(id) == IF id \in DOMAIN t.id_to_token
                     THEN FoldLeft(LAMBDA bs, ch : bs \o ByteOf(ch), <<>>, t.id_to_token[id]) ELSE <<>>
    IN  FoldLeft(LAMBDA bs, id : bs \o bytes(id), <<>>, out)
=============================================================================
