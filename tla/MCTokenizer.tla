----------------------------- MODULE MCTokenizer -----------------------------
(* Model directories and texts for Tokenizer. *)
EXTENDS ByteBpe

Strings(A, n) == UNION {[1 .. k -> A] : k \in 0 .. n}

\* ' t a 1 + space newline, a mark that composes with nothing
ScanAlphabet == {39, 116, 49, 43, 32, 10, 8413}
NfcAlphabet == {101, 233, 7865, 769, 770, 803, 8413}
HangulAlphabet == {4352, 4449, 4520, 44032, 44033}
OddAlphabet == {8491, 2392, 2325, 2364, 832}
TokenAlphabet == {60, 97, 62, 233}
MCTexts == Strings(ScanAlphabet, 4) \cup Strings(NfcAlphabet, 3) \cup Strings(HangulAlphabet, 3)
           \cup Strings(OddAlphabet, 3) \cup Strings(TokenAlphabet, 4)

ByteVocab == [t \in {<<byte_to_char(b)>> : b \in 0 .. 255} |-> char_to_byte(t[1])]
BaseVocab == ByteVocab @@ (<<116, 116>> :> 256) @@ (<<116, 116, 116>> :> 257) @@ (<<195, 169>> :> 258)
             @@ (<<288, 116>> :> 259)
\* "tt" before "t tt", and the two bytes of U+00E9 (195, 169 stand for themselves)
BaseMerges == << <<<<116>>, <<116>>>>, <<<<116, 116>>, <<116>>>>, <<<<195>>, <<169>>>>, <<<<288>>, <<116>>>> >>

Good == [type |-> "BPE", byte_fallback |-> FALSE, unk_token |-> "null", vocab |-> BaseVocab,
         added |-> << <<<<60, 97>>, 300>> >>, merges |-> BaseMerges,
         normalizer |-> "NFC", regex |-> "with marks", second |-> "ByteLevel", decoder |-> "ByteLevel"]
Config == [state |-> "present", added |-> << <<<<97, 62>>, 301>>, <<<<60, 97, 62>>, 302>>, <<<<60, 97>>, 303>> >>, class |-> "Other"]

BadFiles == { [Good EXCEPT !.type = "Unigram"], [Good EXCEPT !.byte_fallback = TRUE],
              [Good EXCEPT !.unk_token = "<unk>"], [Good EXCEPT !.normalizer = "NFKC"],
              [Good EXCEPT !.regex = "other"], [Good EXCEPT !.second = "Split"], [Good EXCEPT !.decoder = "Metaspace"],
              [Good EXCEPT !.vocab = [t \in DOMAIN BaseVocab \ {<<288>>} |-> BaseVocab[t]], !.merges = SubSeq(@, 1, 3)],
              [Good EXCEPT !.merges = Append(@, <<<<116>>, <<117>>>>)] }

MCDirectories == { [file |-> Good, cfg |-> Config],
                   [file |-> Good, cfg |-> [Config EXCEPT !.class = "Qwen2Tokenizer"]],
                   [file |-> Good, cfg |-> [Config EXCEPT !.class = "Qwen2Tokenizer", !.state = "absent"]],
                   [file |-> Good, cfg |-> [Config EXCEPT !.state = "unreadable"]],
                   [file |-> [Good EXCEPT !.regex = "no marks", !.added = <<>>, !.merges = <<>>],
                    cfg |-> [Config EXCEPT !.added = Reverse(@)]] }
                 \cup { [file |-> f, cfg |-> Config] : f \in BadFiles }

=============================================================================
