------------------------------ MODULE Tokenizer ------------------------------
(***************************************************************************)
(* gdn: a tokenizer being loaded from a model directory and encoding one   *)
(* text (tokenizer.rs, encode): NFC, the scan for added tokens, and BPE on *)
(* the pieces between them.                                                *)
(***************************************************************************)
EXTENDS ByteBpe

CONSTANTS Directories,  \* model directories: [file |-> tokenizer.json, cfg |-> tokenizer_config.json],
                        \*   whose state is "present", "absent" or "unreadable"
          Texts         \* texts to encode

VARIABLES tstage, \* "load", "ready", "scan", "encoded", "refused"
          model,  \* the directory
          tk,     \* the loaded Tokenizer
          text,   \* the caller's text
          normalized, at, plain_start, ids \* the locals of encode (positions from 1)

tokenVars == <<tstage, model, tk, text, normalized, at, plain_start, ids>>

-----------------------------------------------------------------------------
TokenInit == /\ tstage = "load" /\ model \in Directories
             /\ tk = <<>> /\ text = <<>> /\ normalized = <<>> /\ at = 0 /\ plain_start = 0 /\ ids = <<>>

Load == /\ tstage = "load"
        /\ IF Accept(model.file) /\ model.cfg.state # "unreadable" THEN tk' = from_model_dir(model) /\ tstage' = "ready"
           ELSE tk' = tk /\ tstage' = "refused"
        /\ UNCHANGED <<model, text, normalized, at, plain_start, ids>>

\* encode: NFC first, then the scan for added tokens.
Encode(s) == /\ tstage = "ready"
             /\ text' = s /\ normalized' = nfc(s)
             /\ at' = 1 /\ plain_start' = 1 /\ tstage' = "scan"
             /\ UNCHANGED <<model, tk, ids>>

Plain(from, to) == IF from <= to THEN encode_plain(tk, SubSeq(normalized, from, to)) ELSE <<>>

ScanToken ==
    LET k == Hit(tk, normalized, at)
    IN  /\ tstage = "scan" /\ at <= Len(normalized) /\ k # 0
        /\ ids' = ids \o Plain(plain_start, at - 1) \o <<tk.added[k][2]>>
        /\ at' = at + Len(tk.added[k][1]) /\ plain_start' = at'
        /\ UNCHANGED <<tstage, model, tk, text, normalized>>

\* Characters at which no added token starts are passed one by one.
ScanPlain ==
    LET stops == {i \in at .. Len(normalized) : Hit(tk, normalized, i) # 0}
    IN  /\ tstage = "scan" /\ at <= Len(normalized) /\ Hit(tk, normalized, at) = 0
        /\ at' = IF stops = {} THEN Len(normalized) + 1 ELSE Min(stops)
        /\ UNCHANGED <<tstage, model, tk, text, normalized, plain_start, ids>>

ScanEnd == /\ tstage = "scan" /\ at > Len(normalized)
           /\ ids' = ids \o Plain(plain_start, Len(normalized))
           /\ tstage' = "encoded"
           /\ UNCHANGED <<model, tk, text, normalized, at, plain_start>>

TokenNext == Load \/ (\E s \in Texts : Encode(s)) \/ ScanToken \/ ScanPlain \/ ScanEnd

-----------------------------------------------------------------------------
\* The references the properties compare with.

\* The pre-tokenizer's regex under Perl semantics.  An item is a class with the
\* least and the most repetitions; Ends lists the ends of a match in the order a
\* backtracking matcher finds them.
Item(P, lo, hi) == [class |-> P, lo |-> lo, hi |-> hi]
Many == 9
InClass(name, x) == CASE name = "newline" -> x \in Newlines
                      [] name = "space" -> IsWhitespace(x)
                      [] name = "blank" -> x = Space
                      [] name = "L" -> is_letter(x)
                      [] name = "LM" -> is_letter(x) \/ is_mark(x)
                      [] name = "N" -> is_number(x)
                      [] name = "notNlLN" -> ~(x \in Newlines \/ is_letter(x) \/ is_number(x))
                      [] name = "notSLN" -> ~(IsWhitespace(x) \/ is_letter(x) \/ is_number(x))
                      [] name = "notSLMN" -> ~(IsWhitespace(x) \/ is_letter(x) \/ is_mark(x) \/ is_number(x))

RECURSIVE Ends(_, _, _)
Ends(items, c, i) ==
    IF items = <<>> THEN <<i>>
    ELSE IF Head(items).class = "not before S"
    THEN IF i <= Len(c) /\ ~IsWhitespace(c[i]) THEN <<>> ELSE Ends(Tail(items), c, i)
    ELSE LET it == Head(items)
             can(k) == i + k - 1 <= Len(c) /\ \A j \in i .. i + k - 1 : InClass(it.class, c[j])
             counts == {k \in it.lo .. it.hi : can(k)}
         IN  FoldLeft(LAMBDA r, k : r \o Ends(Tail(items), c, i + k), <<>>,
                      Reverse(SetToSortSeq(counts, <)))

Patterns(marks_join) ==
    << <<Item("notNlLN", 0, 1), Item(IF marks_join THEN "LM" ELSE "L", 1, Many)>>,
       <<Item("N", 1, 1)>>,
       <<Item("blank", 0, 1), Item(IF marks_join THEN "notSLMN" ELSE "notSLN", 1, Many), Item("newline", 0, Many)>>,
       <<Item("space", 0, Many), Item("newline", 1, Many)>>,
       <<Item("space", 1, Many), Item("not before S", 0, 0)>>,
       <<Item("space", 1, Many)>> >>

Contractions == {<<115>>, <<116>>, <<114, 101>>, <<118, 101>>, <<109>>, <<108, 108>>, <<100>>}

RegexEnd(c, i, marks_join) ==
    LET lower == [k \in DOMAIN c |-> Lower(c[k])]
        short == {q \in Contractions : c[i] = Quote /\ MatchesAt(lower, i + 1, q)}
        ends  == FoldLeft(LAMBDA r, p : r \o Ends(p, c, i), <<>>, Patterns(marks_join))
    IN  IF short # {} THEN i + 1 + Len(CHOOSE q \in short : TRUE) ELSE Head(ends)

RECURSIVE RegexPieces(_, _, _)
RegexPieces(c, i, marks_join) ==
    IF i > Len(c) THEN <<>>
    ELSE LET j == RegexEnd(c, i, marks_join)
         IN  <<SubSeq(c, i, j - 1)>> \o RegexPieces(c, j, marks_join)

\* What the directory says the tokens and the pattern are.
Configured == model.cfg.state = "present"
AllAdded == ToSet(model.file.added) \cup
            {e \in ToSet(model.cfg.added) : Configured /\ \A a \in ToSet(model.file.added) : a[1] # e[1]}
ServedMarks == model.file.regex = "with marks" /\ ~(Configured /\ model.cfg.class \in Qwen2Classes)

\* Leftmost-longest split at the added tokens, the regex in between.
RECURSIVE Reference(_)
Reference(s) ==
    LET starts(i) == {a \in AllAdded : MatchesAt(s, i, a[1])}
        places == {i \in 1 .. Len(s) : starts(i) # {}}
        plain(p) == FoldLeft(LAMBDA out, q : out \o bpe(tk, q), <<>>, RegexPieces(p, 1, ServedMarks))
    IN  IF places = {} THEN plain(s)
        ELSE LET i == Min(places)
                 a == CHOOSE a \in starts(i) : \A b \in starts(i) : Len(a[1]) >= Len(b[1])
             IN  plain(SubSeq(s, 1, i - 1)) \o <<a[2]>> \o Reference(SubSeq(s, i + Len(a[1]), Len(s)))

-----------------------------------------------------------------------------
\* The ids are those of the shipped pipeline: the added tokens of both files
\* split out leftmost-longest, and the text between them cut by the regex with
\* Perl's backtracking, which the hand-written scanner of match_alternative has
\* to reproduce for either treatment of combining marks.
EncodeIsReference == tstage = "encoded" => ids = Reference(NFCSpec(text))

\* decode(encode(x)) is nfc(x), as unicode_gc.rs says: with every byte in the
\* vocabulary no byte is lost, whatever BPE merged and wherever an added token or
\* a multi-byte character was cut.
RoundTrip == tstage = "encoded" => decode(tk, ids) = Utf8Bytes(NFCSpec(text))

\* nfc computes the normal form of UAX #15 with one insertion sort and one scan:
\* it agrees with the definition by exchange and blocking, keeps the canonical
\* decomposition and does nothing a second time.
NfcCanonical ==
    tstage = "scan" => /\ normalized = NFCSpec(text)
                       /\ NFD(normalized) = NFD(text)
                       /\ nfc(normalized) = normalized
=============================================================================
