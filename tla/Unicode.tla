------------------------------- MODULE Unicode -------------------------------
(***************************************************************************)
(* shell-text: general categories and NFC (unicode_gc.rs) over the         *)
(* generated tables (unicode_tables.rs).  A character is its code point.   *)
(* Each table is cut to the rows that a character of Alphabet or of its    *)
(* (de)compositions needs; the order of the rows, which the binary search  *)
(* relies on, is the generated one.  TLC only: decomposition recurses.     *)
(***************************************************************************)
EXTENDS Integers, Sequences, SequencesExt, FiniteSets

\* LETTER_RANGES, MARK_RANGES, NUMBER_RANGES: inclusive, sorted, disjoint.
LETTER_RANGES == << <<65, 90>>, <<97, 122>>, <<192, 214>>, <<216, 246>>, <<248, 705>>, <<2308, 2361>>,
                    <<2392, 2401>>, <<4348, 4680>>, <<7680, 7957>>, <<8490, 8493>>, <<44032, 55203>> >>
MARK_RANGES == << <<768, 879>>, <<2362, 2364>>, <<8400, 8432>> >>
NUMBER_RANGES == << <<48, 57>>, <<178, 179>>, <<185, 185>> >>

\* DECOMPOSE_1: the singletons (U+0340 -> U+0300, Angstrom -> U+00C5).
DECOMPOSE_1 == (832 :> 768) @@ (8491 :> 197)

\* DECOMPOSE_2: the pairs; each is one step, so U+1EC7 needs two.
DECOMPOSE_2 == (197 :> <<65, 778>>) @@ (233 :> <<101, 769>>) @@ (234 :> <<101, 770>>)
            @@ (2392 :> <<2325, 2364>>) @@ (7865 :> <<101, 803>>) @@ (7871 :> <<234, 769>>)
            @@ (7879 :> <<7865, 770>>) @@ (232 :> <<101, 768>>) @@ (7873 :> <<234, 768>>)

\* CCC: the combining classes that are not zero.
CCC == (768 :> 230) @@ (769 :> 230) @@ (770 :> 230) @@ (778 :> 230) @@ (803 :> 220)
    @@ (832 :> 230) @@ (2364 :> 7)

\* COMPOSE: the pairs that may be put together again.  U+0958 is a
\* composition exclusion: it is in DECOMPOSE_2 and not here.
COMPOSE == (<<65, 778>> :> 197) @@ (<<101, 768>> :> 232) @@ (<<101, 769>> :> 233) @@ (<<101, 770>> :> 234)
        @@ (<<101, 803>> :> 7865) @@ (<<234, 768>> :> 7873) @@ (<<234, 769>> :> 7871) @@ (<<7865, 770>> :> 7879)

\* in_ranges: binary search; lo and hi as in the code, hi exclusive.
RECURSIVE Search(_, _, _, _)
Search(rs, cp, lo, hi) ==
    /\ lo < hi
    /\ LET mid == lo + (hi - lo) \div 2
           r   == rs[mid + 1]
       IN  CASE cp < r[1] -> Search(rs, cp, lo, mid)
             [] cp > r[2] -> Search(rs, cp, mid + 1, hi)
             [] OTHER     -> TRUE
in_ranges(rs, cp) == Search(rs, cp, 0, Len(rs))

is_letter(c) == in_ranges(LETTER_RANGES, c)
is_mark(c)   == in_ranges(MARK_RANGES, c)
is_number(c) == in_ranges(NUMBER_RANGES, c)

ccc(c) == IF c \in DOMAIN CCC THEN CCC[c] ELSE 0

\* The Hangul constants of UAX #15.
S_BASE == 44032
L_BASE == 4352
V_BASE == 4449
T_BASE == 4519
V_COUNT == 21
T_COUNT == 28
N_COUNT == V_COUNT * T_COUNT
S_COUNT == 19 * N_COUNT

IsSyllable(c) == c \in S_BASE .. S_BASE + S_COUNT - 1

\* decompose_one: the full canonical decomposition of one character.
RECURSIVE decompose_one(_)
decompose_one(c) ==
    IF IsSyllable(c)
    THEN LET si == c - S_BASE
             tj == si % T_COUNT
         IN  <<L_BASE + si \div N_COUNT, V_BASE + (si % N_COUNT) \div T_COUNT>>
             \o (IF tj = 0 THEN <<>> ELSE <<T_BASE + tj>>)
    ELSE IF c \in DOMAIN DECOMPOSE_1 THEN decompose_one(DECOMPOSE_1[c])
    ELSE IF c \in DOMAIN DECOMPOSE_2
    THEN decompose_one(DECOMPOSE_2[c][1]) \o decompose_one(DECOMPOSE_2[c][2])
    ELSE <<c>>

None == -1

\* compose: Hangul by arithmetic, before the table.
compose(a, b) ==
    IF a \in L_BASE .. L_BASE + 18 /\ b \in V_BASE .. V_BASE + V_COUNT - 1
    THEN S_BASE + ((a - L_BASE) * V_COUNT + (b - V_BASE)) * T_COUNT
    ELSE IF IsSyllable(a) /\ (a - S_BASE) % T_COUNT = 0 /\ b \in T_BASE + 1 .. T_BASE + T_COUNT - 1
    THEN a + (b - T_BASE)
    ELSE IF <<a, b>> \in DOMAIN COMPOSE THEN COMPOSE[<<a, b>>] ELSE None

Decomposed(s) == FoldLeft(LAMBDA d, c : d \o decompose_one(c), <<>>, s)

\* nfc, step 2: where the insertion sort stops moving character c left; a
\* starter is never moved and never passed.
SortedInto(d, c) ==
    LET stops == {j \in 0 .. Len(d) : /\ \A k \in j + 1 .. Len(d) : ccc(d[k]) > ccc(c)
                                      /\ j = 0 \/ ccc(d[j]) = 0 \/ ccc(d[j]) <= ccc(c)}
        j == IF ccc(c) = 0 THEN Len(d) ELSE CHOOSE j \in stops : TRUE
    IN  InsertAt(d, j + 1, c)
Ordered(d) == FoldLeft(SortedInto, <<>>, d)

\* Mutant: a character composes across one of its own class.
RecomposeUnblocked(st, ch) ==
    LET comp == compose(st.out[st.starter], ch)
    IN  IF comp # None
        THEN [st EXCEPT !.out[st.starter] = comp]
        ELSE [out     |-> Append(st.out, ch),
              starter |-> IF ccc(ch) = 0 THEN Len(st.out) + 1 ELSE st.starter,
              last    |-> ccc(ch)]

\* nfc, step 3: one character onto the output so far.  The state of the loop is
\* the output, the starter's place and the class of the last character kept.
Recompose(st, ch) ==
    LET comp == compose(st.out[st.starter], ch)
        cls  == ccc(ch)
    IN  IF (st.last < cls \/ st.last = 0) /\ comp # None
        THEN [st EXCEPT !.out[st.starter] = comp]
        ELSE [out     |-> Append(st.out, ch),
              starter |-> IF cls = 0 THEN Len(st.out) + 1 ELSE st.starter,
              last    |-> cls]

nfc(s) ==
    LET d == Ordered(Decomposed(s))
    IN  IF d = <<>> THEN <<>>
        ELSE FoldLeft(Recompose, [out |-> <<Head(d)>>, starter |-> 1,
                                  last |-> IF ccc(Head(d)) # 0 THEN 256 ELSE 0], Tail(d)).out

-----------------------------------------------------------------------------
\* The reference: UAX #15, definitions D108-D117, stated without the scan.

\* The canonically ordered decomposition: the arrangement in which no two
\* neighbours with classes c1 > c2 > 0 are left, found by exchanging them.
RECURSIVE Exchanged(_)
Exchanged(d) ==
    LET bad == {k \in 1 .. Len(d) - 1 : ccc(d[k + 1]) > 0 /\ ccc(d[k]) > ccc(d[k + 1])}
    IN  IF bad = {} THEN d
        ELSE LET k == CHOOSE k \in bad : TRUE
             IN  Exchanged([d EXCEPT ![k] = d[k + 1], ![k + 1] = d[k]])
NFD(s) == Exchanged(Decomposed(s))

\* D115: k is blocked from the starter at a by what stands between them.
Blocked(d, a, k) == \E b \in a + 1 .. k - 1 : ccc(d[b]) = 0 \/ ccc(d[b]) >= ccc(d[k])

\* D117: the first character with a last starter before it that it is not
\* blocked from and composes with is replaced, until there is none.
RECURSIVE Composed(_)
Composed(d) ==
    LET starter(k) == {a \in 1 .. k - 1 : ccc(d[a]) = 0 /\ \A b \in a + 1 .. k - 1 : ccc(d[b]) # 0}
        hits == {k \in 2 .. Len(d) : \E a \in starter(k) : ~Blocked(d, a, k) /\ compose(d[a], d[k]) # None}
    IN  IF hits = {} THEN d
        ELSE LET k == CHOOSE k \in hits : \A j \in hits : k <= j
                 a == CHOOSE a \in starter(k) : TRUE
             IN  Composed(RemoveAt([d EXCEPT ![a] = compose(d[a], d[k])], k))
NFCSpec(s) == Composed(NFD(s))
=============================================================================
