------------------------------ MODULE DataLemmas ------------------------------
(***************************************************************************)
(* Lemmas that several proofs use: quotients and multiples, least elements *)
(* and what follows from them (induction, recursion), and queues and       *)
(* stacks whose elements are all different.                                *)
(*                                                                         *)
(* Induction is over a set of numbers, so that no lemma takes an operator. *)
(***************************************************************************)
EXTENDS Integers, Sequences, FiniteSets, SequencesExt, FiniteSetsExt, SequenceTheorems,
        FiniteSetTheorems, WellFoundedInduction, TLAPS

\* Quotient and remainder.
LEMMA DivMod ==
    ASSUME NEW x \in Nat, NEW y \in Nat \ {0}
    PROVE  /\ x \div y \in Nat /\ (x % y) \in 0..(y - 1)
           /\ x = y * (x \div y) + (x % y)
  OBVIOUS

\* A quotient and a remainder in range are the quotient and the remainder.
LEMMA DivUnique ==
    ASSUME NEW y \in Nat \ {0}, NEW q \in Int, NEW r \in 0..(y - 1)
    PROVE  (y * q + r) \div y = q /\ (y * q + r) % y = r
  OBVIOUS

\* Multiples: closed under sums, and their quotient.
LEMMA Multiple ==
    ASSUME NEW x \in Nat, NEW y \in Nat \ {0}, x % y = 0
    PROVE  \E q \in Nat : x = y * q
  <1>1. x \div y \in Nat /\ x = y * (x \div y) + (x % y) BY DivMod
  <1>2. x = y * (x \div y) BY <1>1
  <1> QED BY <1>1, <1>2

\* Two numbers that differ by a multiple leave the same remainder.
LEMMA SameRemainder ==
    ASSUME NEW w \in Nat \ {0}, NEW k \in Int, NEW y \in Int
    PROVE  (w * k + y) % w = y % w
  <1>1. PICK q \in Int, r \in 0..(w - 1) : y = w * q + r /\ r = y % w
    OBVIOUS
  <1>2. w * k + y = w * (k + q) + r BY <1>1
  <1>3. k + q \in Int BY <1>1
  <1>4. (w * (k + q) + r) % w = r BY <1>1, <1>3, DivUnique
  <1> QED BY <1>1, <1>2, <1>4

\* A product may be reduced before it is multiplied.
LEMMA ReduceFactor ==
    ASSUME NEW w \in Nat \ {0}, NEW x \in Int, NEW c \in Int
    PROVE  ((x % w) * c) % w = (x * c) % w
  <1>1. PICK q \in Int, r \in 0..(w - 1) : x = w * q + r /\ r = x % w
    OBVIOUS
  <1>2. x * c = w * (q * c) + r * c BY <1>1
  <1>3. q * c \in Int /\ r * c \in Int BY <1>1
  <1>4. (w * (q * c) + r * c) % w = (r * c) % w BY <1>3, SameRemainder
  <1> QED BY <1>1, <1>2, <1>4

\* A product is a multiple of its factor.
LEMMA MultipleOf ==
    ASSUME NEW q \in Nat, NEW y \in Nat \ {0}
    PROVE  (y * q) % y = 0 /\ y * q \in Nat
  <1>1. (y * q + 0) % y = 0 BY DivUnique
  <1>2. y * q \in Nat OBVIOUS
  <1> QED BY <1>1, <1>2

\* The sum of two multiples is one.
LEMMA SumOfMultiples ==
    ASSUME NEW a \in Nat, NEW b \in Nat, NEW y \in Nat \ {0}, a % y = 0, b % y = 0
    PROVE  (a + b) % y = 0
  <1>1. PICK p \in Nat : a = y * p BY Multiple
  <1>2. PICK q \in Nat : b = y * q BY Multiple
  <1>3. a + b = y * (p + q) /\ p + q \in Nat BY <1>1, <1>2
  <1> QED BY <1>3, MultipleOf

\* A multiple of a multiple is one.
LEMMA MultipleOfMultiple ==
    ASSUME NEW a \in Nat, NEW b \in Nat \ {0}, NEW y \in Nat \ {0}, a % b = 0, b % y = 0
    PROVE  a % y = 0
  <1>1. PICK p \in Nat : a = b * p BY Multiple
  <1>2. PICK q \in Nat : b = y * q BY Multiple
  <1>3. a = y * (q * p) /\ q * p \in Nat BY <1>1, <1>2
  <1> QED BY <1>3, MultipleOf

\* A positive multiple is not smaller.
LEMMA MultipleAtLeast ==
    ASSUME NEW a \in Nat \ {0}, NEW y \in Nat \ {0}, a % y = 0
    PROVE  a >= y
  <1>1. PICK p \in Nat : a = y * p BY Multiple
  <1>2. p # 0 BY <1>1
  <1>3. y * p >= y * 1 BY <1>2
  <1> QED BY <1>1, <1>3

\* A nonempty set of naturals has a least element, given that < is well founded.
LEMMA LeastBy ==
    ASSUME NEW R, IsWellFoundedOn(R, Nat), \A x, y \in Nat : y < x => <<y, x>> \in R,
           NEW S, S \subseteq Nat, S # {}
    PROVE  Min(S) \in S /\ \A x \in S : Min(S) <= x
  <1>1. PICK x \in S : \A y \in S : ~ (<<y, x>> \in R) BY WFMin
  <1>2. ASSUME NEW y \in S PROVE x <= y
    <2>1. x \in Nat /\ y \in Nat OBVIOUS
    <2>2. ~ (<<y, x>> \in R) BY <1>1
    <2>3. ~ (y < x) BY <2>1, <2>2
    <2> QED BY <2>1, <2>3
  <1> QED BY <1>2 DEF Min

\* A nonempty set of naturals has a least element.
LEMMA Least ==
    ASSUME NEW S, S \subseteq Nat, S # {}
    PROVE  Min(S) \in S /\ \A x \in S : Min(S) <= x
  <1>1. \A x, y \in Nat : y < x => <<y, x>> \in OpToRel(<, Nat) BY DEF OpToRel
  <1> QED BY <1>1, NatLessThanWellFounded, LeastBy, Zenon

\* A set of numbers below v has a greatest.
LEMMA Greatest ==
    ASSUME NEW v \in Nat, NEW S, S \subseteq 0 .. v, S # {}
    PROVE  Max(S) \in S /\ \A y \in S : Max(S) >= y
  <1> DEFINE R == {v - x : x \in S}
             m == Min(R)
  <1>1. R \subseteq Nat /\ R # {}
    <2>1. \A x \in S : v - x \in Nat
      <3> TAKE x \in S
      <3>1. x \in 0 .. v OBVIOUS
      <3> QED BY <3>1
    <2>2. PICK x \in S : TRUE OBVIOUS
    <2>3. v - x \in R BY <2>2
    <2> QED BY <2>1, <2>3
  <1>2. m \in R /\ \A y \in R : m <= y
    <2> HIDE DEF R
    <2> QED BY <1>1, Least
  <1> HIDE DEF m
  <1>3. PICK x \in S : m = v - x BY <1>2
  <1>4. \A y \in S : x >= y
    <2> TAKE y \in S
    <2>1. v - y \in R /\ m <= v - y BY <1>2
    <2> QED BY <1>3, <2>1
  <1> QED BY <1>3, <1>4 DEF Max

\* The smaller of two numbers.
LEMMA Smaller ==
    ASSUME NEW a \in Int, NEW b \in Int, NEW m, m = Min({a, b})
    PROVE  m \in Int /\ (m = a \/ m = b) /\ m <= a /\ m <= b
  <1>1. \E x \in {a, b} : \A y \in {a, b} : x <= y
    <2>1. a <= b \/ b <= a OBVIOUS
    <2>2. a <= a /\ b <= b OBVIOUS
    <2> QED BY <2>1, <2>2
  <1> DEFINE S == {a, b}
  <1>2. m = Min(S) OBVIOUS
  <1> HIDE DEF S
  <1>3. m \in S /\ \A y \in S : m <= y BY <1>1, <1>2 DEF Min, S
  <1> QED BY <1>3 DEF S

\* The larger of two numbers.
LEMMA Larger ==
    ASSUME NEW a \in Int, NEW b \in Int, NEW m, m = Max({a, b})
    PROVE  m \in Int /\ (m = a \/ m = b) /\ m >= a /\ m >= b
  <1>1. \E x \in {a, b} : \A y \in {a, b} : x >= y
    <2>1. a >= b \/ b >= a OBVIOUS
    <2>2. a >= a /\ b >= b OBVIOUS
    <2> QED BY <2>1, <2>2
  <1> DEFINE S == {a, b}
  <1>2. m = Max(S) OBVIOUS
  <1> HIDE DEF S
  <1>3. m \in S /\ \A y \in S : m >= y BY <1>1, <1>2 DEF Max, S
  <1> QED BY <1>3 DEF S

\* Induction: a set with 0 and the successor of each of its numbers has them all.
LEMMA Induct ==
    ASSUME NEW T, 0 \in T, \A k \in Nat : k \in T => k + 1 \in T
    PROVE  \A k \in Nat : k \in T
  <1> DEFINE U == Nat \ T
  <1> SUFFICES ASSUME U # {} PROVE FALSE OBVIOUS
  <1> DEFINE m == Min(U)
  <1>1. m \in U /\ \A x \in U : m <= x BY Least
  <1> HIDE DEF m
  <1>2. m \in Nat /\ m # 0 BY <1>1
  <1>3. m - 1 \in Nat /\ ~(m <= m - 1) BY <1>2
  <1>4. m - 1 \in T BY <1>1, <1>3
  <1>5. (m - 1) + 1 = m BY <1>2
  <1> QED BY <1>1, <1>3, <1>4, <1>5

\* A recursive function on 0..n exists.
LEMMA Recursion ==
    ASSUME NEW S, NEW a \in S, NEW n \in Nat, NEW F \in [(1..n) \X S -> S]
    PROVE  \E g \in [0..n -> S] : g[0] = a /\ \A k \in 1..n : g[k] = F[<<k, g[k - 1]>>]
  <1> DEFINE Good(m, g) == /\ g \in [0..m -> S] /\ g[0] = a
                           /\ \A k \in 1..m : g[k] = F[<<k, g[k - 1]>>]
             T == {m \in Nat : m <= n => \E g : Good(m, g)}
  <1>1. 0 \in T
    <2>1. Good(0, [k \in 0..0 |-> a]) OBVIOUS
    <2> QED BY <2>1
  <1>2. ASSUME NEW m \in Nat, m \in T PROVE m + 1 \in T
    <2> SUFFICES ASSUME m + 1 <= n PROVE \E h : Good(m + 1, h) OBVIOUS
    <2>1. PICK g : Good(m, g) BY <1>2
    <2> DEFINE h == [k \in 0..(m + 1) |-> IF k = m + 1 THEN F[<<m + 1, g[m]>>] ELSE g[k]]
    <2>2. m \in 0..m /\ m + 1 \in 1..n OBVIOUS
    <2>3. g[m] \in S BY <2>1, <2>2
    <2>4. F[<<m + 1, g[m]>>] \in S BY <2>2, <2>3
    <2>5. h \in [0..(m + 1) -> S]
      <3>1. ASSUME NEW k \in 0..(m + 1) PROVE (IF k = m + 1 THEN F[<<m + 1, g[m]>>] ELSE g[k]) \in S
        <4>1. CASE k = m + 1 BY <2>4, <4>1
        <4>2. CASE k # m + 1
          <5>1. k \in 0..m BY <4>2
          <5> QED BY <2>1, <4>2, <5>1
        <4> QED BY <4>1, <4>2
      <3> QED BY <3>1
    <2>6. \A k \in 0..m : h[k] = g[k] OBVIOUS
    <2>7. h[m + 1] = F[<<m + 1, g[m]>>] OBVIOUS
    <2> HIDE DEF h
    <2>8. h[0] = a BY <2>1, <2>6
    <2>9. ASSUME NEW k \in 1..(m + 1) PROVE h[k] = F[<<k, h[k - 1]>>]
      <3>1. k - 1 \in 0..m /\ (k \in 1..m \/ k = m + 1) OBVIOUS
      <3>2. CASE k \in 1..m
        <4>1. k \in 0..m /\ k - 1 \in 0..m BY <3>2
        <4> QED BY <2>1, <2>6, <3>2, <4>1
      <3>3. CASE k = m + 1 BY <2>2, <2>6, <2>7, <3>3
      <3> QED BY <3>1, <3>2, <3>3
    <2>10. Good(m + 1, h) BY <2>5, <2>8, <2>9
    <2> QED BY <2>10
  <1> HIDE DEF T
  <1>3. n \in T BY <1>1, <1>2, Induct
  <1> QED BY <1>3 DEF T

-----------------------------------------------------------------------------
\* The elements of a sequence by their places.
LEMMA SetOf ==
    ASSUME NEW S, NEW s \in Seq(S)
    PROVE  /\ Len(s) \in Nat /\ DOMAIN s = 1..Len(s)
           /\ ToSet(s) \subseteq S
           /\ \A x : x \in ToSet(s) <=> \E k \in 1..Len(s) : s[k] = x
           /\ s = <<>> <=> Len(s) = 0
           /\ ToSet(s) = {} <=> Len(s) = 0
           /\ IsInjective(s) <=> \A a, b \in 1..Len(s) : s[a] = s[b] => a = b
  <1>1. Len(s) \in Nat /\ DOMAIN s = 1..Len(s) BY LenProperties
  <1>2. \A k \in 1..Len(s) : s[k] \in S BY ElementOfSeq
  <1>3. \A x : x \in ToSet(s) <=> \E k \in 1..Len(s) : s[k] = x
    BY <1>1 DEF ToSet
  <1>4. s = <<>> <=> Len(s) = 0 BY <1>1, EmptySeq
  <1>5. ToSet(s) = {} <=> Len(s) = 0
    <2>1. Len(s) # 0 => s[1] \in ToSet(s) BY <1>1, <1>3
    <2>2. Len(s) = 0 => \A x : x \notin ToSet(s) BY <1>1, <1>3
    <2> QED BY <2>1, <2>2
  <1> QED BY <1>1, <1>2, <1>3, <1>4, <1>5 DEF IsInjective

\* A new element at the end.
LEMMA PushBack ==
    ASSUME NEW S, NEW s \in Seq(S), NEW e \in S
    PROVE  /\ Append(s, e) \in Seq(S) /\ Len(Append(s, e)) = Len(s) + 1
           /\ ToSet(Append(s, e)) = ToSet(s) \cup {e}
           /\ IsInjective(s) /\ e \notin ToSet(s) => IsInjective(Append(s, e))
  <1> DEFINE u == Append(s, e)
  <1>1. /\ u \in Seq(S) /\ Len(u) = Len(s) + 1 /\ u[Len(s) + 1] = e
        /\ \A i \in 1..Len(s) : u[i] = s[i]
    BY AppendProperties
  <1> HIDE DEF u
  <1>2. Len(s) \in Nat BY SetOf
  <1>3. ASSUME NEW x PROVE x \in ToSet(u) <=> x \in ToSet(s) \cup {e}
    <2>1. x \in ToSet(u) <=> \E k \in 1..Len(u) : u[k] = x BY <1>1, SetOf
    <2>2. x \in ToSet(s) <=> \E k \in 1..Len(s) : s[k] = x BY SetOf
    <2>3. ASSUME x \in ToSet(u) PROVE x \in ToSet(s) \cup {e}
      <3>1. PICK k \in 1..Len(u) : u[k] = x BY <2>1, <2>3
      <3>2. k \in 1..Len(s) \/ k = Len(s) + 1 BY <1>1, <1>2
      <3> QED BY <1>1, <2>2, <3>1, <3>2
    <2>4. ASSUME x \in ToSet(s) PROVE x \in ToSet(u)
      <3>1. PICK k \in 1..Len(s) : s[k] = x BY <2>2, <2>4
      <3>2. k \in 1..Len(u) /\ u[k] = x BY <1>1, <1>2, <3>1
      <3> QED BY <2>1, <3>2
    <2>5. x = e => x \in ToSet(u)
      <3>1. Len(s) + 1 \in 1..Len(u) BY <1>1, <1>2
      <3> QED BY <1>1, <2>1, <3>1
    <2> QED BY <2>3, <2>4, <2>5
  <1>4. ASSUME IsInjective(s), e \notin ToSet(s) PROVE IsInjective(u)
    <2> SUFFICES ASSUME NEW a \in 1..Len(u), NEW b \in 1..Len(u), u[a] = u[b], a < b
                 PROVE  FALSE
      BY <1>1, <1>2, SetOf
    <2>1. a \in 1..Len(s) /\ u[a] = s[a] BY <1>1, <1>2
    <2>2. s[a] \in ToSet(s) BY <2>1, SetOf
    <2>3. CASE b \in 1..Len(s)
      <3>1. s[a] = s[b] BY <1>1, <2>1, <2>3
      <3> QED BY <1>4, <2>1, <2>3, <3>1, SetOf
    <2>4. CASE b = Len(s) + 1 BY <1>1, <1>4, <2>1, <2>2, <2>4
    <2> QED BY <1>1, <1>2, <2>3, <2>4
  <1> QED BY <1>1, <1>3, <1>4 DEF u

\* u is s without its first n elements.
LEMMA Suffix ==
    ASSUME NEW S, NEW s \in Seq(S), NEW u \in Seq(S), NEW n \in 0..Len(s),
           Len(u) = Len(s) - n, \A k \in 1..Len(u) : u[k] = s[k + n],
           IsInjective(s)
    PROVE  /\ IsInjective(u)
           /\ \A x : x \in ToSet(u) <=> x \in ToSet(s) /\ \A k \in 1..n : s[k] # x
  <1>1. Len(s) \in Nat /\ n \in Nat /\ n <= Len(s) BY SetOf
  <1>2. \A a, b \in 1..Len(s) : s[a] = s[b] => a = b BY SetOf
  <1>3. IsInjective(u)
    <2>1. ASSUME NEW a \in 1..Len(u), NEW b \in 1..Len(u), u[a] = u[b] PROVE a = b
      <3>1. a + n \in 1..Len(s) /\ b + n \in 1..Len(s) BY <1>1
      <3>2. s[a + n] = s[b + n] BY <2>1
      <3>3. a + n = b + n BY <1>2, <3>1, <3>2
      <3> QED BY <1>1, <3>3
    <2> QED BY <2>1, SetOf
  <1>4. ASSUME NEW x
        PROVE  x \in ToSet(u) <=> x \in ToSet(s) /\ \A k \in 1..n : s[k] # x
    <2>1. x \in ToSet(u) <=> \E k \in 1..Len(u) : u[k] = x BY SetOf
    <2>2. x \in ToSet(s) <=> \E k \in 1..Len(s) : s[k] = x BY SetOf
    <2>3. ASSUME x \in ToSet(u) PROVE x \in ToSet(s) /\ \A k \in 1..n : s[k] # x
      <3>1. PICK k \in 1..Len(u) : u[k] = x BY <2>1, <2>3
      <3>2. k + n \in 1..Len(s) /\ s[k + n] = x BY <1>1, <3>1
      <3>3. \A m \in 1..n : m \in 1..Len(s) /\ m # k + n BY <1>1
      <3> QED BY <1>2, <2>2, <3>2, <3>3
    <2>4. ASSUME x \in ToSet(s), \A k \in 1..n : s[k] # x PROVE x \in ToSet(u)
      <3>1. PICK k \in 1..Len(s) : s[k] = x BY <2>2, <2>4
      <3>2. k \notin 1..n BY <2>4, <3>1
      <3>3. k - n \in 1..Len(u) /\ u[k - n] = x BY <1>1, <3>1, <3>2
      <3> QED BY <2>1, <3>3
    <2> QED BY <2>3, <2>4
  <1> QED BY <1>3, <1>4

\* The first n elements leave a queue.
LEMMA Drop ==
    ASSUME NEW S, NEW s \in Seq(S), NEW n \in 0..Len(s), IsInjective(s)
    PROVE  /\ SubSeq(s, n + 1, Len(s)) \in Seq(S)
           /\ Len(SubSeq(s, n + 1, Len(s))) = Len(s) - n
           /\ IsInjective(SubSeq(s, n + 1, Len(s)))
           /\ ToSet(SubSeq(s, n + 1, Len(s))) = ToSet(s) \ {s[k] : k \in 1..n}
           /\ {s[k] : k \in 1..n} \subseteq ToSet(s)
           /\ IsFiniteSet({s[k] : k \in 1..n}) /\ Cardinality({s[k] : k \in 1..n}) = n
  <1> DEFINE u == SubSeq(s, n + 1, Len(s))
             gone == {s[k] : k \in 1..n}
  <1>1. Len(s) \in Nat /\ n \in Nat /\ n <= Len(s) BY SetOf
  <1>2. /\ u \in Seq(S) /\ Len(u) = Len(s) - n
        /\ \A k \in 1..Len(u) : u[k] = s[k + n]
    <2>1. \A i \in (n + 1)..Len(s) : s[i] \in S BY <1>1, ElementOfSeq
    <2>2. /\ u \in Seq(S)
          /\ Len(u) = IF n + 1 <= Len(s) THEN Len(s) - (n + 1) + 1 ELSE 0
          /\ \A i \in 1..(Len(s) - (n + 1) + 1) : u[i] = s[n + 1 + i - 1]
      BY <1>1, <2>1, SubSeqProperties
    <2> QED BY <1>1, <2>2
  <1> HIDE DEF u
  <1>3. /\ IsInjective(u)
        /\ \A x : x \in ToSet(u) <=> x \in ToSet(s) /\ \A k \in 1..n : s[k] # x
    BY <1>2, Suffix
  <1>4. ToSet(u) = ToSet(s) \ gone BY <1>3
  <1>5. gone \subseteq ToSet(s)
    <2>1. \A k \in 1..n : s[k] \in ToSet(s) BY <1>1, SetOf
    <2> QED BY <2>1
  <1>6. IsFiniteSet(gone) /\ Cardinality(gone) = n
    <2> DEFINE f == [k \in 1..n |-> s[k]]
    <2>1. IsFiniteSet(1..n) /\ Cardinality(1..n) = n BY <1>1, FS_Interval
    <2>2. \A a, b \in 1..n : s[a] = s[b] => a = b
      <3>1. \A a \in 1..n : a \in 1..Len(s) BY <1>1
      <3> QED BY <3>1, SetOf
    <2>3. f \in Bijection(1..n, gone)
      BY <2>2 DEF Bijection, Injection, Surjection, IsInjective
    <2>4. ExistsBijection(1..n, gone) BY <2>3 DEF ExistsBijection
    <2> QED BY <2>1, <2>4, FS_Bijection
  <1> QED BY <1>2, <1>3, <1>4, <1>5, <1>6 DEF u

\* There are as many elements as places.
LEMMA SetSize ==
    ASSUME NEW S, NEW s \in Seq(S), IsInjective(s)
    PROVE  IsFiniteSet(ToSet(s)) /\ Cardinality(ToSet(s)) = Len(s)
  <1>1. Len(s) \in Nat /\ Len(s) \in 0..Len(s) BY SetOf
  <1>2. ASSUME NEW n \in 0..Len(s)
        PROVE  /\ IsFiniteSet({s[k] : k \in 1..n})
               /\ Cardinality({s[k] : k \in 1..n}) = n
    BY Drop
  <1>3. ToSet(s) = {s[k] : k \in 1..Len(s)}
    <2>1. \A x : x \in ToSet(s) <=> \E k \in 1..Len(s) : s[k] = x BY SetOf
    <2> QED BY <2>1
  <1> QED BY <1>1, <1>2, <1>3

\* The first element leaves a queue.
LEMMA PopFront ==
    ASSUME NEW S, NEW s \in Seq(S), s # <<>>
    PROVE  /\ Head(s) \in S /\ Head(s) = s[1] /\ Head(s) \in ToSet(s)
           /\ Tail(s) \in Seq(S) /\ Len(Tail(s)) = Len(s) - 1
           /\ \A k \in 1..Len(Tail(s)) : Tail(s)[k] = s[k + 1]
           /\ IsInjective(s) =>
                IsInjective(Tail(s)) /\ ToSet(Tail(s)) = ToSet(s) \ {Head(s)}
  <1>1. Len(s) \in Nat \ {0} BY EmptySeq
  <1>2. Head(s) = s[1] /\ Head(s) \in S BY <1>1, HeadTailProperties
  <1>3. s[1] \in ToSet(s) BY <1>1, SetOf
  <1>4. /\ Tail(s) \in Seq(S) /\ Len(Tail(s)) = Len(s) - 1
        /\ \A k \in 1..Len(Tail(s)) : Tail(s)[k] = s[k + 1]
    BY HeadTailProperties
  <1>5. ASSUME IsInjective(s)
        PROVE  IsInjective(Tail(s)) /\ ToSet(Tail(s)) = ToSet(s) \ {s[1]}
    <2> DEFINE u == Tail(s)
               n == 1
    <2>1. /\ u \in Seq(S) /\ n \in 0..Len(s) /\ Len(u) = Len(s) - n
          /\ \A k \in 1..Len(u) : u[k] = s[k + n]
      BY <1>1, <1>4
    <2>2. \A x : (\A k \in 1..n : s[k] # x) <=> s[1] # x OBVIOUS
    <2> HIDE DEF u, n
    <2>3. /\ IsInjective(u)
          /\ \A x : x \in ToSet(u) <=> x \in ToSet(s) /\ \A k \in 1..n : s[k] # x
      BY <1>5, <2>1, Suffix
    <2>4. ToSet(u) = ToSet(s) \ {s[1]} BY <2>2, <2>3
    <2> QED BY <2>3, <2>4 DEF u
  <1> QED BY <1>2, <1>3, <1>4, <1>5

\* The last element leaves a stack.
LEMMA PopBack ==
    ASSUME NEW S, NEW s \in Seq(S), s # <<>>
    PROVE  /\ Last(s) \in ToSet(s) /\ Last(s) \in S /\ Last(s) = s[Len(s)]
           /\ Front(s) \in Seq(S) /\ Len(Front(s)) = Len(s) - 1
           /\ \A k \in 1..(Len(s) - 1) : Front(s)[k] = s[k]
           /\ IsInjective(s) =>
                IsInjective(Front(s)) /\ ToSet(Front(s)) = ToSet(s) \ {Last(s)}
  <1> DEFINE u == Front(s)
             n == Len(s)
  <1>1. n \in Nat \ {0} BY EmptySeq
  <1>2. Last(s) = s[n] /\ s[n] \in S BY <1>1, ElementOfSeq DEF Last
  <1>3. /\ u \in Seq(S) /\ Len(u) = n - 1 /\ \A k \in 1..(n - 1) : u[k] = s[k]
    <2>1. \A i \in 1..(n - 1) : s[i] \in S BY <1>1, ElementOfSeq
    <2>2. /\ u \in Seq(S)
          /\ Len(u) = IF 1 <= n - 1 THEN (n - 1) - 1 + 1 ELSE 0
          /\ \A i \in 1..((n - 1) - 1 + 1) : u[i] = s[1 + i - 1]
      BY <1>1, <2>1, SubSeqProperties DEF Front
    <2> HIDE DEF u, n
    <2>3. \A i \in 1..(n - 1) : 1 + i - 1 = i /\ i \in 1..((n - 1) - 1 + 1) BY <1>1
    <2>4. Len(u) = n - 1 BY <1>1, <2>2
    <2> QED BY <2>2, <2>3, <2>4
  <1> HIDE DEF u, n
  <1>4. s[n] \in ToSet(s) BY <1>1, SetOf DEF n
  <1>5. ASSUME IsInjective(s) PROVE IsInjective(u) /\ ToSet(u) = ToSet(s) \ {s[n]}
    <2>1. \A a, b \in 1..n : s[a] = s[b] => a = b BY <1>5, SetOf DEF n
    <2>2. \A a, b \in 1..Len(u) : u[a] = u[b] => a = b BY <1>1, <1>3, <2>1
    <2>3. IsInjective(u) BY <1>3, <2>2, SetOf
    <2>4. ASSUME NEW x PROVE x \in ToSet(u) <=> x \in ToSet(s) /\ x # s[n]
      <3>1. x \in ToSet(u) <=> \E k \in 1..(n - 1) : s[k] = x BY <1>3, SetOf
      <3>2. x \in ToSet(s) <=> \E k \in 1..n : s[k] = x BY SetOf DEF n
      <3>3. ASSUME NEW k \in 1..n PROVE k \in 1..(n - 1) <=> s[k] # s[n]
        BY <1>1, <2>1
      <3>4. \A k \in 1..(n - 1) : k \in 1..n BY <1>1
      <3> QED BY <3>1, <3>2, <3>3, <3>4
    <2> QED BY <2>3, <2>4
  <1> QED BY <1>2, <1>3, <1>4, <1>5 DEF u, n

-----------------------------------------------------------------------------
\* A sequence of whatever elements.
IsSeq(s) == s \in Seq({s[k] : k \in 1..Len(s)})

\* A sequence may be extended by anything.
LEMMA Extend ==
    ASSUME NEW s, IsSeq(s), NEW e
    PROVE  /\ IsSeq(Append(s, e)) /\ Len(s) \in Nat /\ Len(Append(s, e)) = Len(s) + 1
           /\ \A k \in 1..Len(s) : Append(s, e)[k] = s[k]
           /\ Append(s, e)[Len(s) + 1] = e
  <1> DEFINE R == {s[k] : k \in 1..Len(s)}
             S == R \cup {e}
             t == Append(s, e)
  <1>1. s \in Seq(R) BY DEF IsSeq
  <1> HIDE DEF R
  <1>2. s \in Seq(S)
    <2>1. Len(s) \in Nat /\ s \in [1..Len(s) -> R] BY <1>1, LenProperties
    <2>2. s \in [1..Len(s) -> S] BY <2>1
    <2> QED BY <2>1, <2>2, SeqDef
  <1>3. e \in S OBVIOUS
  <1> HIDE DEF S
  <1>4. /\ t \in Seq(S) /\ Len(t) = Len(s) + 1
        /\ \A k \in 1..Len(s) : t[k] = s[k]
        /\ t[Len(s) + 1] = e
    BY <1>2, <1>3, AppendProperties
  <1>5. Len(s) \in Nat BY <1>2, LenProperties
  <1> HIDE DEF t
  <1>6. IsSeq(t)
    <2>1. Len(t) \in Nat /\ t \in [1..Len(t) -> S] BY <1>4, LenProperties
    <2>2. t \in [1..Len(t) -> {t[k] : k \in 1..Len(t)}] BY <2>1
    <2> QED BY <2>1, <2>2, SeqDef DEF IsSeq
  <1> QED BY <1>4, <1>5, <1>6 DEF t

\* Two windows are equal if their elements are.
LEMMA Windows ==
    ASSUME NEW a, NEW b, NEW x \in Int, NEW y \in Int, NEW u \in Int, NEW v \in Int,
           NEW n \in Nat, y = x + n - 1, v = u + n - 1
    PROVE  SubSeq(a, x, y) = SubSeq(b, u, v) <=> \A k \in 0 .. n - 1 : a[x + k] = b[u + k]
  <1> DEFINE S == {a[k] : k \in x .. y} \cup {b[k] : k \in u .. v}
             p == SubSeq(a, x, y)
             q == SubSeq(b, u, v)
  <1>1. (\A k \in x .. y : a[k] \in S) /\ (\A k \in u .. v : b[k] \in S) OBVIOUS
  <1> HIDE DEF S
  <1>2. /\ p \in Seq(S) /\ Len(p) = (IF x <= y THEN y - x + 1 ELSE 0)
        /\ \A k \in 1 .. y - x + 1 : p[k] = a[x + k - 1]
    BY <1>1, SubSeqProperties
  <1>3. /\ q \in Seq(S) /\ Len(q) = (IF u <= v THEN v - u + 1 ELSE 0)
        /\ \A k \in 1 .. v - u + 1 : q[k] = b[u + k - 1]
    BY <1>1, SubSeqProperties
  <1>4. y - x + 1 = n /\ v - u + 1 = n /\ (x <= y <=> n > 0) /\ (u <= v <=> n > 0) OBVIOUS
  <1> HIDE DEF p, q
  <1>5. Len(p) = n /\ Len(q) = n BY <1>2, <1>3, <1>4
  <1>6. \A k \in 0 .. n - 1 : p[k + 1] = a[x + k] /\ q[k + 1] = b[u + k]
    <2> TAKE k \in 0 .. n - 1
    <2>1. k + 1 \in 1 .. n /\ x + (k + 1) - 1 = x + k /\ u + (k + 1) - 1 = u + k OBVIOUS
    <2> QED BY <1>2, <1>3, <1>4, <2>1
  <1>7. ASSUME \A k \in 0 .. n - 1 : a[x + k] = b[u + k] PROVE p = q
    <2>1. \A k \in 1 .. n : p[k] = q[k]
      <3> TAKE k \in 1 .. n
      <3>1. k - 1 \in 0 .. n - 1 /\ (k - 1) + 1 = k OBVIOUS
      <3> QED BY <1>6, <1>7, <3>1
    <2> QED BY <1>2, <1>3, <1>5, <2>1, SeqEqual
  <1>8. p = q => \A k \in 0 .. n - 1 : a[x + k] = b[u + k] BY <1>6
  <1> QED BY <1>7, <1>8 DEF p, q
=============================================================================
