---------------------------- MODULE FastRational ----------------------------
(***************************************************************************)
(* Rational numbers (common/numbers/FastRational.h and .cc): a fraction of *)
(* machine words as long as it fits, else one of GMP.  Words have Bits     *)
(* bits here (32 in the code), intermediate results twice as many, and     *)
(* what does not fit wraps around where the code does not look.            *)
(***************************************************************************)
EXTENDS Rationals, Integers, Sequences, FiniteSetsExt

CONSTANT Bits
ASSUME BitsAssumption == Bits \in Nat \ {0}

Signed(b) == -(2^(b - 1))..(2^(b - 1) - 1)
WORD == Signed(Bits)
WORD_MIN == -(2^(Bits - 1))
WORD_MAX == 2^(Bits - 1) - 1
UWORD_MAX == 2^Bits - 1
LWORD_MIN == -(2^(2 * Bits - 1))
LWORD_MAX == 2^(2 * Bits - 1) - 1

\* What arithmetic of lword and ulword leaves of a number.
lword(v) == ((v - LWORD_MIN) % 2^(2 * Bits)) + LWORD_MIN
ulword(v) == v % 2^(2 * Bits)
-----------------------------------------------------------------------------
(* A fraction: its parts (the state), the words, and what GMP holds.       *)

Word(n, d) == [parts |-> {"word"}, num |-> n, den |-> d, mpq |-> <<0, 1>>]
Zero == Word(0, 1)
wordPartValid(x) == "word" \in x.parts
mpqPartValid(x) == "mpq" \in x.parts
Fits(q) == q[1] \in WORD /\ q[2] <= UWORD_MAX

\* ensure_mpq_valid(); the words of a fraction set; a result of GMP, moved to words if it fits.
Mpq(x) == IF mpqPartValid(x) THEN x.mpq ELSE <<x.num, x.den>>
SetWords(x, n, d) == [x EXCEPT !.parts = {"word"}, !.num = n, !.den = d]
try_fit_word(x, q) ==
    IF Fits(q) THEN [parts |-> {"word", "mpq"}, num |-> q[1], den |-> q[2], mpq |-> q]
    ELSE [x EXCEPT !.parts = {"mpq"}, !.mpq = q]
ofMpz(z) == IF z \in WORD THEN Word(z, 1) ELSE [Zero EXCEPT !.parts = {"mpq"}, !.mpq = <<z, 1>>]

\* FastRational(word, uword)
Fraction(n, d) ==
    LET g == gcd[absVal(n), d]
    IN  Word(IF n >= 0 THEN absVal(n) \div g ELSE -(absVal(n) \div g), d \div g)

-----------------------------------------------------------------------------
(* Words if they hold the result: CHECK_WORD and CHECK_UWORD. *)

Overflow == <<>>
Checked(n, d) == IF n \in WORD /\ d \in 1..UWORD_MAX THEN <<n, d>> ELSE Overflow

\* C divides towards zero.
Quotient(n, d) == IF n < 0 THEN -((-n) \div d) ELSE n \div d
Reduced(n, d) ==
    LET g == gcd[absVal(n), d] IN Checked(Quotient(n, g), d \div g)
IfFits(sum, d) == IF sum \in LWORD_MIN..LWORD_MAX THEN Reduced(sum, d) ELSE Overflow

SumOfWords(a, b) ==
    IF b.num = 0 THEN <<a.num, a.den>>
    ELSE IF a.num = 0 THEN <<b.num, b.den>>
    ELSE IF a.den = b.den /\ b.num > WORD_MIN /\ a.num = -b.num THEN <<0, 1>>
    ELSE IF b.den = 1 THEN Checked(lword(a.num + b.num * a.den), a.den)
    ELSE IF a.den = 1 THEN Checked(lword(b.num + a.num * b.den), b.den)
    ELSE LET g == gcd[a.den, b.den]
             n1 == lword(a.num * (b.den \div g))
             n2 == lword(b.num * (a.den \div g))
         IN  IfFits(n1 + n2, ulword(a.den * (b.den \div g)))

DifferenceOfWords(a, b) ==
    IF b.num = 0 THEN <<a.num, a.den>>
    ELSE IF a.num = 0 THEN Checked(lword(-b.num), b.den)
    ELSE IF a.den = b.den /\ a.num = b.num THEN <<0, 1>>
    ELSE IF b.den = 1 THEN Checked(lword(a.num - b.num * a.den), a.den)
    ELSE IF a.den = 1 THEN Checked(lword(a.num * b.den - b.num), b.den)
    ELSE LET g == gcd[a.den, b.den]
             n1 == lword(a.num * (b.den \div g))
             n2 == lword(b.num * (a.den \div g))
             d == ulword(a.den * (b.den \div g))
         IN  IF g # 1 THEN Reduced(lword(n1 - n2), d) ELSE IfFits(n1 - n2, d)

\* Bug to detect: the factors are multiplied before what they share is taken out.
ProductNotReduced(a, b) == Checked(lword(a.num * b.num), ulword(a.den * b.den))

ProductOfWords(a, b) ==
    LET g == gcd[absVal(a.num), b.den]
        h == gcd[a.den, absVal(b.num)]
    IN  Checked(lword(Quotient(a.num, g) * Quotient(b.num, h)), ulword((a.den \div h) * (b.den \div g)))

\* The sign is put back once the absolute value is known to fit.
Flipped(n, a, b) ==
    IF (b.num < 0 /\ a.num >= 0) \/ (b.num > 0 /\ a.num <= 0) THEN -n ELSE n
WithSign(r, a, b) == IF r = Overflow THEN r ELSE <<Flipped(r[1], a, b), r[2]>>

QuotientOfWords(a, b) ==
    LET g == gcd[absVal(a.num), absVal(b.num)]
        h == gcd[a.den, b.den]
    IN  WithSign(Checked(lword((absVal(a.num) \div g) * (b.den \div h)),
                         ulword((absVal(b.num) \div g) * (a.den \div h))), a, b)

-----------------------------------------------------------------------------
(* Operators with a destination, and those that assign to their left side. *)

Both(a, b) == wordPartValid(a) /\ wordPartValid(b)
Result(dst, words, q) == IF words = Overflow THEN try_fit_word(dst, q) ELSE SetWords(dst, words[1], words[2])
IsWord(x, n, d) == wordPartValid(x) /\ x.num = n /\ x.den = d
Copy(dst, x) == IF wordPartValid(x) THEN SetWords(dst, x.num, x.den)
                ELSE [dst EXCEPT !.parts = {"mpq"}, !.mpq = x.mpq]

addition(a, b) == Result(Zero, IF Both(a, b) THEN SumOfWords(a, b) ELSE Overflow, mpq_add(Mpq(a), Mpq(b)))
subtraction(a, b) == Result(Zero, IF Both(a, b) THEN DifferenceOfWords(a, b) ELSE Overflow, mpq_sub(Mpq(a), Mpq(b)))
multiplication(a, b) ==
    IF (wordPartValid(a) /\ a.num = 0) \/ (wordPartValid(b) /\ b.num = 0) THEN Zero
    ELSE IF IsWord(a, 1, 1) THEN Copy(Zero, b)
    ELSE IF IsWord(b, 1, 1) THEN Copy(Zero, a)
    ELSE Result(Zero, IF Both(a, b) THEN ProductOfWords(a, b) ELSE Overflow, mpq_mul(Mpq(a), Mpq(b)))
division(a, b) ==
    IF IsWord(b, 1, 1) THEN Copy(Zero, a)
    ELSE IF wordPartValid(a) /\ a.num = 0 THEN Zero
    ELSE Result(Zero, IF ~ Both(a, b) THEN Overflow
                      ELSE IF a.num = b.num /\ a.den = b.den THEN <<1, 1>> ELSE QuotientOfWords(a, b),
                mpq_div(Mpq(a), Mpq(b)))

additionAssign(a, b) ==
    IF wordPartValid(b) /\ b.num = 0 THEN a
    ELSE LET words == IF b.den = 1 THEN Checked(lword(a.num + b.num * a.den), a.den)
                      ELSE IF a.num = 0 THEN <<b.num, b.den>>
                      ELSE IfFits(lword(a.num * b.den) + lword(b.num * a.den), ulword(a.den * b.den))
         IN  Result(a, IF Both(a, b) THEN words ELSE Overflow, mpq_add(Mpq(a), Mpq(b)))
subtractionAssign(a, b) ==
    LET g == gcd[a.den, b.den]
        n1 == lword(a.num * (b.den \div g))
        n2 == lword(b.num * (a.den \div g))
        words == IF {n1, n2} \subseteq WORD THEN Reduced(n1 - n2, ulword(a.den * (b.den \div g))) ELSE Overflow
    IN  Result(a, IF Both(a, b) THEN words ELSE Overflow, mpq_sub(Mpq(a), Mpq(b)))
multiplicationAssign(a, b) ==
    LET g == gcd[absVal(a.num), b.den]
        h == gcd[a.den, absVal(b.num)]
        words == WithSign(Checked(lword((absVal(a.num) \div g) * (absVal(b.num) \div h)),
                                  ulword((a.den \div h) * (b.den \div g))), a, b)
    IN  Result(a, IF Both(a, b) THEN words ELSE Overflow, mpq_mul(Mpq(a), Mpq(b)))
divisionAssign(a, b) ==
    Result(a, IF Both(a, b) THEN QuotientOfWords(a, b) ELSE Overflow, mpq_div(Mpq(a), Mpq(b)))

-----------------------------------------------------------------------------
(* Negation, inverse, comparison, rounding, integer division. *)

negate(x) ==
    IF wordPartValid(x) /\ x.num > WORD_MIN THEN SetWords(x, -x.num, x.den)
    ELSE try_fit_word(x, <<-Mpq(x)[1], Mpq(x)[2]>>)
inverse(x) ==
    Result(Zero, IF ~ wordPartValid(x) THEN Overflow
                 ELSE Checked(IF x.num > 0 THEN x.den ELSE lword(-x.den), absVal(x.num)),
           Canonical(Mpq(x)[2], Mpq(x)[1]))

compare(a, b) ==
    IF Both(a, b)
    THEN IF a.den = b.den THEN a.num - b.num ELSE lword(a.num * b.den) - lword(b.num * a.den)
    ELSE mpq_cmp(Mpq(a), Mpq(b))
equal(a, b) == IF Both(a, b) THEN a.num = b.num /\ a.den = b.den ELSE Mpq(a) = Mpq(b)

isInteger(x) == IF wordPartValid(x) THEN x.den = 1 ELSE x.mpq[2] = 1
get_num(x) == IF wordPartValid(x) THEN Word(x.num, 1) ELSE ofMpz(x.mpq[1])
get_den(x) == IF wordPartValid(x) THEN ofMpz(x.den) ELSE ofMpz(x.mpq[2])

ceil(x) ==
    IF isInteger(x) THEN x
    ELSE IF wordPartValid(x)
    THEN Word(IF x.num < 0 THEN -(absVal(x.num) \div x.den) ELSE (absVal(x.num) \div x.den) + 1, 1)
    ELSE ofMpz(-((-x.mpq[1]) \div x.mpq[2]))
floor(x) == IF isInteger(x) THEN x ELSE subtraction(ceil(x), Word(1, 1))

\* fastrat_fdiv_q(): of integers, towards minus infinity.
fdiv_q(n, d) ==
    IF Both(n, d) /\ n.num # WORD_MIN
    THEN LET quo == Quotient(IF d.num < 0 THEN -n.num ELSE n.num, absVal(d.num))
             whole == quo * d.num = n.num
         IN  Word(IF ~ whole /\ ((n.num < 0 /\ d.num >= 0) \/ (d.num < 0 /\ n.num >= 0)) THEN quo - 1 ELSE quo, 1)
    ELSE LET q == Mpq(d)[1]
         IN  ofMpz(IF q < 0 THEN (-Mpq(n)[1]) \div (-q) ELSE Mpq(n)[1] \div q)
round_to_int(x) ==
    LET y == addition(x, Fraction(1, 2)) IN fdiv_q(get_num(y), get_den(y))

\* Of integers that are not negative.
gcdOf(a, b) == ofMpz(gcd[Mpq(a)[1], Mpq(b)[1]])
lcmOf(a, b) ==
    IF Both(a, b)
    THEN IF a.num = 0 \/ b.num = 0 THEN Zero
         ELSE IF b.num > a.num THEN multiplication(Word(b.num \div gcd[a.num, b.num], 1), a)
         ELSE multiplication(Word(a.num \div gcd[a.num, b.num], 1), b)
    ELSE LET p == Mpq(a)[1]  q == Mpq(b)[1] IN ofMpz((p * q) \div gcd[p, q])

\* get_multiplicand(): the two largest denominators left go into the product, the others lose what
\* they share with them.
get_multiplicand(reals) ==
    LET Dens(S) == {get_den(x) : x \in {y \in S : ~ isInteger(y)}}
        Largest(D) == CHOOSE x \in D : \A y \in D : compare(x, y) >= 0
        step[k \in Nat] ==
            IF k = 0 THEN [mult |-> Word(1, 1), dens |-> Dens(reals)]
            ELSE LET s == step[k - 1]
                     big == Largest(s.dens)
                     m == lcmOf(big, Largest(s.dens \ {big}))
                     rest == s.dens \ {big, Largest(s.dens \ {big})}
                 IN  IF s.dens = {} THEN s
                     ELSE IF s.dens = {big} THEN [mult |-> multiplicationAssign(s.mult, big), dens |-> {}]
                     ELSE [mult |-> multiplicationAssign(s.mult, m),
                           dens |-> {get_den(division(m, x)) : x \in rest} \ {Word(1, 1)}]
    IN  step[Cardinality(Dens(reals))].mult

-----------------------------------------------------------------------------
(* What a fraction stands for, and when its representation is as it should be: the words are used
   whenever they can hold it, so that equal numbers have equal parts and equal hashes. *)

Value(x) == IF wordPartValid(x) THEN <<x.num, x.den>> ELSE x.mpq
isWellFormed(x) ==
    /\ x.parts \in {{"word"}, {"mpq"}, {"word", "mpq"}}
    /\ wordPartValid(x) => x.num \in WORD /\ x.den \in 1..UWORD_MAX /\ gcd[absVal(x.num), x.den] = 1
    /\ mpqPartValid(x) => x.mpq = Canonical(x.mpq[1], x.mpq[2]) /\ x.mpq[2] > 0
    /\ x.parts = {"mpq"} => ~ Fits(x.mpq)
    /\ x.parts = {"word", "mpq"} => x.mpq = <<x.num, x.den>>
=============================================================================
