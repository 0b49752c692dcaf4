-------------------------- MODULE RationalRegister --------------------------
(***************************************************************************)
(* A variable of type FastRational and the number it should stand for.     *)
(* Each step applies one operation to it, as the solvers do: the result of *)
(* one is the operand of the next, with whatever parts of its              *)
(* representation the operation left valid.                                *)
(***************************************************************************)
EXTENDS FastRational

CONSTANTS
    Operands,   \* the fractions on the right side
    MaxPart     \* bound: numerators and denominators of the exact number

VARIABLES
    x,          \* the FastRational
    exact       \* the number

registerVars == <<x, exact>>

RegisterInit == x = Zero /\ exact = Whole(0)

Becomes(result, number) ==
    /\ absVal(number[1]) <= MaxPart /\ number[2] <= MaxPart
    /\ x' = result /\ exact' = number

Add(y) == Becomes(addition(x, y), mpq_add(exact, Value(y)))
Subtract(y) == Becomes(subtraction(x, y), mpq_sub(exact, Value(y)))
Multiply(y) == Becomes(multiplication(x, y), mpq_mul(exact, Value(y)))
Divide(y) == Value(y)[1] # 0 /\ Becomes(division(x, y), mpq_div(exact, Value(y)))
AddAssign(y) == Becomes(additionAssign(x, y), mpq_add(exact, Value(y)))
SubtractAssign(y) == Becomes(subtractionAssign(x, y), mpq_sub(exact, Value(y)))
MultiplyAssign(y) == Becomes(multiplicationAssign(x, y), mpq_mul(exact, Value(y)))
DivideAssign(y) == Value(y)[1] # 0 /\ Becomes(divisionAssign(x, y), mpq_div(exact, Value(y)))
Negate == Becomes(negate(x), mpq_neg(exact))
Invert == exact[1] # 0 /\ Becomes(inverse(x), Canonical(exact[2], exact[1]))
Ceil == Becomes(ceil(x), mpq_ceil(exact))
Floor == Becomes(floor(x), mpq_floor(exact))
Round == Becomes(round_to_int(x), mpq_floor(mpq_add(exact, <<1, 2>>)))
Numerator == Becomes(get_num(x), Whole(exact[1]))
Denominator == Becomes(get_den(x), Whole(exact[2]))
DivideFloor(y) ==
    /\ isInteger(x) /\ isInteger(y) /\ Value(y)[1] # 0
    /\ Becomes(fdiv_q(x, y), mpq_floor(mpq_div(exact, Value(y))))
Naturals2(y) == isInteger(x) /\ isInteger(y) /\ exact[1] >= 0 /\ Value(y)[1] > 0
Gcd(y) == Naturals2(y) /\ Becomes(gcdOf(x, y), Whole(gcd[exact[1], Value(y)[1]]))
Lcm(y) ==
    /\ Naturals2(y)
    /\ Becomes(lcmOf(x, y), Whole((exact[1] * Value(y)[1]) \div gcd[exact[1], Value(y)[1]]))

RegisterNext ==
    \/ \E y \in Operands :
         \/ Add(y) \/ Subtract(y) \/ Multiply(y) \/ Divide(y)
         \/ AddAssign(y) \/ SubtractAssign(y) \/ MultiplyAssign(y) \/ DivideAssign(y)
         \/ DivideFloor(y) \/ Gcd(y) \/ Lcm(y)
    \/ Negate \/ Invert \/ Ceil \/ Floor \/ Round \/ Numerator \/ Denominator

\* compare(), operator== and get_multiplicand() against the operands.
ComparisonsExact ==
    \A y \in Operands :
        LET c == compare(x, y)  d == mpq_cmp(exact, Value(y))
            m == get_multiplicand({x, y})
        IN  /\ (c < 0) = (d < 0) /\ (c = 0) = (d = 0) /\ equal(x, y) = (exact = Value(y))
            /\ isWellFormed(m) /\ Value(m) = Whole((exact[2] * Value(y)[2]) \div gcd[exact[2], Value(y)[2]])

\* However operations follow one another, and wherever their intermediate results leave the words, a
\* fraction stands for the exact number, in the representation that equality and hashing rely on
\* (lowest terms, and words whenever words hold it), compares as the number does, and has the least
\* common multiple of the denominators for multiplicand (FastRational.h: the operators, CHECK_WORD,
\* try_fit_word, compare; FastRational.cc: get_multiplicand).
RationalsExact == Value(x) = exact /\ isWellFormed(x) /\ ComparisonsExact
=============================================================================
