----------------------------- MODULE Rationals -----------------------------
(***************************************************************************)
(* Exact rational numbers, as the operations of GMP on mpq_t that the code *)
(* calls: a pair of numerator and denominator in canonical form.           *)
(***************************************************************************)
LOCAL INSTANCE Integers

absVal(v) == IF v < 0 THEN -v ELSE v
gcd[a \in Nat, b \in Nat] == IF b = 0 THEN a ELSE gcd[b, a % b]

Canonical(n, d) ==
    LET g == gcd[absVal(n), absVal(d)]
        s == IF d < 0 THEN -1 ELSE 1
        Quo(v) == IF v < 0 THEN -((-v) \div g) ELSE v \div g
    IN  <<s * Quo(n), s * Quo(d)>>

Whole(n) == <<n, 1>>
mpq_add(p, q) == Canonical(p[1] * q[2] + q[1] * p[2], p[2] * q[2])
mpq_sub(p, q) == Canonical(p[1] * q[2] - q[1] * p[2], p[2] * q[2])
mpq_mul(p, q) == Canonical(p[1] * q[1], p[2] * q[2])
mpq_div(p, q) == Canonical(p[1] * q[2], p[2] * q[1])
mpq_neg(p) == <<-p[1], p[2]>>
mpq_cmp(p, q) == p[1] * q[2] - q[1] * p[2]
mpq_floor(p) == Whole(p[1] \div p[2])
mpq_ceil(p) == Whole(-((-p[1]) \div p[2]))
=============================================================================
