----------------------------- MODULE Fractions -----------------------------
(***************************************************************************)
(* Exact arithmetic for the fits: fractions of integers with a positive    *)
(* denominator, never reduced.                                             *)
(***************************************************************************)
EXTENDS Integers

Abs(x) == IF x < 0 THEN -x ELSE x
Lesser(x, y) == IF x < y THEN x ELSE y
Greater(x, y) == IF x > y THEN x ELSE y

Frac(n, d) == [num |-> n, den |-> d]
Fractions == [num : Int, den : Int]
Zero == Frac(0, 1)

Minus(p, q) == Frac(p.num * q.den - q.num * p.den, p.den * q.den)
Plus(p, q) == Frac(p.num * q.den + q.num * p.den, p.den * q.den)
Magnitude(p) == Frac(Abs(p.num), p.den)

Below(p, k) == p.num < k * p.den             \* p < k, k an integer
Above(p, k) == p.num > k * p.den             \* p > k
AtMost(p, q) == p.num * q.den <= q.num * p.den

\* The magnitude of p is larger than k.
Exceeds(p, k) == Above(p, k) \/ Below(p, -k)
=============================================================================
