------------------------------ MODULE Rounding ------------------------------
(***************************************************************************)
(* The arithmetic the pure modules share.  Python's numbers are taken as   *)
(* exact fractions n/d; only round() loses something.                      *)
(***************************************************************************)
EXTENDS Integers

Lesser(a, b) == IF a <= b THEN a ELSE b
Greater(a, b) == IF a >= b THEN a ELSE b
Clamp(low, x, high) == Greater(low, Lesser(high, x))
Distance(a, b) == IF a >= b THEN a - b ELSE b - a
Abs(x) == IF x < 0 THEN -x ELSE x

\* Python's round of n/d (d > 0): a half goes to the even neighbour
Round(n, d) ==
    LET q == n \div d
        r == n - q * d
    IN  IF 2 * r > d \/ (2 * r = d /\ q % 2 = 1) THEN q + 1 ELSE q

Sign(dir) == IF dir = "LONG" THEN 1 ELSE -1

=============================================================================
