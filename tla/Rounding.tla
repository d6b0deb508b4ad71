------------------------------ MODULE Rounding ------------------------------
(* What a NUMERIC column keeps of a value finer than its last digit.         *)
EXTENDS Integers

\* n / d, to the nearest whole number; halves go away from zero.
Nearest(n, d) == IF n >= 0 THEN (2 * n + d) \div (2 * d)
                           ELSE -((d - 2 * n) \div (2 * d))
=============================================================================
