------------------------------- MODULE Money --------------------------------
(***************************************************************************)
(* Naira amounts that a request names with any number of decimals.  The    *)
(* schemas of loans and fixed deposits ask for more than zero and no more, *)
(* the services compute with what they are given, and the Numeric(14, 2)   *)
(* columns round whatever is written to them to whole kobo.                *)
(***************************************************************************)
EXTENDS Rounding

CONSTANT Parts    \* how finely requests divide a kobo: amounts come in 1/Parts

ASSUME MoneyAssumption == Parts \in Nat \ {0}

\* Variant: the column cuts the fraction off.
StoredDown(amount) == amount \div Parts

\* The kobo a column keeps of an amount.
Stored(amount) == Nearest(amount, Parts)

\* What is left on a column of n kobo from which an amount is taken.
Less(n, amount) == Stored(n * Parts - amount)

\* The amount is no more than n kobo.
Within(amount, n) == amount <= n * Parts
=============================================================================
