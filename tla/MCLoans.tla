------------------------------ MODULE MCLoans -------------------------------
(* Loans alone: user 1 is the admin, user 2 a borrower with 100 kobo.        *)
EXTENDS Loans

MCOpening == [u \in Users |-> 100]
=============================================================================
