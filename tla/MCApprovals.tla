---------------------------- MODULE MCApprovals -----------------------------
(* Approvals on a small bank: user 1 is an admin who also banks here, users *)
(* 2 and 3 are customers.                                                   *)
EXTENDS Reconciliation

MCOpening == [u \in Users |-> 1]

\* Bound: the legacy deposits are one customer's.
LegacyOfOneCustomer == \A t \in Legacy : tx[t].receiver = 2
=============================================================================
