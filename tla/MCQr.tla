-------------------------------- MODULE MCQr --------------------------------
(* QR payments between an admin and a customer, one payment request.        *)
EXTENDS QrTransfers, TLC

MCOpening == [u \in Users |-> 2]

\* Bound: the transactions are those of QR payments, the held ones decided by
\* admins; the payment request is the customer's, who is deactivated only while
\* there is none.
OnlyQr ==
    /\ \A r \in Threads : op[r] \notin {"submit", "backfill"}
    /\ \A r \in Threads : op[r] = "ask" => who[r] \in Customers
    /\ (\E u \in Users : ~active[u]) => \A q \in Asks : ask[q].status = "absent"

\* Worker threads and keys are interchangeable.
ThreadSymmetry == {f @@ g : f \in Permutations(Threads), g \in Permutations(QrKeys)}
=============================================================================
