----------------------------- MODULE MCPaystack -----------------------------
(* One payment, credited by the customer's browser and by the webhook.      *)
EXTENDS Paystack

MCOpening == [u \in Users |-> 0]
=============================================================================
