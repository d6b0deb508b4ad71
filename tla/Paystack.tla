------------------------------ MODULE Paystack ------------------------------
(***************************************************************************)
(* Card payments through Paystack.  The bank makes a reference, the        *)
(* customer pays on Paystack's page, and then the customer's browser and   *)
(* Paystack's webhook each ask the bank to credit it: the row is read,     *)
(* Paystack is asked, a pending deposit is made (its own commit) and the   *)
(* row is marked (another commit), with no lock in between.                *)
(***************************************************************************)
EXTENDS Accounts

CONSTANTS Payments,    \* references
          MaxDeposits  \* bound on the deposits of one payment

ASSUME PaystackAssumption == None \notin Payments /\ MaxDeposits \in Nat

VARIABLES payment,   \* paystack_payments.status
          paid,      \* the references Paystack holds a successful charge for
          deposits,  \* the pending deposits made for each payment
          credit     \* what each thread is doing

paystackVars == <<payment, paid, deposits, credit>>

NoCredit == [stage |-> "idle", of |-> None, seen |-> "absent"]

PaystackInit ==
    /\ payment = [p \in Payments |-> "absent"]
    /\ paid = {}
    /\ deposits = [p \in Payments |-> 0]
    /\ credit = [r \in Threads |-> NoCredit]

\* initialize_payment: Paystack knows the reference, then the row is stored.
InitializePayment(p) ==
    /\ payment[p] = "absent"
    /\ payment' = [payment EXCEPT ![p] = "initialized"]
    /\ UNCHANGED <<paid, deposits, credit>>

\* The customer pays on Paystack's page.
CustomerPays(p) ==
    /\ payment[p] # "absent"
    /\ paid' = paid \cup {p}
    /\ UNCHANGED <<payment, deposits, credit>>

\* credit_payment reads the row; one marked "success" is a no-op.
BeginCredit(r, p) ==
    /\ credit[r].stage = "idle"
    /\ payment[p] \notin {"absent", "success"}
    /\ credit' = [credit EXCEPT ![r] = [stage |-> "ask", of |-> p, seen |-> payment[p]]]
    /\ UNCHANGED <<payment, paid, deposits>>

\* Variant: any answer with HTTP status 200 will do.
ChargedIfAnswered(p) == TRUE

Charged(p) == p \in paid

\* Paystack's verify endpoint answers.
AskPaystack(r) ==
    /\ credit[r].stage = "ask"
    /\ credit' = [credit EXCEPT ![r].stage = IF Charged(credit[r].of) THEN "deposit" ELSE "fail"]
    /\ UNCHANGED <<payment, paid, deposits>>

\* Not (yet) charged: the row is written when the session sees a change.
MarkFailed(r) ==
    /\ credit[r].stage = "fail"
    /\ payment' = IF credit[r].seen = "failed" THEN payment
                  ELSE [payment EXCEPT ![credit[r].of] = "failed"]
    /\ credit' = [credit EXCEPT ![r] = NoCredit]
    /\ UNCHANGED <<paid, deposits>>

\* transaction_service.deposit commits.
MakeDeposit(r) ==
    LET p == credit[r].of
    IN  /\ credit[r].stage = "deposit"
        /\ deposits[p] < MaxDeposits
        /\ deposits' = [deposits EXCEPT ![p] = @ + 1]
        /\ credit' = [credit EXCEPT ![r].stage = "mark"]
        /\ UNCHANGED <<payment, paid>>

MarkSuccess(r) ==
    /\ credit[r].stage = "mark"
    /\ payment' = [payment EXCEPT ![credit[r].of] = "success"]
    /\ credit' = [credit EXCEPT ![r] = NoCredit]
    /\ UNCHANGED <<paid, deposits>>

\* No answer, an error or a crash.
AbortCredit(r) ==
    /\ credit[r].stage # "idle"
    /\ credit' = [credit EXCEPT ![r] = NoCredit]
    /\ UNCHANGED <<payment, paid, deposits>>

PaystackActivity ==
    /\ \/ \E p \in Payments : InitializePayment(p) \/ CustomerPays(p)
       \/ \E r \in Threads :
             \/ \E p \in Payments : BeginCredit(r, p)
             \/ AskPaystack(r) \/ MarkFailed(r) \/ MakeDeposit(r) \/ MarkSuccess(r) \/ AbortCredit(r)
    /\ UNCHANGED accountsVars

PaystackSpec == AccountsInit /\ PaystackInit /\ [][PaystackActivity]_<<accountsVars, paystackVars>>

-----------------------------------------------------------------------------
(* Properties. *)

\* Types of the payments and of the credits in work.
PaystackTypeOK ==
    /\ payment \in [Payments -> {"absent", "initialized", "failed", "success"}]
    /\ paid \subseteq Payments
    /\ deposits \in [Payments -> Nat]
    /\ credit \in [Threads -> [stage : {"idle", "ask", "fail", "deposit", "mark"},
                               of : Payments \cup {None},
                               seen : {"absent", "initialized", "failed", "success"}]]
    /\ \A r \in Threads : credit[r].stage # "idle" => credit[r].of \in Payments

\* A deposit is only made of a charge Paystack confirms, and a payment marked
\* "success" has its deposit, wherever a credit was cut short.
EveryDepositIsPaid ==
    \A p \in Payments :
        /\ deposits[p] > 0 => p \in paid
        /\ payment[p] = "success" => deposits[p] > 0

\* "Safe to call multiple times for the same reference - already-processed
\* payments are a no-op": a payment becomes at most one deposit.
OneDepositPerPayment == \A p \in Payments : deposits[p] <= 1
=============================================================================
