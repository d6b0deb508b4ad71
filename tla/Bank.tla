-------------------------------- MODULE Bank --------------------------------
(***************************************************************************)
(* The wallet balance under everything that writes it: approvals, savings  *)
(* moves, loans and fixed deposits, served by the same threads against the *)
(* same users rows.  Approvals, savings moves and loan approvals hold the  *)
(* row they write; repayments, fixed deposits and payouts do not.          *)
(***************************************************************************)
EXTENDS Approvals, Savings, Loans, FixedDeposits

bankVars == <<accountsVars, approvalsVars, savingsVars, loansVars, fdVars>>

BankInit ==
    /\ ApprovalsInit
    /\ SavingsInit
    /\ LoansInit
    /\ FixedDepositsInit

BankApprovals ==
    /\ \/ ApprovalActivity
       \/ \E r \in Threads : SkipBonus(r)
    /\ UNCHANGED <<savingsVars, loansVars, fdVars>>

BankSavings == SavingsActivity /\ UNCHANGED <<approvalsVars, loansVars, fdVars>>

BankLoans == LoansActivity /\ UNCHANGED <<approvalsVars, savingsVars, fdVars>>

BankFixedDeposits ==
    FixedDepositsActivity /\ UNCHANGED <<approvalsVars, savingsVars, loansVars>>

BankNext == BankApprovals \/ BankSavings \/ BankLoans \/ BankFixedDeposits

BankSpec == BankInit /\ [][BankNext]_bankVars

-----------------------------------------------------------------------------
BankOps == ApprovalOps \cup SavingsOps \cup LoanOps \cup FdOps

\* Every variable has its type.
BankTypeOK ==
    /\ AccountsTypeOK(BankOps)
    /\ TransactionsTypeOK
    /\ PotsTypeOK
    /\ LoanTablesTypeOK
    /\ FdTypeOK

\* The session of thread r cannot be stale about u's row once it has it locked:
\* the row is not the requester's own, or the lock reloads it.
Reloads(r, u) == who[r] # u \/ op[r] \in MoveOps

\* What the transaction of thread r is recorded as doing to u's balance.
Recorded(r, u) ==
    CASE op[r] = "settle" -> Effect(tx[work[r]], u)
      [] op[r] \in MoveOps -> pot[aim[r]].saved - pot'[aim[r]].saved
      [] op[r] = "loan_approve" -> read[r].principal

\* While a thread holds a users row that its session has fresh, only that
\* thread changes the balance, and by exactly what it records: no handler,
\* locking or not, can slip a write under a row lock.
LockedWritesExact ==
    [][\A u \in Users : \A r \in Threads :
          lock[u] = r /\ Reloads(r, u) /\ balance'[u] # balance[u] =>
             /\ balance'[u] = balance[u] + Recorded(r, u)
             /\ lock'[u] = None]_bankVars
=============================================================================
