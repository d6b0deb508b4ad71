------------------------------- MODULE Loans --------------------------------
(***************************************************************************)
(* Loans: application, approval or rejection by an admin, repayment.       *)
(*                                                                         *)
(* The loans row is never locked: every handler reads it, decides, and     *)
(* writes what it computed from that reading.  A repayment does not lock   *)
(* the users row either; its UPDATE waits for whoever holds the row, then  *)
(* stores the balance the session computed before.                         *)
(***************************************************************************)
EXTENDS Accounts, Money

CONSTANTS MaxLoan,          \* bound: rows the loans table may reach
          Principals,       \* principals a customer may apply for, in parts of a kobo
          Repayments,       \* amounts a repayment may name, in parts of a kobo
          InterestPercent   \* FLAT_INTEREST_RATE

LoanIds == 1..MaxLoan

ASSUME LoansAssumption ==
    /\ MaxLoan \in Nat
    /\ None \notin LoanIds
    /\ Principals \subseteq Nat \ {0}
    /\ Repayments \subseteq Nat \ {0}
    /\ InterestPercent \in Nat

VARIABLES loan,      \* the loans table
          file,      \* the loan a thread's request is about
          read       \* the loans row as the thread's session read it

loansVars == <<loan, file, read>>

LoanStatuses == {"absent", "pending", "approved", "rejected", "repaid"}
LoanRow == [owner : Users \cup {None}, principal : Nat, outstanding : Int,
            status : LoanStatuses]
NoLoan == [owner |-> None, principal |-> 0, outstanding |-> 0, status |-> "absent"]

\* principal * (1 + rate / 100), stored as Numeric(14, 2): rounded half up.
Repayable(principal) == (principal * (100 + InterestPercent) + 50) \div 100

DecideOps == {"loan_approve", "loan_reject"}

LoansInit ==
    /\ AccountsInit
    /\ loan = [l \in LoanIds |-> NoLoan]
    /\ file = [r \in Threads |-> None]
    /\ read = [r \in Threads |-> NoLoan]

FreshLoan(l) == /\ loan[l].status = "absent"
                /\ \A k \in LoanIds : k < l => loan[k].status # "absent"

\* Variant: an approved loan can be approved again.
ReadableTwice(o, x, u) ==
    IF o = "loan_repay" THEN x.owner = u /\ x.status = "approved"
                        ELSE x.status \in {"pending", "approved"}

\* The handler's look at the loan it read.
Readable(o, x, u) ==
    IF o = "loan_repay" THEN x.owner = u /\ x.status = "approved"
                        ELSE x.status = "pending"

\* Variant: a repayment of more than what is owed.
AnyRepayment(x, a) == TRUE
WithinDebt(x, a) == Within(a, x.outstanding)

CloseFile(r) ==
    /\ file' = [file EXCEPT ![r] = None]
    /\ read' = [read EXCEPT ![r] = NoLoan]

-----------------------------------------------------------------------------
\* apply_for_loan: one insert.
ApplyForLoan(u) ==
    /\ \E l \in LoanIds, p \in Principals :
          /\ FreshLoan(l)
          /\ loan' = [loan EXCEPT ![l] = [NoLoan EXCEPT !.owner = u, !.principal = Stored(p),
                                                        !.status = "pending"]]
    /\ UNCHANGED <<accountsVars, file, read>>

BeginRepay(r, u, l) ==
    /\ Begin(r, u, "loan_repay")
    /\ file' = [file EXCEPT ![r] = l]
    /\ UNCHANGED <<balance, lock, want, loan, read>>

BeginDecide(r, u, l, o) ==
    /\ u \in Admins
    /\ o \in DecideOps
    /\ Begin(r, u, o)
    /\ file' = [file EXCEPT ![r] = l]
    /\ UNCHANGED <<balance, lock, want, loan, read>>

\* get_my_loan / the admin's lookup, with the status check that follows it.
\* An approval goes on to ask for the borrower's row.
ReadLoan(r) ==
    LET x == loan[file[r]]
    IN  /\ op[r] \in DecideOps \cup {"loan_repay"}
        /\ file[r] # None
        /\ read[r] = NoLoan
        /\ Readable(op[r], x, who[r])
        /\ read' = [read EXCEPT ![r] = x]
        /\ want' = [want EXCEPT ![r] = IF op[r] = "loan_approve" THEN x.owner ELSE None]
        /\ UNCHANGED <<balance, lock, op, who, view, loan, file>>

\* The UPDATE of users waits for a row lock; the values written are the
\* session's, and the columns round them.  The status column is written only
\* when it changes: when the unrounded debt is gone.
CommitRepay(r) ==
    LET u == who[r]
        l == file[r]
    IN  /\ op[r] = "loan_repay"
        /\ read[r] # NoLoan
        /\ lock[u] = None
        /\ \E a \in Repayments :
              /\ Within(a, view[r][u])
              /\ WithinDebt(read[r], a)
              /\ balance' = [balance EXCEPT ![u] = Less(view[r][u], a)]
              /\ loan' = [loan EXCEPT ![l].outstanding = Less(read[r].outstanding, a),
                    ![l].status = IF read[r].outstanding * Parts <= a THEN "repaid" ELSE @]
        /\ Finish(r)
        /\ CloseFile(r)

\* with_for_update on the borrower, without a refresh.
LockBorrower(r) ==
    /\ op[r] = "loan_approve"
    /\ LockRow(r, FALSE, None)
    /\ UNCHANGED loansVars

CommitLoan(r) ==
    LET u == read[r].owner
        l == file[r]
    IN  /\ op[r] = "loan_approve"
        /\ read[r] # NoLoan
        /\ want[r] = None
        /\ balance' = [balance EXCEPT ![u] = view[r][u] + read[r].principal]
        /\ loan' = [loan EXCEPT ![l].outstanding = Repayable(read[r].principal),
                                ![l].status = "approved"]
        /\ Finish(r)
        /\ CloseFile(r)

CommitRejection(r) ==
    /\ op[r] = "loan_reject"
    /\ read[r] # NoLoan
    /\ loan' = [loan EXCEPT ![file[r]].status = "rejected"]
    /\ Finish(r)
    /\ CloseFile(r)
    /\ UNCHANGED balance

\* A refused request, an exception or a crash.
AbortLoan(r) ==
    /\ op[r] \in DecideOps \cup {"loan_repay"}
    /\ RollBack(r)
    /\ CloseFile(r)
    /\ UNCHANGED loan

LoanStep(r) == ReadLoan(r) \/ CommitRepay(r) \/ CommitLoan(r) \/ CommitRejection(r)

LoansActivity ==
    \/ \E r \in Threads :
          \/ LoanStep(r) \/ LockBorrower(r) \/ AbortLoan(r)
          \/ \E u \in Users, l \in LoanIds :
                \/ BeginRepay(r, u, l)
                \/ \E o \in DecideOps : BeginDecide(r, u, l, o)
    \/ \E u \in Users : ApplyForLoan(u)

allLoansVars == <<accountsVars, loansVars>>

LoansSpec == LoansInit /\ [][LoansActivity]_allLoansVars

-----------------------------------------------------------------------------
LoanOps == DecideOps \cup {"loan_repay"}

LoanTablesTypeOK ==
    /\ loan \in [LoanIds -> LoanRow]
    /\ file \in [Threads -> LoanIds \cup {None}]
    /\ read \in [Threads -> LoanRow]

\* Whatever races on a loan, nobody owes less than nothing or more than the
\* principal with its interest, and an unapproved loan is never owed.
DebtBounded ==
    \A l \in LoanIds :
        /\ loan[l].outstanding >= 0
        /\ loan[l].outstanding <= Repayable(loan[l].principal)
        /\ loan[l].status \in {"absent", "pending"} => loan[l].outstanding = 0

\* What is owed only goes down while a loan is being repaid.
OutstandingDecreases ==
    [][\A l \in LoanIds :
          loan[l].status \in {"approved", "repaid"} =>
             loan'[l].outstanding <= loan[l].outstanding]_allLoansVars
=============================================================================
