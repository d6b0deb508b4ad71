------------------------------- MODULE MCBank -------------------------------
(* Every writer of a balance at once: user 1 is the admin, the others bank.  *)
EXTENDS Bank, Functions, TLC

CONSTANT Wealth    \* what each customer has

MCOpening == [u \in Users |-> IF u \in Admins THEN 0 ELSE Wealth]

-----------------------------------------------------------------------------
(* Bounds. *)

StaffOps == {"idle", "approve", "settle", "bonus", "loan_approve", "loan_reject"}

\* The admin only decides.
StaffOnlyDecide ==
    /\ \A r \in Threads : who[r] \in Admins => op[r] \in StaffOps
    /\ \A l \in LoanIds : loan[l].owner \notin Admins

\* A behaviour uses loans or fixed deposits, next to transactions and savings,
\* but not both.
OneProductAtATime ==
    /\ StaffOnlyDecide
    /\ \/ \A l \in LoanIds : loan[l].status = "absent"
       \/ \A f \in FdIds : fd[f].status = "absent"

UsedTxs == Cardinality({t \in Txs : tx[t].status # "absent"})
UsedPots == Cardinality({p \in Pots : pot[p].status # "absent"})

UsedLoans == Cardinality({l \in LoanIds : loan[l].status # "absent"})
UsedFds == Cardinality({f \in FdIds : fd[f].status # "absent"})

\* One request is served at a time, with one transaction, one pot and one loan,
\* or two loans.
Serial ==
    /\ Cardinality({r \in Threads : op[r] # "idle"}) <= 1
    /\ UsedTxs <= 1 /\ UsedPots <= 1
    /\ UsedLoans <= 1 \/ UsedTxs + UsedPots = 0

\* The requests that write the requester's row without locking it.
Unlocking == FdOps \cup {"loan_repay"}

\* Whose balance a request may write when it commits.
Writes(r) ==
    CASE op[r] \in {"approve", "settle"} -> Parties(tx[work[r]])
      [] op[r] = "loan_approve" -> {loan[file[r]].owner}
      [] op[r] \in MoveOps \cup Unlocking -> {who[r]}
      [] OTHER -> {}

\* While a request writes a row that it does not lock, no other writes that
\* row; and one request at a time is about a loan.
UnlockedApart ==
    \A r, s \in Threads : r # s =>
        /\ op[r] \in Unlocking => who[r] \notin Writes(s)
        /\ op[r] \in LoanOps /\ op[s] \in LoanOps => file[r] # file[s]

\* Neither loans nor fixed deposits are used.
LockersOnly ==
    /\ \A r \in Threads : op[r] \notin LoanOps \cup FdOps
    /\ \A l \in LoanIds : loan[l].status = "absent"
    /\ \A f \in FdIds : fd[f].status = "absent"
    /\ UsedTxs + UsedPots <= 3

UpToTwoRows == UsedTxs + UsedPots + UsedLoans + UsedFds <= 2

WritersApart == StaffOnlyDecide /\ UnlockedApart /\ (UpToTwoRows \/ LockersOnly \/ Serial)

\* Worker threads are interchangeable.
ThreadSymmetry == Permutations(Threads)

-----------------------------------------------------------------------------
Approved == {t \in Txs \ Legacy : tx[t].status = "approved"}
PotsOf(u) == {p \in Pots : pot[p].owner = u}
LentTo(u) == {l \in LoanIds : loan[l].owner = u /\ loan[l].status \in {"approved", "repaid"}}
FdsOf(u) == {f \in FdIds : fd[f].owner = u}

\* What a loan brought its owner so far: the principal less the repayments.
Lent == [l \in LoanIds |-> loan[l].principal - Repayable(loan[l].principal)
                              + loan[l].outstanding]
\* What a fixed deposit did: the principal locked away, the payout if it is paid.
Locked == [f \in FdIds |-> (IF fd[f].status = "matured" THEN fd[f].payout ELSE 0)
                              - fd[f].principal]

\* What the other tables record about a balance: approved transactions, less
\* what the pots hold, plus principals less repayments, less what was locked
\* away, plus what matured.
OnRecord(u) ==
    Opening[u]
        + SumFunctionOnSet([t \in Txs |-> Effect(tx[t], u)], Approved)
        - SumFunctionOnSet([p \in Pots |-> pot[p].saved], PotsOf(u))
        + SumFunctionOnSet(Lent, LentTo(u))
        + SumFunctionOnSet(Locked, FdsOf(u))

\* Every balance is what the other tables record about it, but for what the
\* columns round apart when a fixed deposit is opened with part of a kobo: the
\* customer keeps at most one kobo more for each fixed deposit opened, and
\* loans, repayments and everything else leave no difference at all.
BalancesExplained ==
    \A u \in Customers : balance[u] - OnRecord(u) \in 0..Cardinality(FdsOf(u))
=============================================================================
