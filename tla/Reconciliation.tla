--------------------------- MODULE Reconciliation ---------------------------
(***************************************************************************)
(* The ledger read back: the balance computed from ledger entries alone,   *)
(* compared with the stored one.                                           *)
(***************************************************************************)
EXTENDS Approvals, Functions

\* get_ledger_balance: credits minus debits of the user's entries.
LedgerBalance(u) ==
    SumFunctionOnSet([t \in Txs |-> posted[t] * Effect(tx[t], u)],
                     {t \in Txs : tx[t].kind \in LedgerKinds})

\* Approved withdrawals have no ledger entry, and an opening balance has none
\* but the backfilled entries of the deposits it consists of.
Unledgered(u) ==
    SumFunctionOnSet([t \in Txs |-> Effect(tx[t], u)],
                     {t \in Txs : tx[t].kind = "withdrawal" /\ tx[t].status = "approved"})
Backfilled(u) ==
    SumFunctionOnSet([t \in Txs |-> posted[t] * Effect(tx[t], u)], Legacy)

\* reconcile_user's comparison, with the movements the ledger does not record
\* accounted for: the stored balance of a customer is always explained by the
\* ledger to the kobo.
Reconciles ==
    \A u \in Customers :
        balance[u] = Opening[u] + LedgerBalance(u) - Backfilled(u) + Unledgered(u)
=============================================================================
