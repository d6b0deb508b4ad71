----------------------------- MODULE QrTransfers ----------------------------
(***************************************************************************)
(* QR payments: the signed code of an account or of a payment request, and *)
(* the payment that settles at once instead of waiting for an admin.  A    *)
(* payment that the fraud rules flag is held as a pending transaction and  *)
(* decided like any other (module Approvals, which this one runs beside).  *)
(*                                                                         *)
(* A payment reads its target and its Idempotency-Key without locks, locks *)
(* both users rows in the order of their ids and refreshes them, re-reads  *)
(* the payment request under its row lock, checks everything again, and    *)
(* moves the money, the ledger, the transaction, the QR row and the        *)
(* request's status in one commit.                                         *)
(***************************************************************************)
EXTENDS Reconciliation

CONSTANTS Asks,    \* ids of qr_payment_requests
          QrKeys,      \* Idempotency-Keys clients use
          MaxOpenAsks, \* qr_request_max_open
          DailyLimit,  \* qr_daily_limit
          MaxPayment   \* qr_transfer_max_amount

ASSUME QrAssumption ==
    /\ None \notin Asks \cup QrKeys
    /\ MaxOpenAsks \in Nat /\ DailyLimit \in Nat /\ MaxPayment \in Nat

VARIABLES ask,       \* qr_payment_requests
          qr,        \* qr_transfers, by transaction (transaction_id is unique)
          today,     \* the transactions of qr_transfers created today
          active,    \* users.is_active
          pay        \* the payment or request a thread is working on

qrVars == <<ask, qr, today, active, pay>>

QrOps == {"pay", "ask"}

NoAsk == [owner |-> None, amount |-> 0, status |-> "absent", expired |-> FALSE]
NoQr == [sender |-> None, key |-> None, request |-> None]
NoPay == [to |-> None, request |-> None, amount |-> 0, key |-> None]

QrInit ==
    /\ ApprovalsInit
    /\ ask = [q \in Asks |-> NoAsk]
    /\ qr = [t \in Txs |-> NoQr]
    /\ today = {}
    /\ active = [u \in Users |-> TRUE]
    /\ pay = [r \in Threads |-> NoPay]

-----------------------------------------------------------------------------
(* Payment requests. *)

Usable(q) == ask[q].status = "open" /\ ~ask[q].expired

\* create_request: the usable requests are counted, without a lock; an amount
\* of 0 lets the payer choose.
BeginAsk(r, u, a) ==
    /\ active[u]
    /\ a <= MaxPayment
    /\ Cardinality({q \in Asks : ask[q].owner = u /\ Usable(q)}) < MaxOpenAsks
    /\ Begin(r, u, "ask")
    /\ pay' = [pay EXCEPT ![r] = [NoPay EXCEPT !.amount = a]]
    /\ UNCHANGED <<balance, lock, want, approvalsVars, ask, qr, today, active>>

InsertAsk(r, q) ==
    /\ op[r] = "ask"
    /\ ask[q].status = "absent"
    /\ ask' = [ask EXCEPT ![q] = [owner |-> who[r], amount |-> pay[r].amount,
                                  status |-> "open", expired |-> FALSE]]
    /\ pay' = [pay EXCEPT ![r] = NoPay]
    /\ Finish(r)
    /\ UNCHANGED <<balance, approvalsVars, qr, today, active>>

\* cancel_request locks the row, looks and commits; it waits for nothing else.
CancelAsk(q) ==
    /\ ask[q].status \in {"open", "cancelled"}
    /\ ask' = [ask EXCEPT ![q].status = "cancelled"]
    /\ UNCHANGED <<accountsVars, approvalsVars, qr, today, active, pay>>

\* expires_at passes (of a paid or cancelled request it is never asked).
Expire(q) ==
    /\ Usable(q)
    /\ ask' = [ask EXCEPT ![q].expired = TRUE]
    /\ UNCHANGED <<accountsVars, approvalsVars, qr, today, active, pay>>

-----------------------------------------------------------------------------
(* Paying. *)

KeyUsed(u, key) == \E t \in Txs : qr[t].sender = u /\ qr[t].key = key

\* Variant: the sender's row first.
SenderFirst(r, u, v) == u

\* The row locked first; then the other one.
LowestFirst(r, u, v) == IF u < v THEN u ELSE v

\* The code is read (its signature holds), the request it names is looked at
\* for its owner and amount, and the key is looked up: a known key is answered
\* with the earlier receipt and nothing changes.
BeginPay(r, u, to, q, a, key) ==
    /\ to # u
    /\ q # None => /\ ask[q].status # "absent"
                   /\ to = ask[q].owner
                   /\ ask[q].amount # 0 => a = ask[q].amount
    /\ ~KeyUsed(u, key)
    /\ op[r] = "idle"
    /\ op' = [op EXCEPT ![r] = "pay"]
    /\ who' = [who EXCEPT ![r] = u]
    /\ view' = [view EXCEPT ![r] = [EmptyView EXCEPT ![u] = balance[u]]]
    /\ want' = [want EXCEPT ![r] = LowestFirst(r, u, to)]
    /\ pay' = [pay EXCEPT ![r] = [to |-> to, request |-> q, amount |-> a, key |-> key]]
    /\ UNCHANGED <<balance, lock, approvalsVars, ask, qr, today, active>>

\* SELECT ... ORDER BY id FOR UPDATE, then db.refresh of both rows.
LockPayRow(r) ==
    LET both == {who[r], pay[r].to}
        rest == {u \in both : lock[u] # r} \ {want[r]}
    IN  /\ op[r] = "pay"
        /\ LockRow(r, TRUE, IF rest = {} THEN None ELSE CHOOSE u \in rest : TRUE)
        /\ UNCHANGED <<approvalsVars, qrVars>>

\* _sent_today: what was paid and what is still held.
SentToday(u) ==
    SumFunctionOnSet([t \in Txs |-> tx[t].amount],
        {t \in today : qr[t].sender = u /\ tx[t].status \in {"approved", "pending"}})

\* Variant: held payments are not counted against the limit.
PayableHeldFree(r) ==
    LET p == pay[r]
        paid == {t \in today : qr[t].sender = who[r] /\ tx[t].status = "approved"}
    IN  /\ p.request # None => Usable(p.request)
        /\ active[who[r]] /\ active[p.to]
        /\ p.amount <= MaxPayment
        /\ SumFunctionOnSet([t \in Txs |-> tx[t].amount], paid) + p.amount <= DailyLimit
        /\ p.amount <= view[r][who[r]]

\* Variant: the request is not looked at again under its lock.
PayableAsRead(r) ==
    LET p == pay[r]
    IN  /\ active[who[r]] /\ active[p.to]
        /\ p.amount <= MaxPayment
        /\ SentToday(who[r]) + p.amount <= DailyLimit
        /\ p.amount <= view[r][who[r]]

\* What _settle checks again once the rows are locked.
Payable(r) ==
    LET p == pay[r]
    IN  /\ p.request # None => Usable(p.request)
        /\ active[who[r]] /\ active[p.to]
        /\ p.amount <= MaxPayment
        /\ SentToday(who[r]) + p.amount <= DailyLimit
        /\ p.amount <= view[r][who[r]]

\* Variant: no unique (sender, key).
UniqueRequestOnly(r) ==
    pay[r].request # None => \A t \in Txs : qr[t].request # pay[r].request

\* The unique constraints of qr_transfers let the row in.
UniqueHolds(r) ==
    /\ ~KeyUsed(who[r], pay[r].key)
    /\ pay[r].request # None => \A t \in Txs : qr[t].request # pay[r].request

\* Variant: a held payment takes the money at once.
MovesAtOnce(r, flagged, u, x) == balance[u] + Effect(x, u)

\* UPDATE users SET balance = balance - value ... WHERE balance >= value.
BalanceAfter(r, flagged, u, x) == IF flagged THEN balance[u] ELSE balance[u] + Effect(x, u)

\* _settle: everything in one commit; a flagged payment is only recorded.
SettlePayment(r, t, flagged) ==
    LET p == pay[r]
        x == NewTx("transfer", p.amount, who[r], p.to)
    IN  /\ op[r] = "pay" /\ want[r] = None
        /\ Payable(r)
        /\ UniqueHolds(r)
        /\ Fresh(t)
        /\ balance' = [u \in Users |-> BalanceAfter(r, flagged, u, x)]
        /\ tx' = [tx EXCEPT ![t] = [x EXCEPT !.status = IF flagged THEN "pending" ELSE "approved"]]
        /\ posted' = [posted EXCEPT ![t] = IF flagged THEN @ ELSE @ + 1]
        /\ qr' = [qr EXCEPT ![t] = [sender |-> who[r], key |-> p.key, request |-> p.request]]
        /\ today' = today \cup {t}
        /\ ask' = IF p.request = None THEN ask ELSE [ask EXCEPT ![p.request].status = "paid"]
        /\ pay' = [pay EXCEPT ![r] = NoPay]
        /\ Finish(r)
        /\ UNCHANGED <<txLock, work, scan, batch, active>>

\* A refused check, an IntegrityError (answered with the winner's receipt), a
\* deadlock victim, an error or a crash: rolled back.
AbortQr(r) ==
    /\ op[r] \in QrOps
    /\ RollBack(r)
    /\ pay' = [pay EXCEPT ![r] = NoPay]
    /\ UNCHANGED <<approvalsVars, ask, qr, today, active>>

-----------------------------------------------------------------------------
\* set_user_active: an UPDATE, so it waits for the row; no admin turns off their
\* own account.
SetActive(u, on) ==
    /\ Free(u)
    /\ on \/ Admins \ {u} # {}
    /\ active' = [active EXCEPT ![u] = on]
    /\ UNCHANGED <<accountsVars, approvalsVars, ask, qr, today, pay>>

\* Midnight in Lagos.
Midnight ==
    /\ today' = {}
    /\ UNCHANGED <<accountsVars, approvalsVars, ask, qr, active, pay>>

QrActivity ==
    \/ \E r \in Threads :
          \/ \E u \in Users :
                \/ \E a \in Amounts \cup {0} : BeginAsk(r, u, a)
                \/ \E to \in Users, q \in Asks \cup {None}, a \in Amounts, key \in QrKeys :
                       BeginPay(r, u, to, q, a, key)
          \/ \E q \in Asks : InsertAsk(r, q)
          \/ LockPayRow(r)
          \/ \E t \in Txs, flagged \in BOOLEAN : SettlePayment(r, t, flagged)
          \/ AbortQr(r)
    \/ \E q \in Asks : CancelAsk(q) \/ Expire(q)
    \/ \E u \in Users, on \in BOOLEAN : SetActive(u, on)
    \/ Midnight

QrNext == QrActivity \/ (ApprovalsNext /\ UNCHANGED qrVars)

QrSpec == QrInit /\ [][QrNext]_<<allApprovalsVars, qrVars>>

-----------------------------------------------------------------------------
(* Properties. *)

\* Types of the QR tables and of the payments in work.
QrTypeOK ==
    /\ AccountsTypeOK(ApprovalOps \cup QrOps)
    /\ TransactionsTypeOK
    /\ ask \in [Asks -> [owner : Users \cup {None}, amount : Nat,
                             status : {"absent", "open", "paid", "cancelled"}, expired : BOOLEAN]]
    /\ qr \in [Txs -> [sender : Users \cup {None}, key : QrKeys \cup {None},
                       request : Asks \cup {None}]]
    /\ today \subseteq Txs
    /\ active \in [Users -> BOOLEAN]
    /\ pay \in [Threads -> [to : Users \cup {None}, request : Asks \cup {None},
                            amount : Nat, key : QrKeys \cup {None}]]

\* "The unique (sender, key) pair is what makes a repeated request with the same
\* Idempotency-Key a no-op": one payment per key, even of simultaneous requests.
OnePaymentPerKey ==
    \A s, t \in Txs :
        qr[s] # NoQr /\ qr[s].sender = qr[t].sender /\ qr[s].key = qr[t].key => s = t

\* "It can be paid once, before it expires": a payment request that is paid,
\* cancelled or expired is never linked to a new payment, whatever a payment in
\* work had read of it.
ClosedAsksStayClosed ==
    [][\A q \in Asks :
          ~Usable(q) => /\ {t \in Txs : qr'[t].request = q} = {t \in Txs : qr[t].request = q}
                        /\ ask[q].status = "paid" <=> ask'[q].status = "paid"]_<<tx, qr, ask>>

\* What a person pays by QR in one day, held payments included, stays within the
\* limit however many payments are sent at once and whatever admins decide.
DailyLimitKept == \A u \in Users : SentToday(u) <= DailyLimit

\* "So two payments can never deadlock each other": every deadlock has an
\* approval in it.
NoPaymentDeadlock ==
    \A C \in SUBSET {r \in Threads : op[r] = "pay"} :
        C # {} => \E s \in C : Holder(s) \notin C
=============================================================================
