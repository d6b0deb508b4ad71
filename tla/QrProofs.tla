------------------------------ MODULE QrProofs ------------------------------
(***************************************************************************)
(* What QR payments guarantee for any number of people, threads, keys and  *)
(* payment requests, beside any approvals.  For the unique keys and the    *)
(* closed payment requests, the constraints and the second look under the  *)
(* row lock are enough; the daily limit and the order of locks rest on the *)
(* lemmas of ApprovalsProofs about approvals beside other operations.      *)
(***************************************************************************)
EXTENDS QrTransfers, ApprovalsProofs, SumProofs

AskRow == [owner : Users \cup {None}, amount : Nat,
           status : {"absent", "open", "paid", "cancelled"}, expired : BOOLEAN]
QrRow == [sender : Users \cup {None}, key : QrKeys \cup {None}, request : Asks \cup {None}]
PayRow == [to : Users \cup {None}, request : Asks \cup {None}, amount : Nat,
           key : QrKeys \cup {None}]

\* The tables a payment writes, and what a request knows of itself.
QrTyped ==
    /\ tx \in [Txs -> TxRow]
    /\ who \in [Threads -> Users \cup {None}]
    /\ ask \in [Asks -> AskRow]
    /\ qr \in [Txs -> QrRow]
    /\ pay \in [Threads -> PayRow]

\* A row that is not there has no QR payment.
AbsentUnlinked == \A t \in Txs : tx[t].status = "absent" => qr[t] = NoQr

QrInv == QrTyped /\ AbsentUnlinked /\ OnePaymentPerKey

LEMMA NoneOutside == None \notin Users /\ None \notin Asks /\ None \notin QrKeys
BY AccountsAssumption, QrAssumption

LEMMA QrInitInv == QrInit => QrInv
<1> SUFFICES ASSUME QrInit
             PROVE  QrInv
  OBVIOUS
<1>1. tx \in [Txs -> TxRow]
  <2>1. PICK owner \in [Legacy -> Users], amount \in [Legacy -> Amounts] :
           tx = [t \in Txs |-> IF t \in Legacy THEN LegacyTx(owner[t], amount[t])
                                               ELSE NoTx]
    BY DEF QrInit, ApprovalsInit
  <2>2. \A t \in Legacy : owner[t] \in Users /\ amount[t] \in Nat
    BY ApprovalsAssumption
  <2>3. \A t \in Legacy : LegacyTx(owner[t], amount[t]) \in TxRow
    BY <2>2 DEF LegacyTx, NewTx, TxRow, Kinds, Statuses
  <2>4. NoTx \in TxRow
    BY DEF NoTx, TxRow, Kinds, Statuses
  <2> QED
    BY <2>1, <2>3, <2>4
<1>2. who \in [Threads -> Users \cup {None}]
  BY DEF QrInit, ApprovalsInit, AccountsInit
<1>3. /\ ask = [q \in Asks |-> NoAsk]
      /\ qr = [t \in Txs |-> NoQr]
      /\ pay = [r \in Threads |-> NoPay]
  BY DEF QrInit
<1>4. QrTyped
  BY <1>1, <1>2, <1>3 DEF QrTyped, AskRow, QrRow, PayRow, NoAsk, NoQr, NoPay
<1> QED
  BY <1>3, <1>4 DEF QrInv, AbsentUnlinked, OnePaymentPerKey

-----------------------------------------------------------------------------
(* Approvals beside QR payments. *)

\* Whatever the approval workflow does, its rows keep their type and none
\* disappears.
LEMMA ApprovalsKeepRows ==
    ASSUME QrTyped, ApprovalsNext
    PROVE  /\ tx' \in [Txs -> TxRow]
           /\ who' \in [Threads -> Users \cup {None}]
           /\ \A t \in Txs : tx'[t].status = "absent" => tx[t].status = "absent"
<1> USE DEF QrTyped
<1>1. ASSUME NEW r \in Threads, SubmitDeposit(r) \/ SubmitWithdrawal(r) \/ SubmitTransfer(r)
      PROVE  /\ who' = [who EXCEPT ![r] = None]
             /\ \E t \in Txs, x \in TxRow : x.status = "pending" /\ tx' = [tx EXCEPT ![t] = x]
  <2>1. PICK kind \in Kinds, a \in Amounts, s \in Users \cup {None}, v \in Users \cup {None} :
           Insert(r, NewTx(kind, a, s, v))
    <3>1. who[r] \in Users \cup {None}
      OBVIOUS
    <3>2. CASE SubmitDeposit(r)
      BY <3>1, <3>2 DEF SubmitDeposit, Kinds
    <3>3. CASE SubmitWithdrawal(r)
      BY <3>1, <3>3 DEF SubmitWithdrawal, Kinds
    <3>4. CASE SubmitTransfer(r)
      BY <3>1, <3>4 DEF SubmitTransfer, Kinds
    <3> QED
      BY <1>1, <3>2, <3>3, <3>4
  <2>2. NewTx(kind, a, s, v) \in TxRow /\ NewTx(kind, a, s, v).status = "pending"
    BY ApprovalsAssumption DEF NewTx, TxRow, Statuses
  <2> QED
    BY <2>1, <2>2 DEF Insert, Finish
<1>2. ASSUME NEW r \in Threads, CommitApproval(r)
      PROVE  /\ UNCHANGED who
             /\ UNCHANGED tx \/ \E t \in Txs : tx' = [tx EXCEPT ![t].status = "approved"]
  <2>1. UNCHANGED who /\ tx' = [tx EXCEPT ![work[r]].status = "approved"]
    BY <1>2 DEF CommitApproval
  <2>2. CASE work[r] \in Txs
    BY <2>1, <2>2
  <2>3. CASE work[r] \notin Txs
    BY <2>1, <2>3
  <2> QED
    BY <2>1, <2>2, <2>3
<1>3. ASSUME NEW t \in Txs, Reject(t)
      PROVE  UNCHANGED who /\ tx' = [tx EXCEPT ![t].status = "rejected"]
  BY <1>3 DEF Reject, accountsVars
<1>4. ASSUME NEW r \in Threads,
             \/ RefuseSubmit(r) \/ LockPending(r) \/ RefuseDecided(r) \/ RefuseUncovered(r)
             \/ CheckRecorded(r) \/ CommitBackfill(r) \/ LockParty(r)
             \/ Abort(r) \/ AbortVictim(r) \/ SkipBonus(r)
             \/ \E u \in Users : \/ BeginSubmit(r, u) \/ BeginBackfill(r, u)
                                 \/ \E t \in Txs : BeginApprove(r, u, t)
      PROVE  /\ UNCHANGED tx
             /\ \E u \in Users \cup {None} : who' \in {who, [who EXCEPT ![r] = u]}
  BY <1>4 DEF RefuseSubmit, LockPending, RefuseDecided, RefuseUncovered, CheckRecorded,
     CommitBackfill, LockParty, LockRow, Abort, AbortVictim, DeadlockVictim, RollBack, Forget,
     SkipBonus, BeginSubmit, BeginBackfill, BeginApprove, Begin, Finish, accountsVars, approvalsVars
<1>5. \A st \in Statuses \ {"absent"}, t \in Txs :
         tx' = [tx EXCEPT ![t].status = st] =>
            /\ tx' \in [Txs -> TxRow]
            /\ \A s \in Txs : tx'[s].status = "absent" => tx[s].status = "absent"
  BY DEF TxRow
<1>6. CASE \E r \in Threads : SubmitDeposit(r) \/ SubmitWithdrawal(r) \/ SubmitTransfer(r)
  BY <1>1, <1>6
<1>7. CASE \E r \in Threads : CommitApproval(r)
  BY <1>2, <1>5, <1>7 DEF Statuses
<1>8. CASE \E t \in Txs : Reject(t)
  BY <1>3, <1>5, <1>8 DEF Statuses
<1> QED
  BY <1>4, <1>6, <1>7, <1>8 DEF ApprovalsNext, ApprovalActivity, ApprovalStep

-----------------------------------------------------------------------------
(* QR payments. *)

LEMMA SettleKeeps ==
    ASSUME QrInv, NEW r \in Threads, NEW t \in Txs, NEW flagged \in BOOLEAN,
           SettlePayment(r, t, flagged)
    PROVE  QrInv'
<1> DEFINE p == pay[r]
           x == NewTx("transfer", p.amount, who[r], p.to)
           row == [sender |-> who[r], key |-> p.key, request |-> p.request]
<1>1. p \in PayRow /\ who[r] \in Users \cup {None}
  BY DEF QrInv, QrTyped
<1>2. x \in TxRow /\ x.status = "pending"
  BY <1>1 DEF NewTx, TxRow, PayRow, Kinds, Statuses
<1>3. PICK st \in {"pending", "approved"} : tx' = [tx EXCEPT ![t] = [x EXCEPT !.status = st]]
  BY DEF SettlePayment
<1>4. tx' \in [Txs -> TxRow] /\ tx'[t].status # "absent"
      /\ \A s \in Txs \ {t} : tx'[s] = tx[s]
  <2>1. [x EXCEPT !.status = st] \in TxRow /\ [x EXCEPT !.status = st].status = st
    BY <1>2 DEF TxRow, Statuses
  <2> QED
    BY <1>3, <2>1 DEF QrInv, QrTyped
<1>5. qr' = [qr EXCEPT ![t] = row] /\ row \in QrRow
  BY <1>1 DEF SettlePayment, PayRow, QrRow
<1>6. ask' \in [Asks -> AskRow]
  <2>1. ask \in [Asks -> AskRow]
    BY DEF QrInv, QrTyped
  <2>2. CASE p.request = None
    BY <2>1, <2>2 DEF SettlePayment
  <2>3. CASE p.request # None
    BY <2>1, <2>3 DEF SettlePayment, AskRow
  <2> QED
    BY <2>2, <2>3
<1>7. pay' \in [Threads -> PayRow] /\ who' \in [Threads -> Users \cup {None}]
  BY DEF QrInv, QrTyped, SettlePayment, Finish, NoPay, PayRow
<1>8. QrTyped'
  BY <1>4, <1>5, <1>6, <1>7 DEF QrInv, QrTyped
<1>9. AbsentUnlinked'
  BY <1>4, <1>5 DEF QrInv, QrTyped, AbsentUnlinked
<1>10. OnePaymentPerKey'
  <2>1. \A s \in Txs : ~(qr[s].sender = row.sender /\ qr[s].key = row.key)
    BY DEF SettlePayment, UniqueHolds, KeyUsed
  <2> QED
    BY <1>5, <2>1 DEF QrInv, QrTyped, OnePaymentPerKey
<1> QED
  BY <1>8, <1>9, <1>10 DEF QrInv

\* The steps of people, clocks and admins that link nothing.
UnlinkedStep ==
    \/ \E r \in Threads :
          \/ \E u \in Users :
                \/ \E a \in Amounts \cup {0} : BeginAsk(r, u, a)
                \/ \E to \in Users, q \in Asks \cup {None}, a \in Amounts, key \in QrKeys :
                       BeginPay(r, u, to, q, a, key)
          \/ \E q \in Asks : InsertAsk(r, q)
          \/ LockPayRow(r)
          \/ AbortQr(r)
    \/ \E q \in Asks : CancelAsk(q) \/ Expire(q)
    \/ \E u \in Users, on \in BOOLEAN : SetActive(u, on)
    \/ Midnight

LEMMA UnlinkedKeeps ==
    ASSUME QrInv, UnlinkedStep
    PROVE  /\ QrInv'
           /\ UNCHANGED <<tx, qr>>
           /\ \A q \in Asks : ask[q].status = "paid" <=> ask'[q].status = "paid"
<1> DEFINE Good == /\ UNCHANGED <<tx, qr>>
                   /\ who' \in [Threads -> Users \cup {None}]
                   /\ pay' \in [Threads -> PayRow]
                   /\ ask' \in [Asks -> AskRow]
                   /\ \A q \in Asks : ask[q].status = "paid" <=> ask'[q].status = "paid"
<1>1. QrTyped /\ Amounts \subseteq Nat
  BY ApprovalsAssumption DEF QrInv
<1>2. ASSUME NEW r \in Threads, NEW u \in Users, NEW a \in Amounts \cup {0}, BeginAsk(r, u, a)
      PROVE  Good
  BY <1>1, <1>2 DEF QrTyped, BeginAsk, Begin, NoPay, PayRow, approvalsVars
<1>3. ASSUME NEW r \in Threads, NEW u \in Users, NEW to \in Users, NEW q \in Asks \cup {None},
             NEW a \in Amounts, NEW key \in QrKeys, BeginPay(r, u, to, q, a, key)
      PROVE  Good
  BY <1>1, <1>3 DEF QrTyped, BeginPay, PayRow, approvalsVars
<1>4. ASSUME NEW r \in Threads, NEW q \in Asks, InsertAsk(r, q)
      PROVE  Good
  <2>1. UNCHANGED <<tx, qr>> /\ who' \in [Threads -> Users \cup {None}]
    BY <1>1, <1>4 DEF QrTyped, InsertAsk, Finish, approvalsVars
  <2>2. pay' \in [Threads -> PayRow]
    BY <1>1, <1>4 DEF QrTyped, InsertAsk, NoPay, PayRow
  <2>3. /\ ask[q].status = "absent"
        /\ ask' = [ask EXCEPT ![q] = [owner |-> who[r], amount |-> pay[r].amount,
                                      status |-> "open", expired |-> FALSE]]
    BY <1>4 DEF InsertAsk
  <2>4. [owner |-> who[r], amount |-> pay[r].amount, status |-> "open", expired |-> FALSE] \in AskRow
    BY <1>1 DEF QrTyped, AskRow, PayRow
  <2>5. /\ ask' \in [Asks -> AskRow]
        /\ \A f \in Asks : ask[f].status = "paid" <=> ask'[f].status = "paid"
    BY <1>1, <2>3, <2>4 DEF QrTyped
  <2> QED
    BY <2>1, <2>2, <2>5
<1>5. ASSUME NEW r \in Threads, LockPayRow(r)
      PROVE  Good
  BY <1>1, <1>5 DEF QrTyped, LockPayRow, LockRow, approvalsVars, qrVars
<1>6. ASSUME NEW r \in Threads, AbortQr(r)
      PROVE  Good
  BY <1>1, <1>6 DEF QrTyped, AbortQr, RollBack, Finish, NoPay, PayRow, approvalsVars
<1>7. ASSUME NEW q \in Asks, CancelAsk(q) \/ Expire(q)
      PROVE  Good
  <2>1. UNCHANGED <<tx, who, qr, pay>>
    BY <1>7 DEF CancelAsk, Expire, accountsVars, approvalsVars
  <2>2. \/ /\ ask[q].status \in {"open", "cancelled"}
           /\ ask' = [ask EXCEPT ![q].status = "cancelled"]
        \/ ask' = [ask EXCEPT ![q].expired = TRUE]
    BY <1>7 DEF CancelAsk, Expire
  <2>3. /\ ask' \in [Asks -> AskRow]
        /\ \A f \in Asks : ask[f].status = "paid" <=> ask'[f].status = "paid"
    <3>1. ask \in [Asks -> AskRow]
      BY <1>1 DEF QrTyped
    <3>2. CASE /\ ask[q].status \in {"open", "cancelled"}
               /\ ask' = [ask EXCEPT ![q].status = "cancelled"]
      BY <3>1, <3>2 DEF AskRow
    <3>3. CASE ask' = [ask EXCEPT ![q].expired = TRUE]
      BY <3>1, <3>3 DEF AskRow
    <3> QED
      BY <2>2, <3>2, <3>3
  <2> QED
    BY <1>1, <2>1, <2>3 DEF QrTyped
<1>8. ASSUME (\E u \in Users, on \in BOOLEAN : SetActive(u, on)) \/ Midnight
      PROVE  Good
  <2>1. UNCHANGED <<tx, who, ask, qr, pay>>
    BY <1>8 DEF SetActive, Midnight, accountsVars, approvalsVars
  <2> QED
    BY <1>1, <2>1 DEF QrTyped
<1> HIDE DEF Good
<1>9. Good
  BY <1>2, <1>3, <1>4, <1>5, <1>6, <1>7, <1>8 DEF UnlinkedStep
<1> QED
  BY <1>1, <1>9 DEF Good, QrInv, QrTyped, AbsentUnlinked, OnePaymentPerKey

LEMMA QrStepInv == QrInv /\ [QrNext]_<<allApprovalsVars, qrVars>> => QrInv'
<1> SUFFICES ASSUME QrInv, [QrNext]_<<allApprovalsVars, qrVars>>
             PROVE  QrInv'
  OBVIOUS
<1>1. CASE UNCHANGED <<allApprovalsVars, qrVars>>
  <2>1. UNCHANGED <<tx, who, ask, qr, pay>>
    BY <1>1 DEF allApprovalsVars, accountsVars, approvalsVars, qrVars
  <2> QED
    BY <2>1 DEF QrInv, QrTyped, AbsentUnlinked, OnePaymentPerKey
<1>2. CASE ApprovalsNext /\ UNCHANGED qrVars
  <2>1. UNCHANGED <<ask, qr, pay>>
    BY <1>2 DEF qrVars
  <2> QED
    BY <1>2, <2>1, ApprovalsKeepRows DEF QrInv, QrTyped, AbsentUnlinked, OnePaymentPerKey
<1>3. ASSUME NEW r \in Threads, NEW t \in Txs, NEW flagged \in BOOLEAN, SettlePayment(r, t, flagged)
      PROVE  QrInv'
  BY <1>3, SettleKeeps
<1>4. CASE QrActivity
  BY <1>3, <1>4, UnlinkedKeeps DEF QrActivity, UnlinkedStep
<1> QED
  BY <1>1, <1>2, <1>4 DEF QrNext

-----------------------------------------------------------------------------
(* The theorems. *)

\* The tables keep their types and the unique keys hold in every state.
THEOREM QrInvariance == QrSpec => []QrInv
BY QrInitInv, QrStepInv, PTL DEF QrSpec

\* However many requests with one Idempotency-Key run at once, a sender pays
\* once with it.
THEOREM KeysPayOnce == QrSpec => []OnePaymentPerKey
<1>1. QrInv => OnePaymentPerKey
  BY DEF QrInv
<1> QED
  BY <1>1, QrInvariance, PTL

\* What one step may do to a payment request that is not usable.
LEMMA ClosedStep ==
    ASSUME QrInv, QrNext, NEW q \in Asks, ~Usable(q)
    PROVE  /\ {t \in Txs : qr'[t].request = q} = {t \in Txs : qr[t].request = q}
           /\ ask[q].status = "paid" <=> ask'[q].status = "paid"
<1> DEFINE Stays == /\ {t \in Txs : qr'[t].request = q} = {t \in Txs : qr[t].request = q}
                    /\ ask[q].status = "paid" <=> ask'[q].status = "paid"
<1>1. ASSUME NEW r \in Threads, NEW t \in Txs, NEW flagged \in BOOLEAN, SettlePayment(r, t, flagged)
      PROVE  Stays
  <2>1. pay[r].request # q
    BY <1>1, NoneOutside DEF SettlePayment, Payable
  <2>2. qr[t] = NoQr /\ qr[t].request # q
    BY <1>1, NoneOutside DEF SettlePayment, Fresh, QrInv, AbsentUnlinked, NoQr
  <2>3. qr' = [qr EXCEPT ![t] = [sender |-> who[r], key |-> pay[r].key, request |-> pay[r].request]]
    BY <1>1 DEF SettlePayment
  <2>4. \A s \in Txs : qr'[s].request = q <=> qr[s].request = q
    BY <2>1, <2>2, <2>3 DEF QrInv, QrTyped
  <2>5. ask'[q] = ask[q]
    BY <1>1, <2>1 DEF SettlePayment, QrInv, QrTyped
  <2> QED
    BY <2>4, <2>5
<1>2. CASE UnlinkedStep
  BY <1>2, UnlinkedKeeps
<1>3. CASE QrActivity
  BY <1>1, <1>2, <1>3 DEF QrActivity, UnlinkedStep
<1>4. CASE UNCHANGED qrVars
  BY <1>4 DEF qrVars
<1> QED
  BY <1>3, <1>4 DEF QrNext

\* A payment request that is paid, cancelled or expired is paid by nobody any
\* more, whatever a payment in work had read of it.
THEOREM ClosedRequestsStay == QrSpec => ClosedAsksStayClosed
<1>1. QrInv /\ [QrNext]_<<allApprovalsVars, qrVars>> =>
          [\A q \in Asks :
              ~Usable(q) => /\ {t \in Txs : qr'[t].request = q} = {t \in Txs : qr[t].request = q}
                            /\ ask[q].status = "paid" <=> ask'[q].status = "paid"]_<<tx, qr, ask>>
  BY ClosedStep DEF allApprovalsVars, approvalsVars, qrVars
<1> QED
  BY <1>1, QrInvariance, PTL DEF QrSpec, ClosedAsksStayClosed

-----------------------------------------------------------------------------
(* Locks, types and the daily limit. *)

AllOps == ApprovalOps \cup QrOps

\* The threads that hold rows of users.
Holders == {"settle", "pay"}

\* A payment goes to somebody else.
Paying == \A r \in Threads : op[r] = "pay" => pay[r].to \in Users /\ pay[r].to # who[r]

\* Of its two rows a payment holds those below the one it waits for.
RowOrder ==
    \A r \in Threads :
        op[r] = "pay" =>
            /\ want[r] \in {None, who[r], pay[r].to}
            /\ \A u \in Users :
                  lock[u] = r <=> u \in {who[r], pay[r].to} /\ (want[r] # None => u < want[r])

\* What was paid today has its row.
TodayRecorded == today \subseteq Txs /\ \A t \in today : tx[t].status # "absent"

PaymentsInv ==
    /\ QrInv
    /\ Typed(AllOps) /\ Exclusive(Holders)
    /\ active \in [Users -> BOOLEAN]
    /\ TodayRecorded
    /\ Paying
    /\ RowOrder
    /\ DailyLimitKept

LEMMA TxsFinite == IsFiniteSet(Txs)
BY ApprovalsAssumption, FS_Interval DEF Txs

LEMMA InitPayments == QrInit => PaymentsInv
<1> SUFFICES ASSUME QrInit
             PROVE  PaymentsInv
  OBVIOUS
<1>1. ApprovalsInit /\ today = {} /\ active = [u \in Users |-> TRUE]
  BY DEF QrInit
<1>2. op = [r \in Threads |-> "idle"] /\ lock = [u \in Users |-> None]
  BY <1>1 DEF ApprovalsInit, AccountsInit
<1>3. Exclusive(Holders) /\ Paying /\ RowOrder
  BY <1>2 DEF Exclusive, Paying, RowOrder
<1>4. DailyLimitKept
  <2>1. \A u \in Users :
           {t \in today : qr[t].sender = u /\ tx[t].status \in {"approved", "pending"}} = {}
    BY <1>1
  <2>2. \A u \in Users : SentToday(u) = 0
    BY <2>1, SumOfNone DEF SentToday
  <2> QED
    BY <2>2, QrAssumption DEF DailyLimitKept
<1> QED
  BY <1>1, <1>3, <1>4, QrInitInv, InitTyped DEF PaymentsInv, TodayRecorded

\* Decisions, and days that end, never add to what a person has sent today.
LEMMA SentNoMore ==
    ASSUME PaymentsInv, TransactionsTypeOK', Grows, Final, qr' = qr,
           today' \subseteq today
    PROVE  DailyLimitKept' /\ TodayRecorded'
<1>1. TodayRecorded'
  BY DEF PaymentsInv, TodayRecorded, Grows
<1> SUFFICES ASSUME NEW u \in Users
             PROVE  SentToday(u)' <= DailyLimit
  BY <1>1 DEF DailyLimitKept
<1> DEFINE f == [t \in Txs |-> tx[t].amount]
           g == [t \in Txs |-> tx'[t].amount]
           S == {t \in today : qr[t].sender = u /\ tx[t].status \in {"approved", "pending"}}
           T == {t \in today' : qr'[t].sender = u /\ tx'[t].status \in {"approved", "pending"}}
<1>2. S \subseteq Txs /\ IsFiniteSet(S)
  BY TxsFinite, FS_Subset DEF PaymentsInv, TodayRecorded
<1>3. ASSUME NEW t \in T
      PROVE  t \in S /\ g[t] = f[t]
  <2>1. t \in today /\ t \in Txs /\ tx[t].status # "absent"
    BY <1>3 DEF PaymentsInv, TodayRecorded
  <2>2. tx[t].status # "rejected"
    BY <1>3, <2>1 DEF Final
  <2>3. tx[t].status \in {"approved", "pending"}
    BY <2>1, <2>2 DEF PaymentsInv, Typed, TransactionsTypeOK, TxRow, Statuses
  <2>4. tx'[t].amount = tx[t].amount
    BY <2>1 DEF Grows, PaymentsInv, Typed, TransactionsTypeOK, TxRow
  <2> QED
    BY <1>3, <2>1, <2>3, <2>4
<1>4. \A t \in S : f[t] \in Nat
  BY <1>2 DEF PaymentsInv, Typed, TransactionsTypeOK, TxRow
<1>5. SentToday(u) = SumFunctionOnSet(f, S) /\ SentToday(u)' = SumFunctionOnSet(g, T)
  BY DEF SentToday
<1>6. SentToday(u) <= DailyLimit
  BY DEF PaymentsInv, DailyLimitKept
<1> HIDE DEF f, g, S, T
<1>7. T \in SUBSET S
  BY <1>3
<1>8. \A t \in T : g[t] = f[t]
  BY <1>3
<1>9. SumFunctionOnSet(g, T) <= SumFunctionOnSet(f, S)
  BY <1>2, <1>4, <1>7, <1>8, SumSmaller
<1>10. SumFunctionOnSet(f, S) \in Nat /\ SumFunctionOnSet(g, T) \in Nat
  <2>1. IsFiniteSet(T) /\ \A t \in T : g[t] \in Nat
    BY <1>2, <1>4, <1>7, <1>8, FS_Subset
  <2> QED
    BY <1>2, <1>4, <2>1, SumNat
<1> QED
  BY <1>1, <1>5, <1>6, <1>9, <1>10, QrAssumption

-----------------------------------------------------------------------------
(* Each step keeps it. *)

LEMMA ApprovalsKeepPayments ==
    ASSUME PaymentsInv, QrInv', ApprovalsNext, UNCHANGED qrVars
    PROVE  PaymentsInv'
<1>1. UNCHANGED <<ask, qr, today, active, pay>>
  BY DEF qrVars
<1>2. Typed(AllOps) /\ Exclusive(Holders) /\ ApprovalOps \subseteq AllOps
  BY DEF PaymentsInv, AllOps
<1>3. ApprovalActivity \/ \E r \in Threads : SkipBonus(r)
  BY DEF ApprovalsNext
<1>4. Typed(AllOps)' /\ Grows
  BY <1>2, <1>3, ActivityTyped
<1>5. Exclusive(Holders)' /\ Final /\ Bystanders
  <2>1. "settle" \in Holders /\ "idle" \notin Holders /\ "approve" \notin Holders
    BY DEF Holders
  <2> QED
    BY <1>2, <1>3, <2>1, ActivityExclusive
<1>6. Proceeds
  BY <1>2, <1>3, ActivityProceeds
<1>7. \A r \in Threads : op'[r] = "pay" =>
         /\ op[r] = "pay" /\ who'[r] = who[r] /\ want'[r] = want[r] /\ pay'[r] = pay[r]
         /\ \A u \in Users : lock'[u] = r <=> lock[u] = r
  <2>1. \A r \in Threads : op'[r] = "pay" => op[r] = "pay"
    BY <1>6 DEF Proceeds
  <2>2. "pay" \notin ApprovalOps \cup {"idle"}
    BY DEF ApprovalOps
  <2> QED
    BY <1>1, <1>5, <2>1, <2>2 DEF Bystanders
<1>8. Paying' /\ RowOrder'
  BY <1>7 DEF PaymentsInv, Paying, RowOrder
<1>9. DailyLimitKept' /\ TodayRecorded'
  <2>1. TransactionsTypeOK'
    BY <1>4 DEF Typed
  <2> QED
    BY <1>1, <1>4, <1>5, <2>1, SentNoMore
<1> QED
  BY <1>1, <1>4, <1>5, <1>8, <1>9 DEF PaymentsInv

\* A step that leaves the rows of the transactions alone.
LEMMA SameRowsKeepPayments ==
    ASSUME PaymentsInv, QrInv', UNCHANGED <<tx, qr>>, today' \subseteq today,
           active' \in [Users -> BOOLEAN],
           Typed(AllOps)', Exclusive(Holders)', Paying', RowOrder'
    PROVE  PaymentsInv'
<1>1. TransactionsTypeOK' /\ Grows /\ Final
  BY SameRowsGrow DEF PaymentsInv, Typed, Final
<1> QED
  BY <1>1, SentNoMore DEF PaymentsInv

\* A step of r, not paying after it, leaves the other payments alone.
LEMMA OthersPay ==
    ASSUME PaymentsInv, NEW r \in Threads, OthersServe(r), op'[r] # "pay",
           \A s \in Threads \ {r} : want'[s] = want[s] /\ pay'[s] = pay[s],
           \A s \in Threads \ {r}, u \in Users : lock'[u] = s <=> lock[u] = s
    PROVE  Paying' /\ RowOrder'
BY DEF PaymentsInv, OthersServe, Paying, RowOrder

\* A request of the QR screens ends without a payment.
LEMMA EndKeepsPayments ==
    ASSUME PaymentsInv, QrInv', NEW r \in Threads, Finish(r),
           UNCHANGED <<balance, approvalsVars, qr, today, active>>,
           pay' = [pay EXCEPT ![r] = NoPay]
    PROVE  PaymentsInv'
<1> USE NoneIsNobody
<1>1. UNCHANGED <<tx, txLock, posted, work, scan, batch>>
  BY DEF approvalsVars
<1>2. Typed(AllOps) /\ Exclusive(Holders)
  BY DEF PaymentsInv
<1>3. TransactionsTypeOK'
  BY <1>1, <1>2 DEF Typed, TransactionsTypeOK
<1>4. Typed(AllOps)'
  BY <1>1, <1>2, <1>3, EndTyped
<1>5. /\ Exclusive(Holders)' /\ OthersServe(r)
      /\ \A s \in Threads \ {r} : want'[s] = want[s]
      /\ \A u \in Users : /\ lock'[u] = lock[u] \/ (lock[u] = r /\ lock'[u] = None)
                          /\ lock'[u] # r
  BY <1>1, <1>2, FinishExclusive
<1>6. op'[r] = "idle"
  BY <1>2 DEF Finish, Typed, AccountsTypeOK
<1>7. \A s \in Threads \ {r} : pay'[s] = pay[s]
  BY DEF PaymentsInv, QrInv, QrTyped
<1>8. \A s \in Threads \ {r}, u \in Users : lock'[u] = s <=> lock[u] = s
  <2>1. \A s \in Threads : s # None
    OBVIOUS
  <2> QED
    BY <1>5, <2>1
<1>9. Paying' /\ RowOrder'
  BY <1>5, <1>6, <1>7, <1>8, OthersPay
<1> QED
  BY <1>1, <1>4, <1>5, <1>9, SameRowsKeepPayments DEF PaymentsInv

\* A request begins: its thread held nothing.
LEMMA BeginKeepsPayments ==
    ASSUME PaymentsInv, QrInv', NEW r \in Threads, NEW u \in Users, NEW o \in QrOps,
           Begin(r, u, o),
           UNCHANGED <<balance, lock, approvalsVars, qr, today, active>>,
           \A s \in Threads \ {r} : want'[s] = want[s] /\ pay'[s] = pay[s],
           want' \in [Threads -> Users \cup {None}],
           o = "pay" => /\ pay'[r].to \in Users /\ pay'[r].to # u
                        /\ want'[r] \in {u, pay'[r].to}
                        /\ want'[r] <= u /\ want'[r] <= pay'[r].to
    PROVE  PaymentsInv'
<1> USE NoneIsNobody
<1>1. UNCHANGED <<tx, txLock, posted, work, scan, batch>>
  BY DEF approvalsVars
<1>2. Typed(AllOps) /\ Exclusive(Holders)
  BY DEF PaymentsInv
<1>3. /\ op[r] = "idle" /\ op' = [op EXCEPT ![r] = o] /\ who' = [who EXCEPT ![r] = u]
      /\ view' = [view EXCEPT ![r] = [EmptyView EXCEPT ![u] = balance[u]]]
  BY DEF Begin
<1>4. AccountsTypeOK(AllOps)' /\ TransactionsTypeOK'
  <2>1. [EmptyView EXCEPT ![u] = balance[u]] \in [Users -> Int]
    BY <1>2 DEF EmptyView, NotLoaded, Typed, AccountsTypeOK
  <2> QED
    BY <1>1, <1>2, <1>3, <2>1 DEF Typed, AccountsTypeOK, TransactionsTypeOK, AllOps
<1>5. OthersServe(r) /\ op'[r] = o /\ who'[r] = u
  BY <1>1, <1>2, <1>3 DEF OthersServe, Typed, AccountsTypeOK
<1>6. o \notin {"approve", "settle", "bonus"}
  BY DEF QrOps
<1>7. Grows
  BY <1>1, <1>2, SameRowsGrow DEF Typed
<1>8. Typed(AllOps)'
  BY <1>1, <1>2, <1>4, <1>5, <1>6, <1>7, ThreadStepTyped
<1>9. \A q \in Users : lock[q] # r
  BY <1>2, <1>3 DEF Exclusive, Holders
<1>10. Exclusive(Holders)'
  BY <1>1, <1>2, <1>5, <1>6, <1>9, ServesExclusive
<1>11. Paying' /\ RowOrder'
  <2>1. Paying'
    BY <1>5 DEF PaymentsInv, OthersServe, Paying
  <2>2. ASSUME NEW s \in Threads \ {r}, op'[s] = "pay"
        PROVE  /\ want'[s] \in {None, who'[s], pay'[s].to}
               /\ \A q \in Users : lock'[q] = s <=>
                     q \in {who'[s], pay'[s].to} /\ (want'[s] # None => q < want'[s])
    BY <1>5, <2>2 DEF PaymentsInv, OthersServe, RowOrder
  <2>3. ASSUME o = "pay"
        PROVE  /\ want'[r] \in {None, who'[r], pay'[r].to}
               /\ \A q \in Users : lock'[q] = r <=>
                     q \in {who'[r], pay'[r].to} /\ (want'[r] # None => q < want'[r])
    <3>1. want'[r] \in Users /\ want'[r] # None
      BY <2>3
    <3>2. \A q \in {u, pay'[r].to} : q \in Nat /\ want'[r] \in Nat /\ want'[r] <= q
      BY <2>3, <3>1, AccountsAssumption
    <3>3. \A q \in {u, pay'[r].to} : ~(q < want'[r])
      BY <3>2
    <3> QED
      BY <1>5, <1>9, <2>3, <3>1, <3>3
  <2>4. RowOrder'
    BY <1>5, <2>2, <2>3 DEF RowOrder
  <2> QED
    BY <2>1, <2>4
<1> QED
  BY <1>1, <1>8, <1>10, <1>11, SameRowsKeepPayments DEF PaymentsInv

LEMMA LockKeepsPayments ==
    ASSUME PaymentsInv, QrInv', NEW r \in Threads, LockPayRow(r)
    PROVE  PaymentsInv'
<1> USE NoneIsNobody
<1> DEFINE both == {who[r], pay[r].to}
           w == want[r]
           rest == {u \in both : lock[u] # r} \ {w}
           next == IF rest = {} THEN None ELSE CHOOSE u \in rest : TRUE
<1>1. /\ op[r] = "pay" /\ w # None /\ lock[w] = None
      /\ lock' = [lock EXCEPT ![w] = r]
      /\ view' = [view EXCEPT ![r][w] = balance[w]]
      /\ want' = [want EXCEPT ![r] = next]
      /\ UNCHANGED <<balance, op, who, tx, txLock, posted, work, scan, batch>>
      /\ UNCHANGED <<ask, qr, today, active, pay>>
  BY DEF LockPayRow, LockRow, Free, approvalsVars, qrVars
<1>2. Typed(AllOps) /\ Exclusive(Holders)
  BY DEF PaymentsInv
<1>3. both \subseteq Users /\ w \in both
  BY <1>1, <1>2 DEF PaymentsInv, Paying, RowOrder, Typed, Named
<1>4. next \in rest \cup {None} /\ (next = None <=> rest = {})
  BY <1>3
<1> HIDE DEF next
<1>5. AccountsTypeOK(AllOps)' /\ TransactionsTypeOK'
  BY <1>1, <1>2, <1>3, <1>4 DEF Typed, AccountsTypeOK, TransactionsTypeOK
<1>6. OthersServe(r) /\ Grows
  BY <1>1, <1>2, SameRowsGrow DEF OthersServe, Typed
<1>7. Typed(AllOps)'
  BY <1>1, <1>2, <1>5, <1>6, ThreadStepTyped DEF Typed, Named
<1>8. \A u \in Users : lock'[u] = IF u = w THEN r ELSE lock[u]
  BY <1>1, <1>2 DEF Typed, AccountsTypeOK
<1>9. Exclusive(Holders)'
  BY <1>1, <1>2, <1>6, <1>8, ServesExclusive DEF Holders
<1>10. \A s \in Threads \ {r} : want'[s] = want[s]
  BY <1>1, <1>2 DEF Typed, AccountsTypeOK
<1>11. want'[r] = next
  BY <1>1, <1>2 DEF Typed, AccountsTypeOK
<1>12. \A u \in Users : lock[u] = r <=> u \in both /\ u < w
  BY <1>1 DEF PaymentsInv, RowOrder
<1>13. \A u \in both : u \in rest <=> w < u
  <2>1. \A u \in both : u \in Nat
    BY <1>3, AccountsAssumption
  <2> QED
    BY <1>3, <1>12, <2>1
<1>14. \A u \in Users : lock'[u] = r <=> u \in both /\ (next # None => u < next)
  <2>1. \A u \in both : u \in Nat
    BY <1>3, AccountsAssumption
  <2>2. \A u \in Users : lock'[u] = r <=> u \in both /\ ~(w < u)
    BY <1>3, <1>8, <1>12, <2>1
  <2>3. CASE next = None
    BY <1>4, <1>13, <2>2, <2>3
  <2>4. CASE next # None
    <3>1. next \in both /\ w < next /\ both = {w, next}
      BY <1>3, <1>4, <1>13, <2>1, <2>4
    <3>2. \A u \in both : ~(w < u) <=> u < next
      BY <1>3, <2>1, <3>1
    <3> QED
      BY <2>2, <2>4, <3>2
  <2> QED
    BY <2>3, <2>4
<1>15. Paying'
  BY <1>1 DEF PaymentsInv, Paying
<1>16. RowOrder'
  <2>1. ASSUME NEW s \in Threads \ {r}, op'[s] = "pay"
        PROVE  /\ want'[s] \in {None, who'[s], pay'[s].to}
               /\ \A u \in Users : lock'[u] = s <=>
                     u \in {who'[s], pay'[s].to} /\ (want'[s] # None => u < want'[s])
    <3>1. \A u \in Users : lock'[u] = s <=> lock[u] = s
      BY <1>1, <1>8
    <3> QED
      BY <1>1, <1>10, <2>1, <3>1 DEF PaymentsInv, RowOrder
  <2>2. /\ want'[r] \in {None, who'[r], pay'[r].to}
        /\ \A u \in Users : lock'[u] = r <=>
              u \in {who'[r], pay'[r].to} /\ (want'[r] # None => u < want'[r])
    BY <1>1, <1>4, <1>11, <1>14
  <2> QED
    BY <2>1, <2>2 DEF RowOrder
<1> QED
  BY <1>1, <1>7, <1>9, <1>15, <1>16, SameRowsKeepPayments DEF PaymentsInv

LEMMA SettleKeepsPayments ==
    ASSUME PaymentsInv, QrInv', NEW r \in Threads, NEW t \in Txs, NEW flagged \in BOOLEAN,
           SettlePayment(r, t, flagged)
    PROVE  PaymentsInv'
<1> USE NoneIsNobody
<1> DEFINE p == pay[r]
           x == NewTx("transfer", p.amount, who[r], p.to)
           y == [x EXCEPT !.status = IF flagged THEN "pending" ELSE "approved"]
<1>1. /\ op[r] = "pay" /\ want[r] = None /\ Payable(r) /\ Fresh(t)
      /\ balance' = [u \in Users |-> BalanceAfter(r, flagged, u, x)]
      /\ tx' = [tx EXCEPT ![t] = y]
      /\ posted' = [posted EXCEPT ![t] = IF flagged THEN @ ELSE @ + 1]
      /\ qr' = [qr EXCEPT ![t] = [sender |-> who[r], key |-> p.key, request |-> p.request]]
      /\ today' = today \cup {t}
      /\ pay' = [pay EXCEPT ![r] = NoPay]
      /\ Finish(r)
      /\ UNCHANGED <<txLock, work, scan, batch, active>>
  BY DEF SettlePayment
<1>2. Typed(AllOps) /\ Exclusive(Holders)
  BY DEF PaymentsInv
<1>3. who[r] \in Users /\ p.to \in Users /\ p.to # who[r] /\ p.amount \in Nat
  BY <1>1 DEF PaymentsInv, Typed, Named, Paying, QrInv, QrTyped, PayRow
<1>4. y \in TxRow /\ WellFormed(y) /\ y.status \in {"pending", "approved"}
      /\ y.amount = p.amount /\ y.kind = "transfer"
  BY <1>3 DEF NewTx, TxRow, WellFormed, Kinds, Statuses
<1>5. tx[t].status = "absent" /\ tx'[t] = y /\ \A s \in Txs \ {t} : tx'[s] = tx[s]
  BY <1>1, <1>2 DEF Fresh, Typed, TransactionsTypeOK
<1>6. tx' \in [Txs -> TxRow] /\ TransactionsTypeOK'
  BY <1>1, <1>2, <1>4 DEF Typed, TransactionsTypeOK
<1> HIDE DEF y
<1>7. Grows
  BY <1>5 DEF Grows, PaymentsInv, Typed, TransactionsTypeOK, TxRow
<1>8. /\ Exclusive(Holders)' /\ OthersServe(r)
      /\ \A s \in Threads \ {r} : want'[s] = want[s]
      /\ \A u \in Users : /\ lock'[u] = lock[u] \/ (lock[u] = r /\ lock'[u] = None)
                          /\ lock'[u] # r
  <2>1. \A s \in Txs : tx'[s] = tx[s] \/ tx[s].status # "pending"
    BY <1>5
  <2> QED
    BY <1>1, <1>2, <2>1, FinishExclusive
<1>9. /\ op' = [op EXCEPT ![r] = "idle"] /\ who' = [who EXCEPT ![r] = None]
      /\ view' = [view EXCEPT ![r] = EmptyView] /\ want' = [want EXCEPT ![r] = None]
      /\ lock' = [u \in Users |-> IF lock[u] = r THEN None ELSE lock[u]]
  BY <1>1 DEF Finish, Released
<1>10. balance' \in [Users -> Int]
  <2>1. \A u \in Users : Effect(x, u) \in Int
    BY <1>3 DEF Effect, NewTx
  <2>2. \A u \in Users : BalanceAfter(r, flagged, u, x) \in Int
    BY <1>2, <2>1 DEF BalanceAfter, Typed, AccountsTypeOK
  <2> QED
    BY <1>1, <2>2
<1>11. AccountsTypeOK(AllOps)' /\ op'[r] = "idle"
  <2>1. EmptyView \in [Users -> Int]
    BY DEF EmptyView, NotLoaded
  <2> QED
    BY <1>2, <1>9, <1>10, <2>1 DEF Typed, AccountsTypeOK
<1>12. Typed(AllOps)'
  <2>1. \A s \in Txs : tx[s].status = "absent" => tx'[s] = tx[s] \/ WellFormed(tx'[s])
    BY <1>4, <1>5
  <2> QED
    BY <1>2, <1>6, <1>7, <1>8, <1>11, <2>1, ThreadStepTyped
<1>13. Paying' /\ RowOrder'
  <2>1. \A s \in Threads \ {r} : pay'[s] = pay[s]
    BY <1>1 DEF PaymentsInv, QrInv, QrTyped
  <2>2. \A s \in Threads \ {r}, u \in Users : lock'[u] = s <=> lock[u] = s
    <3>1. \A s \in Threads : s # None
      OBVIOUS
    <3> QED
      BY <1>8, <3>1
  <2> QED
    BY <1>8, <1>11, <2>1, <2>2, OthersPay
<1>14. TodayRecorded'
  <2>1. tx'[t].status # "absent"
    BY <1>4, <1>5
  <2> QED
    BY <1>1, <1>7, <2>1 DEF PaymentsInv, TodayRecorded, Grows
<1>15. t \notin today /\ today \subseteq Txs
  BY <1>5 DEF PaymentsInv, TodayRecorded
<1>16. DailyLimitKept'
  <2> SUFFICES ASSUME NEW u \in Users
               PROVE  SentToday(u)' <= DailyLimit
    BY DEF DailyLimitKept
  <2> DEFINE f == [s \in Txs |-> tx[s].amount]
             g == [s \in Txs |-> tx'[s].amount]
             S == {s \in today : qr[s].sender = u /\ tx[s].status \in {"approved", "pending"}}
             T == {s \in today' : qr'[s].sender = u /\ tx'[s].status \in {"approved", "pending"}}
  <2>1. S \subseteq Txs /\ IsFiniteSet(S) /\ t \notin S
    BY <1>15, TxsFinite, FS_Subset
  <2>2. /\ \A s \in Txs \ {t} : g[s] = f[s] /\ qr'[s] = qr[s]
        /\ g[t] = p.amount /\ qr'[t].sender = who[r]
        /\ tx'[t].status \in {"approved", "pending"}
    BY <1>1, <1>4, <1>5 DEF PaymentsInv, QrInv, QrTyped
  <2>3. \A s \in Txs : f[s] \in Nat /\ g[s] \in Nat
    BY <1>2, <1>6 DEF Typed, TransactionsTypeOK, TxRow
  <2>4. T = IF u = who[r] THEN S \cup {t} ELSE S
    BY <1>1, <1>5, <1>15, <2>2
  <2>5. SentToday(u) = SumFunctionOnSet(f, S) /\ SentToday(u)' = SumFunctionOnSet(g, T)
    BY DEF SentToday
  <2>6. u = who[r] => SentToday(u) + p.amount <= DailyLimit
    BY <1>1 DEF Payable
  <2>7. SentToday(u) <= DailyLimit
    BY DEF PaymentsInv, DailyLimitKept
  <2> HIDE DEF f, g, S, T
  <2>8. SumFunctionOnSet(g, S) = SumFunctionOnSet(f, S)
    <3>1. \A s \in S : f[s] \in Int /\ g[s] = f[s]
      BY <2>1, <2>2, <2>3
    <3> QED
      BY <2>1, <3>1, SumSame
  <2>9. SumFunctionOnSet(g, S \cup {t}) = SumFunctionOnSet(g, S) + g[t]
    <3>1. \A s \in S \cup {t} : g[s] \in Int
      BY <2>1, <2>3
    <3> QED
      BY <2>1, <3>1, SumAdd
  <2>10. CASE u = who[r]
    BY <2>2, <2>4, <2>5, <2>6, <2>8, <2>9, <2>10
  <2>11. CASE u # who[r]
    BY <2>4, <2>5, <2>7, <2>8, <2>11
  <2> QED
    BY <2>10, <2>11
<1> QED
  BY <1>1, <1>8, <1>12, <1>13, <1>14, <1>16 DEF PaymentsInv

\* The clock, and steps that touch a payment request or an account's switch.
LEMMA DeskKeepsPayments ==
    ASSUME PaymentsInv, QrInv', UNCHANGED <<accountsVars, approvalsVars, qr, pay>>,
           today' \subseteq today, active' \in [Users -> BOOLEAN]
    PROVE  PaymentsInv'
<1>1. UNCHANGED <<balance, lock, op, who, view, want, tx, txLock, posted, work, scan, batch>>
  BY DEF accountsVars, approvalsVars
<1>2. Typed(AllOps)'
  <2>1. UNCHANGED allApprovalsVars
    BY DEF allApprovalsVars
  <2> QED
    BY <2>1, DeskStepTyped DEF PaymentsInv
<1>3. Exclusive(Holders)' /\ Paying' /\ RowOrder'
  BY <1>1 DEF PaymentsInv, Exclusive, Paying, RowOrder
<1> QED
  BY <1>1, <1>2, <1>3, SameRowsKeepPayments

LEMMA PaymentsStep ==
    PaymentsInv /\ [QrNext]_<<allApprovalsVars, qrVars>> => PaymentsInv'
<1> SUFFICES ASSUME PaymentsInv, [QrNext]_<<allApprovalsVars, qrVars>>
             PROVE  PaymentsInv'
  OBVIOUS
<1>1. QrInv'
  BY QrStepInv DEF PaymentsInv
<1>2. CASE ApprovalsNext /\ UNCHANGED qrVars
  BY <1>1, <1>2, ApprovalsKeepPayments
<1>3. ASSUME NEW r \in Threads, NEW u \in Users, NEW a \in Amounts \cup {0}, BeginAsk(r, u, a)
      PROVE  PaymentsInv'
  <2>1. /\ Begin(r, u, "ask") /\ pay' = [pay EXCEPT ![r] = [NoPay EXCEPT !.amount = a]]
        /\ UNCHANGED <<balance, lock, want, approvalsVars, qr, today, active>>
    BY <1>3 DEF BeginAsk
  <2>2. /\ want' \in [Threads -> Users \cup {None}]
        /\ \A s \in Threads \ {r} : want'[s] = want[s] /\ pay'[s] = pay[s]
    BY <2>1 DEF PaymentsInv, Typed, AccountsTypeOK, QrInv, QrTyped
  <2> QED
    BY <1>1, <2>1, <2>2, BeginKeepsPayments DEF QrOps
<1>4. ASSUME NEW r \in Threads, NEW u \in Users, NEW to \in Users, NEW q \in Asks \cup {None},
             NEW a \in Amounts, NEW key \in QrKeys, BeginPay(r, u, to, q, a, key)
      PROVE  PaymentsInv'
  <2>1. /\ Begin(r, u, "pay") /\ to # u
        /\ want' = [want EXCEPT ![r] = LowestFirst(r, u, to)]
        /\ pay' = [pay EXCEPT ![r] = [to |-> to, request |-> q, amount |-> a, key |-> key]]
        /\ UNCHANGED <<balance, lock, approvalsVars, qr, today, active>>
    BY <1>4 DEF BeginPay, Begin
  <2>2. /\ LowestFirst(r, u, to) \in {u, to}
        /\ LowestFirst(r, u, to) <= u /\ LowestFirst(r, u, to) <= to
    BY AccountsAssumption DEF LowestFirst
  <2>3. /\ want' \in [Threads -> Users \cup {None}]
        /\ \A s \in Threads \ {r} : want'[s] = want[s] /\ pay'[s] = pay[s]
        /\ want'[r] = LowestFirst(r, u, to) /\ pay'[r].to = to
    BY <2>1, <2>2 DEF PaymentsInv, Typed, AccountsTypeOK, QrInv, QrTyped
  <2> QED
    BY <1>1, <2>1, <2>2, <2>3, BeginKeepsPayments DEF QrOps
<1>5. ASSUME NEW r \in Threads, AbortQr(r) \/ \E q \in Asks : InsertAsk(r, q)
      PROVE  PaymentsInv'
  <2>1. /\ Finish(r) /\ UNCHANGED <<balance, approvalsVars, qr, today, active>>
        /\ pay' = [pay EXCEPT ![r] = NoPay]
    BY <1>5 DEF AbortQr, RollBack, InsertAsk
  <2> QED
    BY <1>1, <2>1, EndKeepsPayments
<1>6. ASSUME NEW r \in Threads, LockPayRow(r)
      PROVE  PaymentsInv'
  BY <1>1, <1>6, LockKeepsPayments
<1>7. ASSUME NEW r \in Threads, NEW t \in Txs, NEW flagged \in BOOLEAN, SettlePayment(r, t, flagged)
      PROVE  PaymentsInv'
  BY <1>1, <1>7, SettleKeepsPayments
<1>8. ASSUME \/ \E q \in Asks : CancelAsk(q) \/ Expire(q)
             \/ \E u \in Users, on \in BOOLEAN : SetActive(u, on)
             \/ Midnight
             \/ UNCHANGED <<allApprovalsVars, qrVars>>
      PROVE  PaymentsInv'
  <2>1. UNCHANGED <<accountsVars, approvalsVars, qr, pay>> /\ today' \subseteq today
    BY <1>8 DEF CancelAsk, Expire, SetActive, Midnight, allApprovalsVars, qrVars
  <2>2. active' = active \/ \E u \in Users, on \in BOOLEAN : active' = [active EXCEPT ![u] = on]
    BY <1>8 DEF CancelAsk, Expire, SetActive, Midnight, qrVars
  <2>3. active' \in [Users -> BOOLEAN]
    BY <2>2 DEF PaymentsInv
  <2> QED
    BY <1>1, <2>1, <2>3, DeskKeepsPayments
<1>9. CASE QrActivity
  BY <1>3, <1>4, <1>5, <1>6, <1>7, <1>8, <1>9 DEF QrActivity
<1> QED
  BY <1>2, <1>8, <1>9 DEF QrNext

LEMMA PaymentsInvariance == QrSpec => []PaymentsInv
BY InitPayments, PaymentsStep, PTL DEF QrSpec

\* Every variable keeps its type.
THEOREM QrTypeCorrect == QrSpec => []QrTypeOK
<1>1. PaymentsInv => QrTypeOK
  BY DEF PaymentsInv, QrTypeOK, Typed, AllOps, QrInv, QrTyped, AskRow, QrRow, PayRow,
         TodayRecorded
<1> QED
  BY <1>1, PaymentsInvariance, PTL

\* However many payments a person sends at once and whatever admins decide of
\* the held ones, what is paid or held of a day stays within the daily limit.
THEOREM LimitKept == QrSpec => []DailyLimitKept
<1>1. PaymentsInv => DailyLimitKept
  BY DEF PaymentsInv
<1> QED
  BY <1>1, PaymentsInvariance, PTL

\* A payment waits for a row above those it holds, so along a ring of payments
\* the waits would rise for ever.
LEMMA WaitsRise ==
    ASSUME PaymentsInv
    PROVE  NoPaymentDeadlock
<1> SUFFICES ASSUME NEW C \in SUBSET {r \in Threads : op[r] = "pay"}, C # {},
                    \A s \in C : Holder(s) \in C
             PROVE  FALSE
  BY DEF NoPaymentDeadlock
<1> USE NoneIsNobody
<1>1. IsFiniteSet(C) /\ C \subseteq Threads
  <2>1. C \subseteq Threads
    OBVIOUS
  <2> QED
    BY <2>1, AccountsAssumption, FS_Subset
<1>2. ASSUME NEW s \in C
      PROVE  want[s] \in Nat /\ want[Holder(s)] \in Nat /\ want[s] < want[Holder(s)]
  <2>1. want[s] # None /\ Holder(s) = lock[want[s]] /\ Holder(s) \in C
    BY <1>1 DEF Holder
  <2>2. want[s] \in Users
    BY <1>1, <2>1 DEF PaymentsInv, Typed, AccountsTypeOK
  <2>3. want[Holder(s)] # None
    BY <1>1, <2>1 DEF Holder
  <2>4. want[Holder(s)] \in Users
    BY <1>1, <2>1, <2>3 DEF PaymentsInv, Typed, AccountsTypeOK
  <2>5. want[s] < want[Holder(s)]
    BY <2>1, <2>2, <2>3 DEF PaymentsInv, RowOrder
  <2> QED
    BY <2>2, <2>4, <2>5, AccountsAssumption
<1> DEFINE Above(n) == {s \in C : n <= want[s]}
           Parts == {Above(n) : n \in Nat} \ {{}}
<1>3. Parts \in SUBSET SUBSET C /\ Parts # {}
  <2>1. PICK s \in C : TRUE
    OBVIOUS
  <2>2. s \in Above(want[s]) /\ want[s] \in Nat
    BY <1>2
  <2>3. Above(want[s]) \in Parts
    BY <2>2
  <2> QED
    BY <2>3
<1> HIDE DEF Parts
<1>4. PICK T \in Parts : \A U \in Parts : U \subseteq T => U = T
  BY <1>1, <1>3, SmallestSubset
<1>5. PICK n \in Nat : T = Above(n) /\ T # {}
  BY <1>4 DEF Parts
<1>6. PICK s \in C : n <= want[s]
  BY <1>5
<1> DEFINE U == Above(want[s] + 1)
<1>7. Holder(s) \in U /\ want[s] + 1 \in Nat
  BY <1>2
<1>8. U \in Parts
  BY <1>7 DEF Parts
<1>9. U \subseteq T
  BY <1>2, <1>5, <1>6
<1>10. s \in T /\ s \notin U
  BY <1>2, <1>5, <1>6
<1> QED
  BY <1>4, <1>8, <1>9, <1>10

\* Payments take the two rows in the order of the ids, so they never deadlock
\* each other: every deadlock has an approval in it.
THEOREM PaymentsNeverRing == QrSpec => []NoPaymentDeadlock
<1>1. PaymentsInv => NoPaymentDeadlock
  BY WaitsRise
<1> QED
  BY <1>1, PaymentsInvariance, PTL
=============================================================================
