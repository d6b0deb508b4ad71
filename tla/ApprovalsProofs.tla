-------------------------- MODULE ApprovalsProofs ---------------------------
(***************************************************************************)
(* What the approval workflow guarantees for every number of people,       *)
(* threads and transactions, and every set of amounts.  The argument is    *)
(* one inductive invariant, ApprovalsInv, kept by each action; the         *)
(* theorems at the end read their properties off it.                       *)
(***************************************************************************)
EXTENDS Approvals, TLAPS

LEMMA NoneIsNobody ==
    None \notin Users /\ None \notin Threads /\ None \notin Txs
BY AccountsAssumption, ApprovalsAssumption

-----------------------------------------------------------------------------
(* The operators. *)

\* A recorded row names somebody for the first lock, and a party for the next.
LEMMA PartyOrder ==
    ASSUME NEW x \in TxRow, WellFormed(x)
    PROVE  /\ Parties(x) \subseteq Users
           /\ FirstParty(x) \in Parties(x)
           /\ \A u \in Parties(x) : NextParty(x, u) \in Parties(x) \cup {None}
           /\ \A u \in Users : Effect(x, u) \in Int
<1>1. x.kind \in Kinds /\ x.amount \in Nat
  BY DEF TxRow
<1>2. \A u \in Users : Effect(x, u) \in Int
  BY <1>1 DEF Effect
<1>3. CASE x.kind = "deposit"
  <2>1. x.sender = None /\ x.receiver \in Users
    BY <1>3 DEF WellFormed
  <2> QED
    BY <1>2, <1>3, <2>1, NoneIsNobody DEF Parties, FirstParty, NextParty
<1>4. CASE x.kind = "withdrawal"
  <2>1. x.sender \in Users /\ x.receiver = None
    BY <1>4 DEF WellFormed
  <2> QED
    BY <1>2, <1>4, <2>1, NoneIsNobody DEF Parties, FirstParty, NextParty
<1>5. CASE x.kind = "transfer"
  <2>1. x.sender \in Users /\ x.receiver \in Users
    BY <1>5 DEF WellFormed
  <2> QED
    BY <1>2, <1>5, <2>1, NoneIsNobody DEF Parties, FirstParty, NextParty
<1> QED
  BY <1>1, <1>3, <1>4, <1>5 DEF Kinds

\* The end of a request releases its rows and nobody else's.
LEMMA ReleasedRows ==
    ASSUME NEW r \in Threads, ApprovalsTypeOK
    PROVE  /\ Released(r) \in [Users -> Threads \cup {None}]
           /\ \A u \in Users : /\ Released(r)[u] # r
                               /\ Released(r)[u] # None => Released(r)[u] = lock[u]
                               /\ lock[u] # r => Released(r)[u] = lock[u]
BY NoneIsNobody DEF Released, ApprovalsTypeOK, AccountsTypeOK

-----------------------------------------------------------------------------
(* The initial states. *)

LEMMA InitInv == ApprovalsInit => ApprovalsInv
<1> SUFFICES ASSUME ApprovalsInit
             PROVE  ApprovalsInv
  OBVIOUS
<1> USE NoneIsNobody
<1>1. balance = Opening /\ Opening \in [Users -> Nat]
  BY AccountsAssumption DEF ApprovalsInit, AccountsInit
<1>2. AccountsTypeOK(ApprovalOps)
  BY <1>1 DEF ApprovalsInit, AccountsInit, AccountsTypeOK, EmptyView, NotLoaded
<1>3. tx \in [Txs -> TxRow] /\ RowsWellFormed
  <2>1. PICK owner \in [Legacy -> Users], amount \in [Legacy -> Amounts] :
           tx = [t \in Txs |-> IF t \in Legacy THEN LegacyTx(owner[t], amount[t])
                                               ELSE NoTx]
    BY DEF ApprovalsInit
  <2>2. ASSUME NEW t \in Txs
        PROVE  tx[t] \in TxRow /\ (tx[t].status # "absent" => WellFormed(tx[t]))
    <3>1. CASE t \in Legacy
      <4>1. owner[t] \in Users /\ amount[t] \in Nat
        BY <2>1, <3>1, ApprovalsAssumption
      <4>2. tx[t] = [kind |-> "deposit", amount |-> amount[t], sender |-> None,
                     receiver |-> owner[t], status |-> "approved"]
        BY <2>1, <3>1 DEF LegacyTx, NewTx
      <4> QED
        BY <4>1, <4>2 DEF TxRow, Kinds, Statuses, WellFormed
    <3>2. CASE t \notin Legacy
      BY <2>1, <3>2 DEF NoTx, TxRow, Kinds, Statuses
    <3> QED
      BY <3>1, <3>2
  <2> QED
    BY <2>1, <2>2 DEF RowsWellFormed
<1>4. TransactionsTypeOK
  BY <1>3 DEF ApprovalsInit, TransactionsTypeOK
<1>5. NoOverdraft
  BY <1>1 DEF NoOverdraft
<1>6. ViewsSound /\ Requests /\ Settling /\ LockOwners /\ ViewOwners /\ LockedViewFresh
  BY DEF ApprovalsInit, AccountsInit, EmptyView, NotLoaded, ViewsSound, Requests,
         Settling, LockOwners, ViewOwners, LockedViewFresh
<1> QED
  BY <1>2, <1>3, <1>4, <1>5, <1>6 DEF ApprovalsInv, ApprovalsTypeOK

-----------------------------------------------------------------------------
(* The shapes of a step: a request begins, a request ends. *)

\* However a request ends, with or without a new row, the invariant is kept.
LEMMA EndKeepsInv ==
    ASSUME ApprovalsInv,
           NEW r \in Threads,
           Finish(r), UNCHANGED balance,
           TransactionsTypeOK', RowsWellFormed',
           \A t \in Txs : tx[t].status # "absent" => tx'[t] = tx[t],
           \A t \in Txs : txLock[t] \notin {r, None} => txLock'[t] = txLock[t],
           \A s \in Threads : s # r => work'[s] = work[s]
    PROVE  ApprovalsInv'
<1> USE NoneIsNobody
<1>1. ApprovalsTypeOK /\ AccountsTypeOK(ApprovalOps) /\ TransactionsTypeOK
  BY DEF ApprovalsInv, ApprovalsTypeOK
<1>2. /\ op' = [op EXCEPT ![r] = "idle"]
      /\ who' = [who EXCEPT ![r] = None]
      /\ view' = [view EXCEPT ![r] = EmptyView]
      /\ want' = [want EXCEPT ![r] = None]
      /\ lock' = Released(r)
  BY DEF Finish
<1>3. /\ lock' \in [Users -> Threads \cup {None}]
      /\ \A u \in Users : /\ lock'[u] # r
                          /\ lock'[u] # None => lock'[u] = lock[u]
                          /\ lock[u] # r => lock'[u] = lock[u]
  BY <1>1, <1>2, ReleasedRows
<1>4. EmptyView \in [Users -> Int] /\ \A u \in Users : EmptyView[u] = NotLoaded
  BY DEF EmptyView, NotLoaded
<1>5. AccountsTypeOK(ApprovalOps)'
  BY <1>1, <1>2, <1>3, <1>4 DEF AccountsTypeOK
<1>6. \A s \in Threads : s # r => /\ op'[s] = op[s]
                                 /\ who'[s] = who[s]
                                 /\ view'[s] = view[s]
                                 /\ want'[s] = want[s]
                                 /\ work'[s] = work[s]
  BY <1>1, <1>2 DEF AccountsTypeOK
<1>7. op'[r] = "idle" /\ view'[r] = EmptyView
  BY <1>1, <1>2 DEF AccountsTypeOK
<1>8. NoOverdraft'
  BY DEF ApprovalsInv, NoOverdraft
<1>9. ViewsSound'
  BY <1>4, <1>6, <1>7 DEF ApprovalsInv, ViewsSound, NotLoaded
<1>10. Requests'
  BY <1>6, <1>7 DEF ApprovalsInv, Requests
<1>11. Settling'
  <2>1. ASSUME NEW s \in Threads, op'[s] = "settle", s # r
        PROVE  /\ work'[s] = work[s]
               /\ tx'[work[s]] = tx[work[s]]
               /\ txLock'[work[s]] = txLock[work[s]]
    BY <1>6, <2>1 DEF ApprovalsInv, Requests, Settling
  <2>2. ASSUME NEW s \in Threads, op'[s] = "settle", s # r, NEW u \in Users, Taken(s, u)
        PROVE  Taken(s, u)'
    BY <1>3, <1>6, <2>2 DEF Taken
  <2>3. \A s \in Threads : op'[s] = "settle" => Parties(tx[work[s]]) \subseteq Users
    BY <1>1, <1>6, <1>7, PartyOrder DEF ApprovalsInv, Requests, RowsWellFormed, TransactionsTypeOK
  <2> QED
    BY <1>6, <1>7, <2>1, <2>2, <2>3 DEF ApprovalsInv, Settling
<1>12. LockOwners'
  <2> SUFFICES ASSUME NEW u \in Users, lock'[u] # None, NEW s, s = lock'[u]
               PROVE  /\ op'[s] = "settle"
                      /\ want'[s] # None =>
                            /\ tx'[work'[s]].kind = "transfer"
                            /\ u = tx'[work'[s]].sender
                            /\ want'[s] = tx'[work'[s]].receiver
    BY DEF LockOwners
  <2>1. s = lock[u] /\ s # r /\ s \in Threads
    BY <1>3
  <2>2. /\ op[s] = "settle"
        /\ want[s] # None => /\ tx[work[s]].kind = "transfer"
                             /\ u = tx[work[s]].sender
                             /\ want[s] = tx[work[s]].receiver
    BY <2>1 DEF ApprovalsInv, LockOwners
  <2>3. tx'[work[s]] = tx[work[s]]
    BY <2>1, <2>2 DEF ApprovalsInv, Requests
  <2> QED
    BY <1>6, <2>1, <2>2, <2>3
<1>13. ViewOwners'
  BY <1>3, <1>4, <1>6, <1>7 DEF ApprovalsInv, ViewOwners
<1>14. LockedViewFresh'
  BY <1>3, <1>6 DEF ApprovalsInv, LockedViewFresh
<1> QED
  BY <1>5, <1>8, <1>9, <1>10, <1>11, <1>12, <1>13, <1>14 DEF ApprovalsInv, ApprovalsTypeOK

\* A request that begins loads its own row and holds nothing.
LEMMA BeginKeepsInv ==
    ASSUME ApprovalsInv,
           NEW r \in Threads, NEW u \in Users,
           NEW o \in {"submit", "approve", "backfill"},
           Begin(r, u, o), UNCHANGED <<balance, lock, want, tx, txLock>>,
           TransactionsTypeOK',
           \A s \in Threads : s # r => work'[s] = work[s],
           o = "approve" => /\ u \in Admins
                            /\ work'[r] \in Txs
                            /\ tx[work'[r]].status # "absent"
    PROVE  ApprovalsInv'
<1> USE NoneIsNobody
<1>1. ApprovalsTypeOK /\ AccountsTypeOK(ApprovalOps) /\ TransactionsTypeOK
  BY DEF ApprovalsInv, ApprovalsTypeOK
<1>2. /\ op[r] = "idle"
      /\ op' = [op EXCEPT ![r] = o]
      /\ who' = [who EXCEPT ![r] = u]
      /\ view' = [view EXCEPT ![r] = [EmptyView EXCEPT ![u] = balance[u]]]
  BY DEF Begin
<1>3. /\ view'[r] \in [Users -> Int]
      /\ view'[r][u] = balance[u]
      /\ \A v \in Users : v # u => view'[r][v] = NotLoaded
  BY <1>1, <1>2 DEF AccountsTypeOK, EmptyView, NotLoaded
<1>4. AccountsTypeOK(ApprovalOps)'
  BY <1>1, <1>2, <1>3 DEF AccountsTypeOK, ApprovalOps
<1>5. \A s \in Threads : s # r => /\ op'[s] = op[s]
                                 /\ who'[s] = who[s]
                                 /\ view'[s] = view[s]
                                 /\ work'[s] = work[s]
  BY <1>1, <1>2 DEF AccountsTypeOK
<1>6. op'[r] = o /\ who'[r] = u
  BY <1>1, <1>2 DEF AccountsTypeOK
<1>7. NoOverdraft' /\ RowsWellFormed'
  BY DEF ApprovalsInv, NoOverdraft, RowsWellFormed, WellFormed
<1>8. ViewsSound'
  BY <1>1, <1>3, <1>5 DEF ApprovalsInv, ViewsSound, NoOverdraft, NotLoaded, AccountsTypeOK
<1>9. Requests'
  BY <1>5, <1>6 DEF ApprovalsInv, Requests
<1>10. Settling'
  BY <1>5, <1>6 DEF ApprovalsInv, Settling, Taken, Parties
<1>11. \A v \in Users : lock[v] # r
  BY <1>2 DEF ApprovalsInv, LockOwners
<1>12. LockOwners'
  BY <1>1, <1>5, <1>11 DEF ApprovalsInv, LockOwners, AccountsTypeOK
<1>13. ViewOwners'
  BY <1>3, <1>5, <1>6 DEF ApprovalsInv, ViewOwners
<1>14. LockedViewFresh'
  BY <1>1, <1>5, <1>11 DEF ApprovalsInv, LockedViewFresh, AccountsTypeOK
<1> QED
  BY <1>4, <1>7, <1>8, <1>9, <1>10, <1>12, <1>13, <1>14 DEF ApprovalsInv, ApprovalsTypeOK

-----------------------------------------------------------------------------
(* The actions, one by one. *)

LEMMA BeginSubmitKeepsInv ==
    ASSUME ApprovalsInv, NEW r \in Threads, NEW u \in Users, BeginSubmit(r, u)
    PROVE  ApprovalsInv'
<1>1. TransactionsTypeOK'
  BY DEF ApprovalsInv, ApprovalsTypeOK, TransactionsTypeOK, BeginSubmit, approvalsVars
<1> QED
  BY <1>1, BeginKeepsInv DEF BeginSubmit, approvalsVars

LEMMA BeginApproveKeepsInv ==
    ASSUME ApprovalsInv, NEW r \in Threads, NEW u \in Users, NEW t \in Txs,
           BeginApprove(r, u, t)
    PROVE  ApprovalsInv'
<1>1. TransactionsTypeOK' /\ work'[r] = t /\ \A s \in Threads : s # r => work'[s] = work[s]
  BY DEF ApprovalsInv, ApprovalsTypeOK, TransactionsTypeOK, BeginApprove
<1> QED
  BY <1>1, BeginKeepsInv DEF BeginApprove

LEMMA BeginBackfillKeepsInv ==
    ASSUME ApprovalsInv, NEW r \in Threads, NEW u \in Users, BeginBackfill(r, u)
    PROVE  ApprovalsInv'
<1>1. TransactionsTypeOK'
  BY DEF ApprovalsInv, ApprovalsTypeOK, TransactionsTypeOK, BeginBackfill, ApprovedDeposits
<1> QED
  BY <1>1, BeginKeepsInv DEF BeginBackfill

\* An insert adds a well-formed pending row and touches no other.
LEMMA InsertKeepsInv ==
    ASSUME ApprovalsInv, NEW r \in Threads, NEW x \in TxRow,
           WellFormed(x), Insert(r, x)
    PROVE  ApprovalsInv'
<1>1. TransactionsTypeOK /\ RowsWellFormed
  BY DEF ApprovalsInv, ApprovalsTypeOK
<1>2. PICK t \in Txs : Fresh(t) /\ tx' = [tx EXCEPT ![t] = x]
  BY DEF Insert
<1>3. tx[t].status = "absent"
  BY <1>2 DEF Fresh
<1>4. /\ TransactionsTypeOK'
      /\ tx'[t] = x
      /\ \A s \in Txs : s # t => tx'[s] = tx[s]
  BY <1>1, <1>2 DEF TransactionsTypeOK, Insert
<1>5. RowsWellFormed'
  <2> SUFFICES ASSUME NEW s \in Txs, tx'[s].status # "absent"
               PROVE  WellFormed(tx'[s])
    BY DEF RowsWellFormed, WellFormed
  <2>1. CASE s = t
    BY <1>4, <2>1
  <2>2. CASE s # t
    BY <1>1, <1>4, <2>2 DEF RowsWellFormed
  <2> QED
    BY <2>1, <2>2
<1> QED
  BY <1>3, <1>4, <1>5, EndKeepsInv DEF Insert

LEMMA SubmitKeepsInv ==
    ASSUME ApprovalsInv, NEW r \in Threads,
           SubmitDeposit(r) \/ SubmitWithdrawal(r) \/ SubmitTransfer(r)
    PROVE  ApprovalsInv'
<1> USE NoneIsNobody
<1>1. who[r] \in Users
  <2>1. op[r] = "submit"
    BY DEF SubmitDeposit, SubmitWithdrawal, SubmitTransfer
  <2> QED
    BY <2>1 DEF ApprovalsInv, Requests
<1>2. Amounts \subseteq Nat
  BY ApprovalsAssumption
<1>3. CASE SubmitDeposit(r)
  <2>1. PICK a \in Amounts : Insert(r, NewTx("deposit", a, None, who[r]))
    BY <1>3 DEF SubmitDeposit
  <2>2. /\ NewTx("deposit", a, None, who[r]) \in TxRow
        /\ WellFormed(NewTx("deposit", a, None, who[r]))
    BY <1>1, <1>2 DEF NewTx, TxRow, Kinds, Statuses, WellFormed
  <2> QED
    BY <2>1, <2>2, InsertKeepsInv
<1>4. CASE SubmitWithdrawal(r)
  <2>1. PICK a \in Amounts : Insert(r, NewTx("withdrawal", a, who[r], None))
    BY <1>4 DEF SubmitWithdrawal
  <2>2. /\ NewTx("withdrawal", a, who[r], None) \in TxRow
        /\ WellFormed(NewTx("withdrawal", a, who[r], None))
    BY <1>1, <1>2 DEF NewTx, TxRow, Kinds, Statuses, WellFormed
  <2> QED
    BY <2>1, <2>2, InsertKeepsInv
<1>5. CASE SubmitTransfer(r)
  <2>1. PICK a \in Amounts, v \in Users \ {who[r]} :
             Insert(r, NewTx("transfer", a, who[r], v))
    BY <1>5 DEF SubmitTransfer
  <2>2. /\ NewTx("transfer", a, who[r], v) \in TxRow
        /\ WellFormed(NewTx("transfer", a, who[r], v))
    BY <1>1, <1>2 DEF NewTx, TxRow, Kinds, Statuses, WellFormed
  <2> QED
    BY <2>1, <2>2, InsertKeepsInv
<1> QED
  BY <1>3, <1>4, <1>5

\* Refusals, the end of the bonus step, the backfill's commit, rollbacks.
LEMMA EndingsKeepInv ==
    ASSUME ApprovalsInv, NEW r \in Threads,
           \/ RefuseDecided(r) \/ RefuseUncovered(r) \/ SkipBonus(r)
           \/ CommitBackfill(r) \/ Abort(r)
    PROVE  ApprovalsInv'
<1> USE NoneIsNobody
<1>1. TransactionsTypeOK
  BY DEF ApprovalsInv, ApprovalsTypeOK
<1>2. /\ Finish(r)
      /\ UNCHANGED <<balance, tx>>
  BY DEF RefuseDecided, RefuseUncovered, SkipBonus, CommitBackfill, Abort, RollBack, Forget
<1>3. /\ work' \in [Threads -> Txs \cup {None}]
      /\ \A s \in Threads : s # r => work'[s] = work[s]
  BY <1>1 DEF RefuseDecided, RefuseUncovered, SkipBonus, CommitBackfill, Abort,
              RollBack, Forget, TransactionsTypeOK
<1>4. posted' \in [Txs -> Nat]
  BY <1>1 DEF RefuseDecided, RefuseUncovered, SkipBonus, CommitBackfill, Abort,
              RollBack, Forget, TransactionsTypeOK
<1>5. scan' \in [Threads -> SUBSET Txs] /\ batch' \in [Threads -> SUBSET Txs]
  BY <1>1 DEF RefuseDecided, RefuseUncovered, SkipBonus, CommitBackfill, Abort,
              RollBack, Forget, TransactionsTypeOK
<1>6. /\ txLock' \in [Txs -> Threads \cup {None}]
      /\ \A t \in Txs : txLock[t] \notin {r, None} => txLock'[t] = txLock[t]
  <2>1. CASE RefuseUncovered(r)
    <3>1. txLock[work[r]] = r
      BY <2>1 DEF RefuseUncovered, ApprovalsInv, Settling
    <3> QED
      BY <1>1, <2>1, <3>1 DEF RefuseUncovered, TransactionsTypeOK
  <2>2. CASE Abort(r)
    BY <1>1, <2>2 DEF Abort, Forget, TransactionsTypeOK
  <2>3. CASE RefuseDecided(r) \/ SkipBonus(r) \/ CommitBackfill(r)
    BY <1>1, <2>3 DEF RefuseDecided, SkipBonus, CommitBackfill, TransactionsTypeOK
  <2> QED
    BY <2>1, <2>2, <2>3
<1>7. TransactionsTypeOK'
  BY <1>1, <1>2, <1>3, <1>4, <1>5, <1>6 DEF TransactionsTypeOK
<1>8. RowsWellFormed'
  BY <1>2 DEF ApprovalsInv, RowsWellFormed, WellFormed
<1> QED
  BY <1>2, <1>3, <1>6, <1>7, <1>8, EndKeepsInv

\* The transactions row is locked: the thread settles and wants its first party.
LEMMA LockPendingKeepsInv ==
    ASSUME ApprovalsInv, NEW r \in Threads, LockPending(r)
    PROVE  ApprovalsInv'
<1> USE NoneIsNobody
<1> DEFINE t == work[r]
           x == tx[t]
<1>1. ApprovalsTypeOK /\ AccountsTypeOK(ApprovalOps) /\ TransactionsTypeOK
  BY DEF ApprovalsInv, ApprovalsTypeOK
<1>2. /\ op[r] = "approve"
      /\ txLock[t] = None
      /\ x.status = "pending"
      /\ txLock' = [txLock EXCEPT ![t] = r]
      /\ op' = [op EXCEPT ![r] = "settle"]
      /\ want' = [want EXCEPT ![r] = FirstParty(x)]
      /\ UNCHANGED <<balance, lock, who, view, tx, posted, work, scan, batch>>
  BY DEF LockPending, Pending
<1>3. t \in Txs /\ x \in TxRow /\ WellFormed(x)
  BY <1>1, <1>2 DEF ApprovalsInv, Requests, RowsWellFormed, TransactionsTypeOK
<1>4. Parties(x) \subseteq Users /\ FirstParty(x) \in Parties(x)
  BY <1>3, PartyOrder
<1>5. ApprovalsTypeOK'
  BY <1>1, <1>2, <1>3, <1>4
  DEF ApprovalsTypeOK, AccountsTypeOK, TransactionsTypeOK, ApprovalOps
<1>6. /\ \A s \in Threads : s # r => op'[s] = op[s] /\ want'[s] = want[s]
      /\ op'[r] = "settle" /\ want'[r] = FirstParty(x) /\ txLock'[t] = r
  BY <1>1, <1>2, <1>3 DEF AccountsTypeOK, TransactionsTypeOK
<1>7. NoOverdraft' /\ RowsWellFormed' /\ ViewsSound' /\ ViewOwners'
  BY <1>2 DEF ApprovalsInv, NoOverdraft, RowsWellFormed, WellFormed, ViewsSound, ViewOwners
<1>8. Requests'
  BY <1>2, <1>6 DEF ApprovalsInv, Requests
<1>9. Settling'
  <2>1. ASSUME NEW u \in Parties(x), FirstParty(x) \notin {u, x.sender} \ {None}
        PROVE  FALSE
    BY <1>3, <1>4, <2>1 DEF FirstParty, Parties, WellFormed, TxRow, Kinds
  <2>2. ASSUME NEW s \in Threads, s # r, op[s] = "settle"
        PROVE  work[s] # t /\ txLock'[work[s]] = txLock[work[s]]
    BY <1>1, <1>2, <2>2 DEF ApprovalsInv, Settling, Requests, TransactionsTypeOK
  <2> SUFFICES ASSUME NEW s \in Threads, op'[s] = "settle"
               PROVE  /\ txLock'[work[s]] = s
                      /\ tx[work[s]].status = "pending"
                      /\ want'[s] \in Parties(tx[work[s]]) \cup {None}
                      /\ \A u \in Parties(tx[work[s]]) :
                            want'[s] \notin {u, tx[work[s]].sender} \ {None} => Taken(s, u)
    BY <1>2 DEF Settling, Taken, Parties
  <2>3. CASE s = r
    BY <1>2, <1>4, <1>6, <2>1, <2>3
  <2>4. CASE s # r
    BY <1>6, <2>2, <2>4 DEF ApprovalsInv, Settling
  <2> QED
    BY <2>3, <2>4
<1>10. \A u \in Users : lock[u] # r
  BY <1>2 DEF ApprovalsInv, LockOwners
<1>11. LockOwners'
  BY <1>1, <1>2, <1>6, <1>10 DEF ApprovalsInv, LockOwners, AccountsTypeOK
<1>12. LockedViewFresh'
  BY <1>2 DEF ApprovalsInv, LockedViewFresh
<1> QED
  BY <1>5, <1>7, <1>8, <1>9, <1>11, <1>12 DEF ApprovalsInv

\* A free row of a party is taken: it is loaded fresh, or it is the admin's own.
LEMMA LockPartyKeepsInv ==
    ASSUME ApprovalsInv, NEW r \in Threads, LockParty(r)
    PROVE  ApprovalsInv'
<1> USE NoneIsNobody
<1> DEFINE t == work[r]
           x == tx[t]
           u == want[r]
<1>1. ApprovalsTypeOK /\ AccountsTypeOK(ApprovalOps) /\ TransactionsTypeOK
  BY DEF ApprovalsInv, ApprovalsTypeOK
<1>2. /\ op[r] = "settle"
      /\ u # None
      /\ lock[u] = None
      /\ lock' = [lock EXCEPT ![u] = r]
      /\ view' = IF view[r][u] = NotLoaded
                 THEN [view EXCEPT ![r][u] = balance[u]] ELSE view
      /\ want' = [want EXCEPT ![r] = NextParty(x, u)]
      /\ UNCHANGED <<balance, op, who, tx, txLock, posted, work, scan, batch>>
  BY DEF LockParty, LockRow, Free, approvalsVars
<1>3. t \in Txs /\ x \in TxRow /\ WellFormed(x)
  BY <1>1, <1>2 DEF ApprovalsInv, Requests, RowsWellFormed, TransactionsTypeOK
<1>4. Parties(x) \subseteq Users /\ u \in Parties(x) /\ NextParty(x, u) \in Parties(x) \cup {None}
  BY <1>2, <1>3, PartyOrder DEF ApprovalsInv, Settling
<1>5. u \in Users /\ balance[u] \in Int /\ balance[u] >= 0
  BY <1>1, <1>4 DEF ApprovalsInv, NoOverdraft, AccountsTypeOK
<1>6. /\ view' \in [Threads -> [Users -> Int]]
      /\ \A s \in Threads, v \in Users : <<s, v>> # <<r, u>> => view'[s][v] = view[s][v]
      /\ view'[r][u] = IF view[r][u] = NotLoaded THEN balance[u] ELSE view[r][u]
  BY <1>1, <1>2, <1>5 DEF AccountsTypeOK
<1>7. /\ \A s \in Threads : s # r => want'[s] = want[s]
      /\ want'[r] = NextParty(x, u)
      /\ \A v \in Users : v # u => lock'[v] = lock[v]
      /\ lock'[u] = r
  BY <1>1, <1>2, <1>5 DEF AccountsTypeOK
<1>8. ApprovalsTypeOK'
  BY <1>1, <1>2, <1>4, <1>6 DEF ApprovalsTypeOK, AccountsTypeOK, TransactionsTypeOK
<1>9. NoOverdraft' /\ RowsWellFormed' /\ Requests'
  BY <1>2 DEF ApprovalsInv, NoOverdraft, RowsWellFormed, WellFormed, Requests
<1>10. ViewsSound'
  BY <1>5, <1>6 DEF ApprovalsInv, ViewsSound, NotLoaded
<1>11. \A s \in Threads, v \in Users : Taken(s, v) \/ (s = r /\ v = u) => Taken(s, v)'
  BY <1>2, <1>5, <1>6, <1>7 DEF Taken, NotLoaded
<1>12. Settling'
  <2> SUFFICES ASSUME NEW s \in Threads, op[s] = "settle"
               PROVE  /\ txLock[work[s]] = s
                      /\ tx[work[s]].status = "pending"
                      /\ want'[s] \in Parties(tx[work[s]]) \cup {None}
                      /\ \A v \in Parties(tx[work[s]]) :
                            want'[s] \notin {v, tx[work[s]].sender} \ {None} => Taken(s, v)'
    BY <1>2 DEF Settling, Parties
  <2>1. Parties(tx[work[s]]) \subseteq Users
    BY <1>1, PartyOrder DEF ApprovalsInv, Requests, RowsWellFormed, TransactionsTypeOK
  <2>2. CASE s # r
    BY <1>7, <1>11, <2>1, <2>2 DEF ApprovalsInv, Settling
  <2>3. CASE s = r
    <3>1. ASSUME NEW v \in Parties(x), NextParty(x, u) \notin {v, x.sender} \ {None}
          PROVE  v = u \/ Taken(r, v)
      <4>1. CASE x.kind = "transfer" /\ u = x.sender
        BY <1>3, <3>1, <4>1 DEF NextParty, Parties, WellFormed
      <4>2. CASE x.kind = "transfer" /\ u # x.sender
        <5>1. u = x.receiver
          BY <1>4, <4>2 DEF Parties
        <5> QED
          BY <1>2, <3>1, <4>2, <5>1 DEF ApprovalsInv, Settling, Parties
      <4>3. CASE x.kind # "transfer"
        BY <1>3, <1>4, <3>1, <4>3 DEF Parties, WellFormed, TxRow, Kinds
      <4> QED
        BY <4>1, <4>2, <4>3
    <3> QED
      BY <1>2, <1>4, <1>7, <1>11, <2>3, <3>1 DEF ApprovalsInv, Settling
  <2> QED
    BY <2>2, <2>3
<1>13. LockOwners'
  <2>1. ASSUME NextParty(x, u) # None
        PROVE  x.kind = "transfer" /\ u = x.sender /\ NextParty(x, u) = x.receiver
    BY <2>1 DEF NextParty
  <2>2. ASSUME NEW v \in Users, lock[v] = r
        PROVE  v # u /\ NextParty(x, u) = None
    <3>1. x.kind = "transfer" /\ v = x.sender /\ u = x.receiver
      BY <1>2, <2>2 DEF ApprovalsInv, LockOwners
    <3> QED
      BY <1>3, <3>1 DEF NextParty, WellFormed
  <2> SUFFICES ASSUME NEW v \in Users, lock'[v] # None, NEW s, s = lock'[v]
               PROVE  /\ op[s] = "settle"
                      /\ want'[s] # None =>
                            /\ tx[work[s]].kind = "transfer"
                            /\ v = tx[work[s]].sender
                            /\ want'[s] = tx[work[s]].receiver
    BY <1>2 DEF LockOwners
  <2>3. CASE v = u
    BY <1>2, <1>7, <2>1, <2>3
  <2>4. CASE v # u /\ lock[v] = r
    BY <1>2, <1>7, <2>2, <2>4
  <2>5. CASE v # u /\ lock[v] # r
    <3>1. s = lock[v] /\ s \in Threads /\ s # r
      BY <1>1, <1>7, <2>5 DEF AccountsTypeOK
    <3> QED
      BY <1>7, <3>1, <2>5 DEF ApprovalsInv, LockOwners
  <2> QED
    BY <2>3, <2>4, <2>5
<1>14. ViewOwners'
  BY <1>2, <1>6, <1>7 DEF ApprovalsInv, ViewOwners
<1>15. LockedViewFresh'
  <2> SUFFICES ASSUME NEW v \in Users, lock'[v] # None, who[lock'[v]] # v
               PROVE  view'[lock'[v]][v] = balance[v]
    BY <1>2 DEF LockedViewFresh
  <2>1. CASE v = u
    <3>1. view[r][u] = NotLoaded
      BY <1>2, <1>5, <1>7, <2>1 DEF ApprovalsInv, ViewOwners
    <3> QED
      BY <1>6, <1>7, <2>1, <3>1
  <2>2. CASE v # u
    <3>1. lock'[v] = lock[v] /\ lock[v] \in Threads
      BY <1>1, <1>7, <2>2 DEF AccountsTypeOK
    <3> QED
      BY <1>6, <2>2, <3>1 DEF ApprovalsInv, LockedViewFresh
  <2> QED
    BY <2>1, <2>2
<1> QED
  BY <1>8, <1>9, <1>10, <1>12, <1>13, <1>14, <1>15 DEF ApprovalsInv

\* The balances an approval writes: it holds every party's row, its session has
\* loaded them, and what it saw of the sender covers the amount.
LEMMA ApprovedBalances ==
    ASSUME ApprovalsInv, NEW r \in Threads, CommitApproval(r)
    PROVE  /\ tx[work[r]] \in TxRow /\ WellFormed(tx[work[r]])
           /\ \A u \in Parties(tx[work[r]]) :
                 /\ lock[u] = r
                 /\ view[r][u] + Effect(tx[work[r]], u) \in Nat
<1> USE NoneIsNobody
<1> DEFINE x == tx[work[r]]
<1>1. op[r] = "settle" /\ want[r] = None /\ Covered(r, x)
  BY DEF CommitApproval
<1>2. x \in TxRow /\ WellFormed(x)
  BY <1>1 DEF ApprovalsInv, ApprovalsTypeOK, TransactionsTypeOK, Requests, RowsWellFormed
<1>3. x.kind \in Kinds /\ x.amount \in Nat
  BY <1>2 DEF TxRow
<1>4. Parties(x) \subseteq Users
  BY <1>2, PartyOrder
<1>5. ASSUME NEW u \in Parties(x)
      PROVE  lock[u] = r /\ view[r][u] \in Nat
  <2>1. Taken(r, u)
    BY <1>1 DEF ApprovalsInv, Settling
  <2>2. view[r][u] \in Int /\ view[r][u] >= -1
    BY <1>4 DEF ApprovalsInv, ApprovalsTypeOK, AccountsTypeOK, ViewsSound, NotLoaded
  <2> QED
    BY <2>1, <2>2 DEF Taken, NotLoaded
<1>6. ASSUME NEW u \in Parties(x)
      PROVE  view[r][u] + Effect(x, u) \in Nat
  <2>1. CASE u = x.receiver
    BY <1>3, <1>5, <2>1 DEF Effect
  <2>2. CASE u # x.receiver
    <3>1. u = x.sender /\ u # None
      BY <2>2 DEF Parties
    <3>2. x.kind # "deposit"
      BY <1>2, <3>1 DEF WellFormed
    <3>3. x.amount <= view[r][u]
      BY <1>1, <3>1, <3>2 DEF Covered
    <3> QED
      BY <1>3, <1>5, <2>2, <3>1, <3>3 DEF Effect
  <2> QED
    BY <2>1, <2>2
<1> QED
  BY <1>2, <1>5, <1>6

\* A status changes from pending, and the row stays well formed.
LEMMA DecidedRow ==
    ASSUME ApprovalsInv, NEW t \in Txs, NEW s \in {"approved", "rejected"},
           tx[t].status # "absent",
           tx' = [tx EXCEPT ![t].status = s]
    PROVE  /\ tx' \in [Txs -> TxRow]
           /\ RowsWellFormed'
           /\ tx'[t].status # "absent"
           /\ \A q \in Txs : q # t => tx'[q] = tx[q]
<1>1. tx \in [Txs -> TxRow] /\ WellFormed(tx[t])
  BY DEF ApprovalsInv, ApprovalsTypeOK, TransactionsTypeOK, RowsWellFormed
<1>2. /\ tx'[t] = [tx[t] EXCEPT !.status = s]
      /\ \A q \in Txs : q # t => tx'[q] = tx[q]
      /\ DOMAIN tx' = Txs
  BY <1>1
<1>3. /\ tx'[t] \in TxRow
      /\ tx'[t].status = s
      /\ tx'[t].kind = tx[t].kind
      /\ tx'[t].sender = tx[t].sender
      /\ tx'[t].receiver = tx[t].receiver
  BY <1>1, <1>2 DEF TxRow, Statuses
<1>4. tx' \in [Txs -> TxRow]
  BY <1>1, <1>3
<1>5. RowsWellFormed'
  <2> SUFFICES ASSUME NEW q \in Txs, tx'[q].status # "absent"
               PROVE  WellFormed(tx'[q])
    BY DEF RowsWellFormed, WellFormed
  <2>1. CASE q = t
    BY <1>1, <1>3, <2>1 DEF WellFormed, TxRow, Kinds
  <2>2. CASE q # t
    BY <1>2, <2>2 DEF ApprovalsInv, RowsWellFormed
  <2> QED
    BY <2>1, <2>2
<1> QED
  BY <1>2, <1>3, <1>4, <1>5

\* The commit moves the money of rows nobody else holds, and lets go of them.
LEMMA CommitApprovalKeepsInv ==
    ASSUME ApprovalsInv, NEW r \in Threads, CommitApproval(r)
    PROVE  ApprovalsInv'
<1> USE NoneIsNobody
<1> DEFINE t == work[r]
           x == tx[t]
<1>1. ApprovalsTypeOK /\ AccountsTypeOK(ApprovalOps) /\ TransactionsTypeOK
  BY DEF ApprovalsInv, ApprovalsTypeOK
<1>2. /\ op[r] = "settle"
      /\ want[r] = None
      /\ balance' = [u \in Users |->
            IF u \in Parties(x) THEN view[r][u] + Effect(x, u) ELSE balance[u]]
      /\ tx' = [tx EXCEPT ![t].status = "approved"]
      /\ posted' = [posted EXCEPT ![t] =
            IF x.kind \in LedgerKinds /\ ~AlreadyRecorded(t) THEN @ + 1 ELSE @]
      /\ txLock' = [txLock EXCEPT ![t] = None]
      /\ lock' = Released(r)
      /\ view' = [view EXCEPT ![r] = EmptyView]
      /\ op' = [op EXCEPT ![r] = "bonus"]
      /\ UNCHANGED <<who, want, work, scan, batch>>
  BY DEF CommitApproval
<1>3. t \in Txs /\ x.status # "absent" /\ x.status = "pending" /\ txLock[t] = r
  BY <1>2 DEF ApprovalsInv, Requests, Settling
<1>4. /\ tx' \in [Txs -> TxRow]
      /\ RowsWellFormed'
      /\ tx'[t].status # "absent"
      /\ \A q \in Txs : q # t => tx'[q] = tx[q]
  BY <1>2, <1>3, DecidedRow
<1>5. \A u \in Parties(x) : lock[u] = r /\ view[r][u] + Effect(x, u) \in Nat
  BY ApprovedBalances
<1>6. /\ lock' \in [Users -> Threads \cup {None}]
      /\ \A u \in Users : /\ lock'[u] # r
                          /\ lock'[u] # None => lock'[u] = lock[u]
                          /\ lock[u] # r => lock'[u] = lock[u]
  BY <1>1, <1>2, ReleasedRows
<1>7. /\ balance' \in [Users -> Int]
      /\ NoOverdraft'
      /\ \A u \in Users : lock[u] # r => balance'[u] = balance[u]
  <2>1. \A u \in Users : balance[u] \in Int /\ balance[u] >= 0
    BY <1>1 DEF AccountsTypeOK, ApprovalsInv, NoOverdraft
  <2> QED
    BY <1>2, <1>5, <2>1 DEF NoOverdraft
<1>8. EmptyView \in [Users -> Int] /\ \A u \in Users : EmptyView[u] = NotLoaded
  BY DEF EmptyView, NotLoaded
<1>9. ApprovalsTypeOK'
  <2>1. AccountsTypeOK(ApprovalOps)'
    BY <1>1, <1>2, <1>6, <1>7, <1>8 DEF AccountsTypeOK, ApprovalOps
  <2>2. TransactionsTypeOK'
    BY <1>1, <1>2, <1>4 DEF TransactionsTypeOK
  <2> QED
    BY <2>1, <2>2 DEF ApprovalsTypeOK
<1>10. /\ \A s \in Threads : s # r => op'[s] = op[s] /\ view'[s] = view[s]
       /\ op'[r] = "bonus" /\ view'[r] = EmptyView
       /\ \A q \in Txs : q # t => txLock'[q] = txLock[q]
  BY <1>1, <1>2, <1>3 DEF AccountsTypeOK, TransactionsTypeOK
<1>11. ViewsSound'
  BY <1>8, <1>10 DEF ApprovalsInv, ViewsSound, NotLoaded
<1>12. Requests'
  BY <1>2, <1>3, <1>4, <1>10 DEF ApprovalsInv, Requests
<1>13. ASSUME NEW s \in Threads, s # r, op[s] = "settle"
       PROVE  /\ work[s] \in Txs
              /\ tx'[work[s]] = tx[work[s]]
              /\ txLock'[work[s]] = txLock[work[s]]
  BY <1>3, <1>4, <1>10, <1>13 DEF ApprovalsInv, Settling, Requests
<1>14. Settling'
  <2> SUFFICES ASSUME NEW s \in Threads, op'[s] = "settle"
               PROVE  /\ txLock'[work[s]] = s
                      /\ tx'[work[s]].status = "pending"
                      /\ want[s] \in Parties(tx'[work[s]]) \cup {None}
                      /\ \A u \in Parties(tx'[work[s]]) :
                            want[s] \notin {u, tx'[work[s]].sender} \ {None} => Taken(s, u)'
    BY <1>2 DEF Settling, Parties
  <2>1. s # r /\ op[s] = "settle"
    BY <1>10
  <2>2. Parties(tx[work[s]]) \subseteq Users
    BY <1>1, <2>1, PartyOrder DEF ApprovalsInv, Requests, RowsWellFormed, TransactionsTypeOK
  <2>3. \A u \in Users : Taken(s, u) => Taken(s, u)'
    BY <1>6, <1>10, <2>1 DEF Taken
  <2> QED
    BY <1>13, <2>1, <2>2, <2>3 DEF ApprovalsInv, Settling
<1>15. ASSUME NEW u \in Users, lock'[u] # None
       PROVE  lock'[u] = lock[u] /\ lock[u] \in Threads /\ lock[u] # r
  BY <1>1, <1>6, <1>15 DEF AccountsTypeOK
<1>16. LockOwners'
  BY <1>2, <1>10, <1>13, <1>15 DEF ApprovalsInv, LockOwners
<1>17. ViewOwners'
  BY <1>2, <1>6, <1>8, <1>10 DEF ApprovalsInv, ViewOwners
<1>18. LockedViewFresh'
  BY <1>2, <1>7, <1>10, <1>15 DEF ApprovalsInv, LockedViewFresh
<1> QED
  BY <1>4, <1>7, <1>9, <1>11, <1>12, <1>14, <1>16, <1>17, <1>18 DEF ApprovalsInv

\* A rejection decides a row no settling thread holds.
LEMMA RejectKeepsInv ==
    ASSUME ApprovalsInv, NEW t \in Txs, Reject(t)
    PROVE  ApprovalsInv'
<1> USE NoneIsNobody
<1>1. ApprovalsTypeOK /\ AccountsTypeOK(ApprovalOps) /\ TransactionsTypeOK
  BY DEF ApprovalsInv, ApprovalsTypeOK
<1>2. /\ txLock[t] = None
      /\ tx[t].status # "absent"
      /\ tx' = [tx EXCEPT ![t].status = "rejected"]
      /\ UNCHANGED <<balance, lock, op, who, view, want, txLock, posted, work, scan, batch>>
  BY DEF Reject, Pending, accountsVars
<1>3. /\ tx' \in [Txs -> TxRow]
      /\ RowsWellFormed'
      /\ tx'[t].status # "absent"
      /\ \A q \in Txs : q # t => tx'[q] = tx[q]
  BY <1>2, DecidedRow
<1>4. ApprovalsTypeOK'
  BY <1>1, <1>2, <1>3 DEF ApprovalsTypeOK, AccountsTypeOK, TransactionsTypeOK
<1>5. NoOverdraft' /\ ViewsSound' /\ ViewOwners' /\ LockedViewFresh'
  BY <1>2 DEF ApprovalsInv, NoOverdraft, ViewsSound, ViewOwners, LockedViewFresh
<1>6. Requests'
  BY <1>2, <1>3 DEF ApprovalsInv, Requests
<1>7. \A s \in Threads : op[s] = "settle" => work[s] \in Txs /\ tx'[work[s]] = tx[work[s]]
  BY <1>2, <1>3 DEF ApprovalsInv, Settling, Requests
<1>8. Settling'
  BY <1>2, <1>7 DEF ApprovalsInv, Settling, Taken
<1>9. LockOwners'
  BY <1>1, <1>2, <1>7 DEF ApprovalsInv, LockOwners, AccountsTypeOK
<1> QED
  BY <1>3, <1>4, <1>5, <1>6, <1>8, <1>9 DEF ApprovalsInv

\* Looking a deposit up in the ledger touches only the backfill's own lists.
LEMMA CheckRecordedKeepsInv ==
    ASSUME ApprovalsInv, NEW r \in Threads, CheckRecorded(r)
    PROVE  ApprovalsInv'
<1>1. PICK t \in scan[r] :
         /\ scan' = [scan EXCEPT ![r] = @ \ {t}]
         /\ batch' = [batch EXCEPT ![r] = IF AlreadyRecorded(t) THEN @ ELSE @ \cup {t}]
  BY DEF CheckRecorded
<1>2. UNCHANGED <<balance, lock, op, who, view, want, tx, txLock, posted, work>>
  BY DEF CheckRecorded, accountsVars
<1>3. TransactionsTypeOK'
  BY <1>1, <1>2 DEF ApprovalsInv, ApprovalsTypeOK, TransactionsTypeOK
<1>4. ApprovalsTypeOK'
  BY <1>2, <1>3 DEF ApprovalsInv, ApprovalsTypeOK, AccountsTypeOK
<1>5. /\ NoOverdraft' /\ RowsWellFormed' /\ ViewsSound' /\ Requests'
      /\ LockOwners' /\ ViewOwners' /\ LockedViewFresh'
  BY ZenonT(30), <1>2 DEF ApprovalsInv, NoOverdraft, RowsWellFormed, WellFormed, ViewsSound, Requests,
              LockOwners, ViewOwners, LockedViewFresh
<1>6. Settling'
  BY <1>2 DEF ApprovalsInv, Settling, Taken
<1> QED
  BY <1>4, <1>5, <1>6 DEF ApprovalsInv

-----------------------------------------------------------------------------
(* Every step. *)

LEMMA ThreadStepKeepsInv ==
    ASSUME ApprovalsInv, NEW r \in Threads,
           ApprovalStep(r) \/ LockParty(r) \/ SkipBonus(r) \/ Abort(r) \/ AbortVictim(r)
    PROVE  ApprovalsInv'
<1>1. CASE SubmitDeposit(r) \/ SubmitWithdrawal(r) \/ SubmitTransfer(r)
  BY <1>1, SubmitKeepsInv
<1>2. CASE RefuseDecided(r) \/ RefuseUncovered(r) \/ SkipBonus(r) \/ CommitBackfill(r)
  BY <1>2, EndingsKeepInv
<1>3. CASE RefuseSubmit(r) \/ Abort(r) \/ AbortVictim(r)
  <2>1. Abort(r)
    BY <1>3 DEF RefuseSubmit, AbortVictim, DeadlockVictim, Abort
  <2> QED
    BY <2>1, EndingsKeepInv
<1>4. CASE LockPending(r)
  BY <1>4, LockPendingKeepsInv
<1>5. CASE LockParty(r)
  BY <1>5, LockPartyKeepsInv
<1>6. CASE CommitApproval(r)
  BY <1>6, CommitApprovalKeepsInv
<1>7. CASE CheckRecorded(r)
  BY <1>7, CheckRecordedKeepsInv
<1> QED
  BY <1>1, <1>2, <1>3, <1>4, <1>5, <1>6, <1>7 DEF ApprovalStep

LEMMA StutterKeepsInv ==
    ApprovalsInv /\ UNCHANGED allApprovalsVars => ApprovalsInv'
<1> SUFFICES ASSUME ApprovalsInv, UNCHANGED allApprovalsVars
             PROVE  ApprovalsInv'
  OBVIOUS
<1>1. UNCHANGED <<balance, lock, op, who, view, want, tx, txLock, posted, work, scan, batch>>
  BY DEF allApprovalsVars, accountsVars, approvalsVars
<1>2. ApprovalsTypeOK'
  BY <1>1 DEF ApprovalsInv, ApprovalsTypeOK, AccountsTypeOK, TransactionsTypeOK
<1>3. /\ NoOverdraft' /\ RowsWellFormed' /\ ViewsSound' /\ Requests'
      /\ LockOwners' /\ ViewOwners' /\ LockedViewFresh'
  BY <1>1 DEF ApprovalsInv, NoOverdraft, RowsWellFormed, WellFormed, ViewsSound, Requests,
              LockOwners, ViewOwners, LockedViewFresh
<1>4. Settling'
  BY <1>1 DEF ApprovalsInv, Settling, Taken
<1> QED
  BY <1>2, <1>3, <1>4 DEF ApprovalsInv

LEMMA StepInv == ApprovalsInv /\ [ApprovalsNext]_allApprovalsVars => ApprovalsInv'
<1> SUFFICES ASSUME ApprovalsInv, [ApprovalsNext]_allApprovalsVars
             PROVE  ApprovalsInv'
  OBVIOUS
<1>1. ASSUME NEW r \in Threads,
             ApprovalStep(r) \/ LockParty(r) \/ SkipBonus(r) \/ Abort(r) \/ AbortVictim(r)
      PROVE  ApprovalsInv'
  BY <1>1, ThreadStepKeepsInv
<1>2. ASSUME NEW r \in Threads, NEW u \in Users, BeginSubmit(r, u)
      PROVE  ApprovalsInv'
  BY <1>2, BeginSubmitKeepsInv
<1>3. ASSUME NEW r \in Threads, NEW u \in Users, BeginBackfill(r, u)
      PROVE  ApprovalsInv'
  BY <1>3, BeginBackfillKeepsInv
<1>4. ASSUME NEW r \in Threads, NEW u \in Users, NEW t \in Txs, BeginApprove(r, u, t)
      PROVE  ApprovalsInv'
  BY <1>4, BeginApproveKeepsInv
<1>5. ASSUME NEW t \in Txs, Reject(t)
      PROVE  ApprovalsInv'
  BY <1>5, RejectKeepsInv
<1>6. CASE UNCHANGED allApprovalsVars
  BY <1>6, StutterKeepsInv
<1> QED
  BY <1>1, <1>2, <1>3, <1>4, <1>5, <1>6 DEF ApprovalsNext, ApprovalActivity

-----------------------------------------------------------------------------
(* The theorems. *)

\* Every reachable state of the approval workflow satisfies the invariant:
\* threads hold, see and wait for exactly what the lock order and session cache
\* of approve_transaction and its helpers say.
THEOREM ApprovalsInvariance == ApprovalsSpec => []ApprovalsInv
BY InitInv, StepInv, PTL DEF ApprovalsSpec

\* Every variable keeps its type: a status is one of the workflow's, an amount
\* is never negative, a decided row still names its parties.
THEOREM TypeCorrect == ApprovalsSpec => []ApprovalsTypeOK
<1>1. ApprovalsInv => ApprovalsTypeOK
  BY DEF ApprovalsInv
<1> QED
  BY <1>1, ApprovalsInvariance, PTL

\* No approval takes a balance below zero, although the table has no check and
\* the sender's balance was last compared when the request was submitted: the
\* approval compares again, on a row it holds.
THEOREM NeverOverdrawn == ApprovalsSpec => []NoOverdraft
<1>1. ApprovalsInv => NoOverdraft
  BY DEF ApprovalsInv
<1> QED
  BY <1>1, ApprovalsInvariance, PTL

\* A session that holds somebody else's row sees its committed balance: no
\* approval writes a balance computed from an old one, unless the admin is a
\* party of the transaction.
THEOREM LockedRowsFresh == ApprovalsSpec => []LockedViewFresh
<1>1. ApprovalsInv => LockedViewFresh
  BY DEF ApprovalsInv
<1> QED
  BY <1>1, ApprovalsInvariance, PTL

\* However many threads decide at once, only approvals of transfers deadlock,
\* each holding its sender and waiting for its receiver: deposits, withdrawals,
\* rejections and backfills never take part.
THEOREM DeadlocksAreTransfers == ApprovalsSpec => []DeadlockShape
<1>1. ASSUME ApprovalsInv, NEW r \in Threads, InCycle(r)
      PROVE  /\ op[r] = "settle"
             /\ tx[work[r]].kind = "transfer"
             /\ lock[tx[work[r]].sender] = r
             /\ want[r] = tx[work[r]].receiver
  <2> USE NoneIsNobody
  <2>1. PICK C \in SUBSET Threads :
           /\ r \in C
           /\ \A s \in C : Holder(s) \in C /\ \E q \in C : Holder(q) = s
    BY <1>1 DEF InCycle
  <2>2. PICK q \in C : Holder(q) = r
    BY <2>1
  <2>3. want[q] # None /\ lock[want[q]] = r
    BY <2>1, <2>2 DEF Holder
  <2>4. want[q] \in Users
    BY <1>1, <2>1, <2>3 DEF ApprovalsInv, ApprovalsTypeOK, AccountsTypeOK
  <2>5. want[r] # None
    BY <2>1 DEF Holder
  <2> QED
    BY <1>1, <2>3, <2>4, <2>5 DEF ApprovalsInv, LockOwners
<1>2. ApprovalsInv => DeadlockShape
  BY <1>1 DEF DeadlockShape
<1> QED
  BY <1>2, ApprovalsInvariance, PTL

-----------------------------------------------------------------------------
(* Approvals beside other components, whose operations the same threads      *)
(* serve: what holds for any set of operations.                              *)

\* A request is somebody's, and a decision is about a recorded row.
Named == \A r \in Threads : op[r] # "idle" => who[r] \in Users

Assigned ==
    \A r \in Threads :
        op[r] \in {"approve", "settle", "bonus"} =>
            work[r] \in Txs /\ tx[work[r]].status # "absent"

Typed(Ops) ==
    AccountsTypeOK(Ops) /\ TransactionsTypeOK /\ RowsWellFormed /\ Named /\ Assigned

\* A recorded row stays what it was requested to be, and approved once approved.
Grows ==
    \A t \in Txs :
        tx[t].status # "absent" =>
            /\ tx'[t] = [tx[t] EXCEPT !.status = tx'[t].status]
            /\ tx'[t].status # "absent"
            /\ tx[t].status = "approved" => tx'[t].status = "approved"

\* The thread whose request it is changes its operation, requester and
\* assignment; the others' stay.
OthersServe(r) ==
    \A s \in Threads \ {r} : op'[s] = op[s] /\ who'[s] = who[s] /\ work'[s] = work[s]

LEMMA RowsGrow ==
    ASSUME TransactionsTypeOK, RowsWellFormed, TransactionsTypeOK', Grows,
           \A t \in Txs : tx[t].status = "absent" =>
              tx'[t] = tx[t] \/ WellFormed(tx'[t])
    PROVE  RowsWellFormed'
<1> SUFFICES ASSUME NEW t \in Txs, tx'[t].status # "absent"
             PROVE  WellFormed(tx'[t])
  BY DEF RowsWellFormed, WellFormed
<1>1. CASE tx[t].status = "absent"
  BY <1>1
<1>2. CASE tx[t].status # "absent"
  <2>1. WellFormed(tx[t])
    BY <1>2 DEF RowsWellFormed
  <2>2. /\ tx'[t].kind = tx[t].kind /\ tx'[t].sender = tx[t].sender
        /\ tx'[t].receiver = tx[t].receiver
    BY <1>2 DEF Grows, TransactionsTypeOK, TxRow
  <2> QED
    BY <2>1, <2>2 DEF WellFormed
<1> QED
  BY <1>1, <1>2

LEMMA SameRowsGrow ==
    ASSUME TransactionsTypeOK, tx' = tx
    PROVE  Grows
BY DEF Grows, TransactionsTypeOK, TxRow

\* A step of r that leaves the rows or adds to them.
LEMMA ThreadStepTyped ==
    ASSUME NEW Ops, Typed(Ops), NEW r \in Threads,
           AccountsTypeOK(Ops)', TransactionsTypeOK', OthersServe(r), Grows,
           \A t \in Txs : tx[t].status = "absent" =>
              tx'[t] = tx[t] \/ WellFormed(tx'[t]),
           op'[r] # "idle" => who'[r] \in Users,
           op'[r] \in {"approve", "settle", "bonus"} =>
              work'[r] \in Txs /\ tx'[work'[r]].status # "absent"
    PROVE  Typed(Ops)'
<1>1. RowsWellFormed'
  BY RowsGrow DEF Typed
<1>2. Named'
  BY DEF Typed, Named, OthersServe
<1>3. Assigned'
  BY DEF Typed, Assigned, OthersServe, Grows
<1> QED
  BY <1>1, <1>2, <1>3 DEF Typed

LEMMA EndTyped ==
    ASSUME NEW Ops, Typed(Ops), NEW r \in Threads, Finish(r),
           UNCHANGED <<balance, tx>>, TransactionsTypeOK',
           \A s \in Threads \ {r} : work'[s] = work[s]
    PROVE  Typed(Ops)' /\ Grows
<1> USE NoneIsNobody
<1>1. /\ op' = [op EXCEPT ![r] = "idle"] /\ who' = [who EXCEPT ![r] = None]
      /\ view' = [view EXCEPT ![r] = EmptyView] /\ want' = [want EXCEPT ![r] = None]
      /\ lock' = [u \in Users |-> IF lock[u] = r THEN None ELSE lock[u]]
  BY DEF Finish, Released
<1>2. EmptyView \in [Users -> Int]
  BY DEF EmptyView, NotLoaded
<1>3. AccountsTypeOK(Ops)'
  BY <1>1, <1>2 DEF Typed, AccountsTypeOK
<1>4. OthersServe(r) /\ op'[r] = "idle"
  BY <1>1 DEF OthersServe, Typed, AccountsTypeOK
<1>5. Grows
  BY SameRowsGrow DEF Typed
<1> QED
  BY <1>3, <1>4, <1>5, ThreadStepTyped

LEMMA BeginTyped ==
    ASSUME NEW Ops, Typed(Ops), NEW r \in Threads, NEW u \in Users, NEW o \in Ops,
           Begin(r, u, o), UNCHANGED <<balance, lock, want, tx>>, TransactionsTypeOK',
           \A s \in Threads \ {r} : work'[s] = work[s],
           o \in {"approve", "settle", "bonus"} =>
              work'[r] \in Txs /\ tx[work'[r]].status # "absent"
    PROVE  Typed(Ops)' /\ Grows
<1>1. /\ op' = [op EXCEPT ![r] = o] /\ who' = [who EXCEPT ![r] = u]
      /\ view' = [view EXCEPT ![r] = [EmptyView EXCEPT ![u] = balance[u]]]
  BY DEF Begin
<1>2. [EmptyView EXCEPT ![u] = balance[u]] \in [Users -> Int]
  BY DEF EmptyView, NotLoaded, Typed, AccountsTypeOK
<1>3. AccountsTypeOK(Ops)'
  BY <1>1, <1>2 DEF Typed, AccountsTypeOK
<1>4. OthersServe(r) /\ op'[r] = o /\ who'[r] = u
  BY <1>1 DEF OthersServe, Typed, AccountsTypeOK
<1>5. Grows
  BY SameRowsGrow DEF Typed
<1> QED
  BY <1>3, <1>4, <1>5, ThreadStepTyped

LEMMA InsertTyped ==
    ASSUME NEW Ops, Typed(Ops), NEW r \in Threads, NEW x \in TxRow, WellFormed(x),
           Insert(r, x)
    PROVE  Typed(Ops)' /\ Grows
<1> USE NoneIsNobody
<1>1. PICK t \in Txs : Fresh(t) /\ tx' = [tx EXCEPT ![t] = x]
  BY DEF Insert
<1>2. UNCHANGED <<balance, txLock, posted, work, scan, batch>> /\ Finish(r)
  BY DEF Insert
<1>3. /\ op' = [op EXCEPT ![r] = "idle"] /\ who' = [who EXCEPT ![r] = None]
      /\ view' = [view EXCEPT ![r] = EmptyView] /\ want' = [want EXCEPT ![r] = None]
      /\ lock' = [u \in Users |-> IF lock[u] = r THEN None ELSE lock[u]]
  BY <1>2 DEF Finish, Released
<1>4. EmptyView \in [Users -> Int]
  BY DEF EmptyView, NotLoaded
<1>5. AccountsTypeOK(Ops)'
  BY <1>2, <1>3, <1>4 DEF Typed, AccountsTypeOK
<1>6. TransactionsTypeOK'
  BY <1>1, <1>2 DEF Typed, TransactionsTypeOK
<1>7. /\ tx'[t] = x /\ tx[t].status = "absent"
      /\ \A q \in Txs \ {t} : tx'[q] = tx[q]
  BY <1>1 DEF Fresh, Typed, TransactionsTypeOK
<1>8. Grows
  BY <1>7 DEF Grows, Typed, TransactionsTypeOK, TxRow
<1>9. OthersServe(r) /\ op'[r] = "idle"
  BY <1>2, <1>3 DEF OthersServe, Typed, AccountsTypeOK
<1> QED
  BY <1>5, <1>6, <1>7, <1>8, <1>9, ThreadStepTyped

LEMMA SubmitTyped ==
    ASSUME NEW Ops, Typed(Ops), NEW r \in Threads,
           SubmitDeposit(r) \/ SubmitWithdrawal(r) \/ SubmitTransfer(r)
    PROVE  Typed(Ops)' /\ Grows
<1>1. op[r] = "submit" /\ who[r] \in Users
  BY DEF SubmitDeposit, SubmitWithdrawal, SubmitTransfer, Typed, Named
<1>2. \A a \in Amounts : a \in Nat
  BY ApprovalsAssumption
<1>3. CASE SubmitDeposit(r)
  <2>1. PICK a \in Amounts : Insert(r, NewTx("deposit", a, None, who[r]))
    BY <1>3 DEF SubmitDeposit
  <2>2. NewTx("deposit", a, None, who[r]) \in TxRow
    BY <1>1, <1>2 DEF NewTx, TxRow, Kinds, Statuses
  <2>3. WellFormed(NewTx("deposit", a, None, who[r]))
    BY <1>1 DEF NewTx, WellFormed
  <2> QED
    BY <2>1, <2>2, <2>3, InsertTyped
<1>4. CASE SubmitWithdrawal(r)
  <2>1. PICK a \in Amounts : Insert(r, NewTx("withdrawal", a, who[r], None))
    BY <1>4 DEF SubmitWithdrawal
  <2>2. NewTx("withdrawal", a, who[r], None) \in TxRow
    BY <1>1, <1>2 DEF NewTx, TxRow, Kinds, Statuses
  <2>3. WellFormed(NewTx("withdrawal", a, who[r], None))
    BY <1>1 DEF NewTx, WellFormed
  <2> QED
    BY <2>1, <2>2, <2>3, InsertTyped
<1>5. CASE SubmitTransfer(r)
  <2>1. PICK a \in Amounts, v \in Users \ {who[r]} :
           Insert(r, NewTx("transfer", a, who[r], v))
    BY <1>5, Zenon DEF SubmitTransfer
  <2>2. NewTx("transfer", a, who[r], v) \in TxRow
    BY <1>1, <1>2 DEF NewTx, TxRow, Kinds, Statuses
  <2>3. WellFormed(NewTx("transfer", a, who[r], v))
    BY <1>1 DEF NewTx, WellFormed
  <2> QED
    BY <2>1, <2>2, <2>3, InsertTyped
<1> QED
  BY <1>3, <1>4, <1>5

LEMMA DecideTyped ==
    ASSUME NEW Ops, Typed(Ops), NEW t \in Txs, NEW s \in {"approved", "rejected"},
           tx[t].status # "absent", tx[t].status = "approved" => s = "approved",
           tx' = [tx EXCEPT ![t].status = s]
    PROVE  tx' \in [Txs -> TxRow] /\ Grows
<1>1. tx \in [Txs -> TxRow]
  BY DEF Typed, TransactionsTypeOK
<1>2. tx' \in [Txs -> TxRow]
  BY <1>1 DEF TxRow, Statuses
<1>3. /\ tx'[t] = [tx[t] EXCEPT !.status = s]
      /\ \A q \in Txs \ {t} : tx'[q] = tx[q]
  BY <1>1
<1>4. tx'[t].status = s
  BY <1>1, <1>3 DEF TxRow
<1>5. \A q \in Txs : tx'[q] = [tx[q] EXCEPT !.status = tx'[q].status]
  BY <1>1, <1>3, <1>4 DEF TxRow
<1>6. Grows
  BY <1>3, <1>4, <1>5 DEF Grows
<1> QED
  BY <1>2, <1>6

LEMMA CommitTyped ==
    ASSUME NEW Ops, "bonus" \in Ops, Typed(Ops), NEW r \in Threads, CommitApproval(r)
    PROVE  Typed(Ops)' /\ Grows
<1> USE NoneIsNobody
<1> DEFINE t == work[r]
<1>1. /\ op[r] = "settle"
      /\ balance' = [u \in Users |-> IF u \in Parties(tx[t])
                                     THEN view[r][u] + Effect(tx[t], u) ELSE balance[u]]
      /\ tx' = [tx EXCEPT ![t].status = "approved"]
      /\ posted' = [posted EXCEPT ![t] =
              IF tx[t].kind \in LedgerKinds /\ ~AlreadyRecorded(t) THEN @ + 1 ELSE @]
      /\ txLock' = [txLock EXCEPT ![t] = None]
      /\ lock' = [u \in Users |-> IF lock[u] = r THEN None ELSE lock[u]]
      /\ view' = [view EXCEPT ![r] = EmptyView]
      /\ op' = [op EXCEPT ![r] = "bonus"]
      /\ UNCHANGED <<who, want, work, scan, batch>>
  BY DEF CommitApproval, Released
<1>2. t \in Txs /\ tx[t].status # "absent" /\ who[r] \in Users
  BY <1>1 DEF Typed, Assigned, Named
<1>3. tx' \in [Txs -> TxRow] /\ Grows
  BY <1>1, <1>2, DecideTyped
<1>4. \A u \in Users : view[r][u] + Effect(tx[t], u) \in Int /\ balance[u] \in Int
  <2>1. tx[t] \in TxRow /\ WellFormed(tx[t])
    BY <1>2 DEF Typed, TransactionsTypeOK, RowsWellFormed
  <2>2. \A u \in Users : Effect(tx[t], u) \in Int /\ view[r][u] \in Int /\ balance[u] \in Int
    BY <2>1, PartyOrder DEF Typed, AccountsTypeOK
  <2> QED
    BY <2>2
<1>5. EmptyView \in [Users -> Int]
  BY DEF EmptyView, NotLoaded
<1>6. balance' \in [Users -> Int]
  BY <1>1, <1>4
<1>7. AccountsTypeOK(Ops)'
  BY <1>1, <1>5, <1>6 DEF Typed, AccountsTypeOK
<1>8. TransactionsTypeOK'
  BY <1>1, <1>2, <1>3 DEF Typed, TransactionsTypeOK
<1>9. OthersServe(r)
  BY <1>1 DEF OthersServe, Typed, AccountsTypeOK
<1>10. \A q \in Txs : tx[q].status = "absent" => tx'[q] = tx[q]
  BY <1>1, <1>2 DEF Typed, TransactionsTypeOK
<1>11. work'[r] \in Txs /\ tx'[work'[r]].status # "absent" /\ who'[r] \in Users
  BY <1>1, <1>2, <1>3 DEF Grows
<1> QED
  BY <1>3, <1>7, <1>8, <1>9, <1>10, <1>11, ThreadStepTyped

LEMMA LockTyped ==
    ASSUME NEW Ops, "settle" \in Ops, Typed(Ops), NEW r \in Threads,
           LockPending(r) \/ LockParty(r)
    PROVE  Typed(Ops)' /\ Grows
<1> USE NoneIsNobody
<1>1. op[r] \in {"approve", "settle"} /\ UNCHANGED <<balance, who, tx, posted, work, scan, batch>>
  BY DEF LockPending, LockParty, LockRow, approvalsVars
<1>2. work[r] \in Txs /\ tx[work[r]].status # "absent" /\ who[r] \in Users
  BY <1>1 DEF Typed, Assigned, Named
<1>3. tx[work[r]] \in TxRow /\ WellFormed(tx[work[r]])
  BY <1>2 DEF Typed, TransactionsTypeOK, RowsWellFormed
<1>4. Grows
  BY <1>1, SameRowsGrow DEF Typed
<1>5. CASE LockPending(r)
  <2>1. /\ txLock' = [txLock EXCEPT ![work[r]] = r]
        /\ op' = [op EXCEPT ![r] = "settle"]
        /\ want' = [want EXCEPT ![r] = FirstParty(tx[work[r]])]
        /\ UNCHANGED <<lock, view>>
    BY <1>5 DEF LockPending
  <2>2. FirstParty(tx[work[r]]) \in Users
    BY <1>3, PartyOrder
  <2>3. AccountsTypeOK(Ops)' /\ TransactionsTypeOK'
    BY <1>1, <2>1, <2>2 DEF Typed, AccountsTypeOK, TransactionsTypeOK
  <2>4. OthersServe(r)
    BY <1>1, <2>1 DEF OthersServe, Typed, AccountsTypeOK
  <2> QED
    BY <1>1, <1>2, <1>4, <2>3, <2>4, ThreadStepTyped
<1>6. CASE LockParty(r)
  <2> DEFINE u == want[r]
             next == NextParty(tx[work[r]], want[r])
  <2>1. /\ u # None
        /\ lock' = [lock EXCEPT ![u] = r]
        /\ view' = IF view[r][u] = NotLoaded
                   THEN [view EXCEPT ![r][u] = balance[u]] ELSE view
        /\ want' = [want EXCEPT ![r] = next]
        /\ UNCHANGED <<op, txLock>>
    BY <1>6 DEF LockParty, LockRow, approvalsVars
  <2>2. u \in Users
    BY <2>1 DEF Typed, AccountsTypeOK
  <2>3. next \in Users \cup {None}
    BY <1>3, PartyOrder DEF NextParty, TxRow
  <2>4. view' \in [Threads -> [Users -> Int]]
    BY <2>1, <2>2 DEF Typed, AccountsTypeOK
  <2>5. AccountsTypeOK(Ops)' /\ TransactionsTypeOK'
    BY <1>1, <2>1, <2>2, <2>3, <2>4 DEF Typed, AccountsTypeOK, TransactionsTypeOK
  <2>6. OthersServe(r)
    BY <1>1, <2>1 DEF OthersServe
  <2> QED
    BY <1>1, <1>2, <1>4, <2>1, <2>5, <2>6, ThreadStepTyped
<1> QED
  BY <1>5, <1>6

LEMMA EndingsTyped ==
    ASSUME NEW Ops, Typed(Ops), NEW r \in Threads,
           \/ RefuseDecided(r) \/ RefuseUncovered(r) \/ SkipBonus(r)
           \/ CommitBackfill(r) \/ (RollBack(r) /\ Forget(r))
    PROVE  Typed(Ops)' /\ Grows
<1> USE NoneIsNobody
<1>1. Finish(r) /\ UNCHANGED <<balance, tx>>
  BY DEF RefuseDecided, RefuseUncovered, SkipBonus, CommitBackfill, RollBack, Forget
<1>2. TransactionsTypeOK
  BY DEF Typed
<1>3. TransactionsTypeOK' /\ \A s \in Threads \ {r} : work'[s] = work[s]
  <2>1. CASE RefuseDecided(r) \/ RefuseUncovered(r) \/ SkipBonus(r)
    BY <1>2, <2>1 DEF RefuseDecided, RefuseUncovered, SkipBonus, TransactionsTypeOK
  <2>2. CASE CommitBackfill(r)
    BY <1>2, <2>2 DEF CommitBackfill, TransactionsTypeOK
  <2>3. CASE Forget(r)
    BY <1>2, <2>3 DEF Forget, TransactionsTypeOK
  <2> QED
    BY <2>1, <2>2, <2>3
<1> QED
  BY <1>1, <1>3, EndTyped

\* A step that touches no request.
LEMMA DeskStepTyped ==
    ASSUME NEW Ops, Typed(Ops),
           \/ \E t \in Txs : Reject(t)
           \/ \E r \in Threads : CheckRecorded(r)
           \/ UNCHANGED allApprovalsVars
    PROVE  Typed(Ops)' /\ Grows
<1>1. UNCHANGED <<balance, lock, op, who, view, want, work>>
  BY DEF Reject, CheckRecorded, allApprovalsVars, accountsVars, approvalsVars
<1>2. AccountsTypeOK(Ops)'
  BY <1>1 DEF Typed, AccountsTypeOK
<1>3. TransactionsTypeOK' /\ Grows /\ (\A t \in Txs : tx[t].status = "absent" => tx'[t] = tx[t])
  <2>1. ASSUME NEW t \in Txs, Reject(t)
        PROVE  TransactionsTypeOK' /\ Grows
               /\ (\A q \in Txs : tx[q].status = "absent" => tx'[q] = tx[q])
    <3>1. /\ tx[t].status = "pending"
          /\ tx' = [tx EXCEPT ![t].status = "rejected"]
          /\ UNCHANGED <<txLock, posted, scan, batch>>
      BY <2>1 DEF Reject, Pending
    <3>2. tx' \in [Txs -> TxRow] /\ Grows
      BY <3>1, DecideTyped
    <3> QED
      BY <1>1, <3>1, <3>2 DEF Typed, TransactionsTypeOK
  <2>2. CASE UNCHANGED <<tx, txLock, posted>> /\ scan' \in [Threads -> SUBSET Txs]
             /\ batch' \in [Threads -> SUBSET Txs]
    BY <1>1, <2>2, SameRowsGrow DEF Typed, TransactionsTypeOK
  <2>3. ASSUME NEW r \in Threads, CheckRecorded(r)
        PROVE  UNCHANGED <<tx, txLock, posted>> /\ scan' \in [Threads -> SUBSET Txs]
               /\ batch' \in [Threads -> SUBSET Txs]
    BY <2>3 DEF CheckRecorded, Typed, TransactionsTypeOK
  <2>4. CASE UNCHANGED allApprovalsVars
    BY <2>2, <2>4 DEF allApprovalsVars, approvalsVars, Typed, TransactionsTypeOK
  <2> QED
    BY <2>1, <2>2, <2>3, <2>4
<1>4. RowsWellFormed'
  BY <1>3, RowsGrow DEF Typed
<1>5. Named' /\ Assigned'
  BY <1>1, <1>3 DEF Typed, Named, Assigned, Grows
<1> QED
  BY <1>2, <1>3, <1>4, <1>5 DEF Typed

\* Whatever else the threads do, the steps of the approvals keep the types.
LEMMA ActivityTyped ==
    ASSUME NEW Ops, ApprovalOps \subseteq Ops, Typed(Ops),
           \/ ApprovalActivity \/ (\E r \in Threads : SkipBonus(r))
           \/ UNCHANGED allApprovalsVars
    PROVE  Typed(Ops)' /\ Grows
<1>1. {"submit", "approve", "backfill", "settle", "bonus"} \subseteq Ops
  BY DEF ApprovalOps
<1>2. ASSUME NEW r \in Threads, ApprovalStep(r)
      PROVE  Typed(Ops)' /\ Grows
  <2>1. CASE SubmitDeposit(r) \/ SubmitWithdrawal(r) \/ SubmitTransfer(r)
    BY <2>1, SubmitTyped
  <2>2. CASE LockPending(r)
    BY <1>1, <2>2, LockTyped
  <2>3. CASE CommitApproval(r)
    BY <1>1, <2>3, CommitTyped
  <2>4. CASE RefuseSubmit(r)
    <3>1. RollBack(r) /\ Forget(r)
      BY <2>4 DEF RefuseSubmit, Abort
    <3> QED
      BY <3>1, EndingsTyped
  <2>5. CASE RefuseDecided(r) \/ RefuseUncovered(r) \/ CommitBackfill(r)
    BY <2>5, EndingsTyped
  <2>6. CASE CheckRecorded(r)
    BY <2>6, DeskStepTyped
  <2> QED
    BY <1>2, <2>1, <2>2, <2>3, <2>4, <2>5, <2>6 DEF ApprovalStep
<1>3. ASSUME NEW r \in Threads, LockParty(r) \/ Abort(r) \/ AbortVictim(r) \/ SkipBonus(r)
      PROVE  Typed(Ops)' /\ Grows
  <2>1. Abort(r) \/ AbortVictim(r) => RollBack(r) /\ Forget(r)
    BY DEF Abort, AbortVictim, DeadlockVictim
  <2> QED
    BY <1>1, <1>3, <2>1, LockTyped, EndingsTyped
<1>4. ASSUME NEW r \in Threads, NEW u \in Users, BeginSubmit(r, u) \/ BeginBackfill(r, u)
      PROVE  Typed(Ops)' /\ Grows
  <2>1. UNCHANGED <<balance, lock, want, tx, work>> /\ TransactionsTypeOK'
    BY <1>4 DEF BeginSubmit, BeginBackfill, approvalsVars, Typed, TransactionsTypeOK,
                ApprovedDeposits
  <2>2. Begin(r, u, "submit") \/ Begin(r, u, "backfill")
    BY <1>4 DEF BeginSubmit, BeginBackfill
  <2> QED
    BY <1>1, <2>1, <2>2, BeginTyped
<1>5. ASSUME NEW r \in Threads, NEW u \in Users, NEW t \in Txs, BeginApprove(r, u, t)
      PROVE  Typed(Ops)' /\ Grows
  <2>1. /\ UNCHANGED <<balance, lock, want, tx>> /\ Begin(r, u, "approve")
        /\ work' = [work EXCEPT ![r] = t] /\ tx[t].status # "absent"
        /\ UNCHANGED <<txLock, posted, scan, batch>>
    BY <1>5 DEF BeginApprove
  <2>2. TransactionsTypeOK' /\ work'[r] = t /\ \A s \in Threads \ {r} : work'[s] = work[s]
    BY <2>1 DEF Typed, TransactionsTypeOK
  <2> QED
    BY <1>1, <2>1, <2>2, BeginTyped
<1> QED
  BY <1>2, <1>3, <1>4, <1>5, DeskStepTyped DEF ApprovalActivity

LEMMA InitTyped ==
    ASSUME NEW Ops, ApprovalsInit
    PROVE  Typed(Ops)
<1>1. AccountsTypeOK(ApprovalOps) /\ TransactionsTypeOK /\ RowsWellFormed
  BY InitInv DEF ApprovalsInv, ApprovalsTypeOK
<1>2. op = [r \in Threads |-> "idle"]
  BY DEF ApprovalsInit, AccountsInit
<1>3. AccountsTypeOK(Ops)
  BY <1>1, <1>2 DEF AccountsTypeOK
<1>4. Named /\ Assigned
  BY <1>2 DEF Named, Assigned
<1> QED
  BY <1>1, <1>3, <1>4 DEF Typed

\* Rows are recorded in the order of their ids.
Consecutive ==
    \A t \in Txs, s \in Txs : s < t /\ tx[t].status # "absent" => tx[s].status # "absent"

LEMMA InitConsecutive == ApprovalsInit => Consecutive
<1> SUFFICES ASSUME ApprovalsInit, NEW t \in Txs, NEW s \in Txs, s < t,
                    tx[t].status # "absent"
             PROVE  tx[s].status # "absent"
  BY DEF Consecutive
<1>1. PICK owner \in [Legacy -> Users], amount \in [Legacy -> Amounts] :
         tx = [q \in Txs |-> IF q \in Legacy THEN LegacyTx(owner[q], amount[q]) ELSE NoTx]
  BY DEF ApprovalsInit
<1>2. t \in Legacy
  BY <1>1 DEF NoTx
<1>3. s \in Legacy
  BY <1>2, ApprovalsAssumption DEF Txs
<1> QED
  BY <1>1, <1>3 DEF LegacyTx, NewTx

\* A step of the approvals records at most the next row; a thread comes to the
\* bonus step by approving its transaction.
InOrder == \A t \in Txs : tx[t].status = "absent" => tx'[t].status = "absent" \/ Fresh(t)

Proceeds ==
    \A r \in Threads :
        \/ op'[r] = op[r] /\ work'[r] = work[r]
        \/ op'[r] \in {"idle", "submit", "approve", "settle", "backfill"}
        \/ op'[r] = "bonus" /\ work'[r] \in Txs /\ tx'[work'[r]].status = "approved"

LEMMA ActivityProceeds ==
    ASSUME NEW Ops, Typed(Ops),
           \/ ApprovalActivity \/ (\E r \in Threads : SkipBonus(r))
           \/ UNCHANGED allApprovalsVars
    PROVE  InOrder /\ Proceeds
<1> USE DEF Typed, AccountsTypeOK, TransactionsTypeOK
<1>1. ASSUME NEW r \in Threads, NEW x, Insert(r, x)
      PROVE  InOrder /\ Proceeds
  <2>1. PICK t \in Txs : Fresh(t) /\ tx' = [tx EXCEPT ![t] = x]
    BY <1>1 DEF Insert
  <2>2. op' = [op EXCEPT ![r] = "idle"] /\ work' = work
    BY <1>1 DEF Insert, Finish
  <2> QED
    BY <2>1, <2>2 DEF InOrder, Proceeds
<1>2. ASSUME NEW r \in Threads, op' = [op EXCEPT ![r] = "idle"], tx' = tx,
             work' = [work EXCEPT ![r] = None] \/ work' = work
      PROVE  InOrder /\ Proceeds
  BY <1>2 DEF InOrder, Proceeds
<1>3. ASSUME NEW r \in Threads, ApprovalStep(r)
      PROVE  InOrder /\ Proceeds
  <2>1. CASE SubmitDeposit(r)
    BY <1>1, <2>1 DEF SubmitDeposit
  <2>2. CASE SubmitWithdrawal(r)
    BY <1>1, <2>2 DEF SubmitWithdrawal
  <2>3. CASE SubmitTransfer(r)
    <3>1. PICK a \in Amounts, v \in Users \ {who[r]} :
             Insert(r, NewTx("transfer", a, who[r], v))
      BY <2>3, Zenon DEF SubmitTransfer
    <3> QED
      BY <1>1, <3>1
  <2>4. CASE RefuseSubmit(r) \/ RefuseDecided(r) \/ RefuseUncovered(r) \/ CommitBackfill(r)
    <3>1. /\ op' = [op EXCEPT ![r] = "idle"] /\ tx' = tx
          /\ work' = [work EXCEPT ![r] = None] \/ work' = work
      BY <2>4 DEF RefuseSubmit, RefuseDecided, RefuseUncovered, CommitBackfill, Abort,
                  RollBack, Forget, Finish
    <3> QED
      BY <1>2, <3>1
  <2>5. CASE LockPending(r)
    BY <2>5 DEF LockPending, InOrder, Proceeds
  <2>6. CASE CommitApproval(r)
    <3>1. op[r] = "settle" /\ op' = [op EXCEPT ![r] = "bonus"] /\ work' = work
          /\ tx' = [tx EXCEPT ![work[r]].status = "approved"]
      BY <2>6 DEF CommitApproval
    <3>2. work[r] \in Txs /\ tx[work[r]].status # "absent"
      BY <3>1 DEF Assigned
    <3>3. tx'[work[r]].status = "approved" /\ \A t \in Txs \ {work[r]} : tx'[t] = tx[t]
      BY <3>1, <3>2 DEF TxRow
    <3> QED
      BY <3>1, <3>2, <3>3 DEF InOrder, Proceeds
  <2>7. CASE CheckRecorded(r)
    BY <2>7 DEF CheckRecorded, accountsVars, InOrder, Proceeds
  <2> QED
    BY <1>3, <2>1, <2>2, <2>3, <2>4, <2>5, <2>6, <2>7 DEF ApprovalStep
<1>4. ASSUME NEW r \in Threads, LockParty(r)
      PROVE  InOrder /\ Proceeds
  BY <1>4 DEF LockParty, LockRow, approvalsVars, InOrder, Proceeds
<1>5. ASSUME NEW r \in Threads, Abort(r) \/ AbortVictim(r) \/ SkipBonus(r)
      PROVE  InOrder /\ Proceeds
  <2>1. /\ op' = [op EXCEPT ![r] = "idle"] /\ tx' = tx
        /\ work' = [work EXCEPT ![r] = None]
    BY <1>5 DEF Abort, AbortVictim, DeadlockVictim, SkipBonus, RollBack, Forget, Finish
  <2> QED
    BY <1>2, <2>1
<1>6. ASSUME NEW r \in Threads, NEW u \in Users,
             \/ BeginSubmit(r, u) \/ BeginBackfill(r, u)
             \/ \E t \in Txs : BeginApprove(r, u, t)
      PROVE  InOrder /\ Proceeds
  <2>1. tx' = tx /\ (\E o \in {"submit", "backfill", "approve"} : op' = [op EXCEPT ![r] = o])
        /\ \A s \in Threads \ {r} : work'[s] = work[s]
    BY <1>6 DEF BeginSubmit, BeginBackfill, BeginApprove, Begin, approvalsVars
  <2> QED
    BY <2>1 DEF InOrder, Proceeds
<1>7. ASSUME NEW t \in Txs, Reject(t)
      PROVE  InOrder /\ Proceeds
  BY <1>7 DEF Reject, Pending, accountsVars, InOrder, Proceeds
<1>8. CASE UNCHANGED allApprovalsVars
  BY <1>8 DEF allApprovalsVars, accountsVars, approvalsVars, InOrder, Proceeds
<1> QED
  BY <1>3, <1>4, <1>5, <1>6, <1>7, <1>8 DEF ApprovalActivity

LEMMA InOrderConsecutive ==
    ASSUME Consecutive, Grows, InOrder
    PROVE  Consecutive'
BY DEF Consecutive, Grows, InOrder, Fresh

\* A thread that settles has its pending transaction locked, and only threads
\* at the operations H hold rows of users.
Exclusive(H) ==
    /\ \A r \in Threads : op[r] = "settle" =>
          txLock[work[r]] = r /\ tx[work[r]].status = "pending"
    /\ \A u \in Users : lock[u] # None => op[lock[u]] \in H

\* No decided row changes again.
Final == \A t \in Txs : tx[t].status \in {"approved", "rejected"} => tx'[t] = tx[t]

\* The threads at other operations are left alone.
Bystanders ==
    \A r \in Threads : op[r] \notin ApprovalOps \cup {"idle"} =>
        /\ op'[r] = op[r] /\ who'[r] = who[r] /\ want'[r] = want[r]
        /\ \A u \in Users : lock'[u] = r <=> lock[u] = r

\* What keeps Exclusive in a step of the one thread r.
LEMMA ServesExclusive ==
    ASSUME NEW Ops, Typed(Ops), NEW H, Exclusive(H), NEW r \in Threads, OthersServe(r),
           \A t \in Txs, s \in Threads \ {r} : txLock[t] = s => txLock'[t] = s,
           \A t \in Txs : \/ tx'[t] = tx[t] \/ tx[t].status # "pending"
                          \/ txLock[t] \in {None, r},
           \A u \in Users : lock'[u] = lock[u] \/ lock'[u] = r \/ (lock[u] = r /\ lock'[u] = None),
           \A u \in Users : lock'[u] = r => op'[r] \in H,
           op'[r] = "settle" => txLock'[work'[r]] = r /\ tx'[work'[r]].status = "pending"
    PROVE  Exclusive(H)'
<1> USE NoneIsNobody
<1>1. \A s \in Threads \ {r} : op'[s] = op[s] /\ work'[s] = work[s]
  BY DEF OthersServe
<1>2. \A s \in Threads : op'[s] = "settle" => txLock'[work'[s]] = s /\ tx'[work'[s]].status = "pending"
  <2> SUFFICES ASSUME NEW s \in Threads, op'[s] = "settle", s # r
               PROVE  txLock'[work'[s]] = s /\ tx'[work'[s]].status = "pending"
    OBVIOUS
  <2>1. op[s] = "settle" /\ work'[s] = work[s] /\ work[s] \in Txs
    BY <1>1 DEF Typed, Assigned
  <2>2. txLock[work[s]] = s /\ tx[work[s]].status = "pending"
    BY <2>1 DEF Exclusive
  <2> QED
    BY <2>1, <2>2
<1>3. \A u \in Users : lock'[u] # None => op'[lock'[u]] \in H
  <2> SUFFICES ASSUME NEW u \in Users, lock'[u] # None, lock'[u] # r
               PROVE  op'[lock'[u]] \in H
    OBVIOUS
  <2>1. lock'[u] = lock[u] /\ lock[u] \in Threads \ {r}
    BY DEF Typed, AccountsTypeOK
  <2> QED
    BY <1>1, <2>1 DEF Exclusive
<1> QED
  BY <1>2, <1>3 DEF Exclusive

\* The ends of requests.
LEMMA FinishExclusive ==
    ASSUME NEW Ops, Typed(Ops), NEW H, Exclusive(H), NEW r \in Threads, Finish(r),
           \A s \in Threads \ {r} : work'[s] = work[s],
           \A t \in Txs, s \in Threads \ {r} : txLock[t] = s => txLock'[t] = s,
           \A t \in Txs : \/ tx'[t] = tx[t] \/ tx[t].status # "pending"
                          \/ txLock[t] \in {None, r}
    PROVE  /\ Exclusive(H)' /\ OthersServe(r)
           /\ \A s \in Threads \ {r} : want'[s] = want[s]
           /\ \A u \in Users : /\ lock'[u] = lock[u] \/ (lock[u] = r /\ lock'[u] = None)
                               /\ lock'[u] # r
<1> USE NoneIsNobody
<1>1. /\ op' = [op EXCEPT ![r] = "idle"] /\ who' = [who EXCEPT ![r] = None]
      /\ want' = [want EXCEPT ![r] = None]
      /\ lock' = [u \in Users |-> IF lock[u] = r THEN None ELSE lock[u]]
  BY DEF Finish, Released
<1>2. OthersServe(r) /\ op'[r] = "idle" /\ \A s \in Threads \ {r} : want'[s] = want[s]
  BY <1>1 DEF OthersServe, Typed, AccountsTypeOK
<1>3. \A u \in Users : /\ lock'[u] = lock[u] \/ (lock[u] = r /\ lock'[u] = None)
                       /\ lock'[u] # r
  BY <1>1
<1> QED
  BY <1>2, <1>3, ServesExclusive

\* The same, for a thread at an operation of the approvals.
LEMMA OneThreadExclusive ==
    ASSUME NEW Ops, Typed(Ops), NEW H, Exclusive(H), NEW r \in Threads,
           op[r] \in ApprovalOps \cup {"idle"}, OthersServe(r),
           \A s \in Threads \ {r} : want'[s] = want[s],
           \A t \in Txs, s \in Threads \ {r} : txLock[t] = s => txLock'[t] = s,
           \A t \in Txs : \/ tx'[t] = tx[t] \/ tx[t].status # "pending"
                          \/ txLock[t] \in {None, r},
           \A u \in Users : lock'[u] = lock[u] \/ lock'[u] = r \/ (lock[u] = r /\ lock'[u] = None),
           \A u \in Users : lock'[u] = r => op'[r] \in H /\ lock[u] \in {None, r},
           op'[r] = "settle" => txLock'[work'[r]] = r /\ tx'[work'[r]].status = "pending",
           Final
    PROVE  Exclusive(H)' /\ Final /\ Bystanders
<1> USE NoneIsNobody
<1>1. Exclusive(H)'
  BY ServesExclusive
<1>2. \A s \in Threads \ {r} : op'[s] = op[s] /\ who'[s] = who[s]
  BY DEF OthersServe
<1>3. ASSUME NEW s \in Threads, op[s] \notin ApprovalOps \cup {"idle"}
      PROVE  s # r /\ s # None
  BY <1>3
<1>4. \A s \in Threads \ {r}, u \in Users : s # None => (lock'[u] = s <=> lock[u] = s)
  OBVIOUS
<1> QED
  BY <1>1, <1>2, <1>3, <1>4 DEF Bystanders

LEMMA EndExclusive ==
    ASSUME NEW Ops, Typed(Ops), NEW H, Exclusive(H), NEW r \in Threads,
           op[r] \in ApprovalOps, Finish(r),
           \A s \in Threads \ {r} : work'[s] = work[s],
           \A t \in Txs, s \in Threads \ {r} : txLock[t] = s => txLock'[t] = s,
           \A t \in Txs : \/ tx'[t] = tx[t] \/ tx[t].status # "pending"
                          \/ txLock[t] \in {None, r},
           Final
    PROVE  Exclusive(H)' /\ Final /\ Bystanders
<1>1. op'[r] = "idle"
  BY DEF Finish, Typed, AccountsTypeOK
<1> QED
  BY <1>1, FinishExclusive, OneThreadExclusive

LEMMA ActivityExclusive ==
    ASSUME NEW Ops, Typed(Ops), NEW H, Exclusive(H), "settle" \in H, "idle" \notin H,
           "approve" \notin H,
           \/ ApprovalActivity \/ (\E r \in Threads : SkipBonus(r))
           \/ UNCHANGED allApprovalsVars
    PROVE  Exclusive(H)' /\ Final /\ Bystanders
<1> USE NoneIsNobody
<1> DEFINE Goal == Exclusive(H)' /\ Final /\ Bystanders
<1>1. ASSUME UNCHANGED tx
      PROVE  Final
  BY <1>1 DEF Final
<1>2. ASSUME NEW r \in Threads, ApprovalStep(r) \/ LockParty(r) \/ Abort(r) \/ AbortVictim(r)
                                \/ SkipBonus(r)
      PROVE  Goal
  <2>1. ASSUME NEW x, Insert(r, x), op[r] = "submit"
        PROVE  Goal
    <3>1. PICK t \in Txs : Fresh(t) /\ tx' = [tx EXCEPT ![t] = x]
      BY <2>1 DEF Insert
    <3>2. /\ UNCHANGED <<txLock, work>> /\ Finish(r) /\ tx[t].status = "absent"
          /\ \A q \in Txs \ {t} : tx'[q] = tx[q]
      BY <2>1, <3>1 DEF Insert, Fresh, Typed, TransactionsTypeOK
    <3>3. Final
      BY <3>2 DEF Final
    <3>4. \A q \in Txs : tx'[q] = tx[q] \/ tx[q].status # "pending"
      BY <3>2
    <3> QED
      BY <2>1, <3>2, <3>3, <3>4, EndExclusive DEF ApprovalOps
  <2>2. CASE SubmitDeposit(r)
    BY <2>1, <2>2 DEF SubmitDeposit
  <2>3. CASE SubmitWithdrawal(r)
    BY <2>1, <2>3 DEF SubmitWithdrawal
  <2>4. CASE SubmitTransfer(r)
    <3>1. PICK a \in Amounts, v \in Users \ {who[r]} :
             Insert(r, NewTx("transfer", a, who[r], v))
      BY <2>4, Zenon DEF SubmitTransfer
    <3> QED
      BY <2>1, <2>4, <3>1 DEF SubmitTransfer
  <2>5. CASE RefuseSubmit(r) \/ Abort(r) \/ AbortVictim(r)
    <3>1. op[r] \in ApprovalOps /\ Finish(r) /\ UNCHANGED tx /\ Forget(r)
      BY <2>5 DEF RefuseSubmit, Abort, AbortVictim, DeadlockVictim, RollBack, Forget
    <3>2. \A s \in Threads \ {r} : work'[s] = work[s]
      BY <3>1 DEF Forget, Typed, TransactionsTypeOK
    <3>3. \A t \in Txs, s \in Threads \ {r} : txLock[t] = s => txLock'[t] = s
      BY <3>1 DEF Forget
    <3> QED
      BY <1>1, <3>1, <3>2, <3>3, EndExclusive
  <2>6. CASE RefuseDecided(r) \/ CommitBackfill(r) \/ SkipBonus(r)
    <3>1. op[r] \in ApprovalOps /\ Finish(r) /\ UNCHANGED <<tx, txLock>>
      BY <2>6 DEF RefuseDecided, CommitBackfill, SkipBonus, ApprovalOps
    <3>2. \A s \in Threads \ {r} : work'[s] = work[s]
      BY <2>6 DEF RefuseDecided, CommitBackfill, SkipBonus, Typed, TransactionsTypeOK
    <3> QED
      BY <1>1, <3>1, <3>2, EndExclusive
  <2>7. CASE RefuseUncovered(r)
    <3>1. /\ op[r] = "settle" /\ Finish(r) /\ UNCHANGED tx
          /\ txLock' = [txLock EXCEPT ![work[r]] = None]
          /\ work' = [work EXCEPT ![r] = None]
      BY <2>7 DEF RefuseUncovered
    <3>2. txLock[work[r]] = r /\ work[r] \in Txs
      BY <3>1 DEF Exclusive, Typed, Assigned
    <3>3. \A t \in Txs, s \in Threads \ {r} : txLock[t] = s => txLock'[t] = s
      BY <3>1, <3>2 DEF Typed, TransactionsTypeOK
    <3>4. \A s \in Threads \ {r} : work'[s] = work[s]
      BY <3>1 DEF Typed, TransactionsTypeOK
    <3> QED
      BY <1>1, <3>1, <3>3, <3>4, EndExclusive DEF ApprovalOps
  <2>8. CASE LockPending(r)
    <3>1. /\ op[r] = "approve" /\ txLock[work[r]] = None /\ tx[work[r]].status = "pending"
          /\ txLock' = [txLock EXCEPT ![work[r]] = r]
          /\ op' = [op EXCEPT ![r] = "settle"]
          /\ want' = [want EXCEPT ![r] = FirstParty(tx[work[r]])]
          /\ UNCHANGED <<lock, who, tx, work>>
      BY <2>8 DEF LockPending, Pending
    <3>2. work[r] \in Txs
      BY <3>1 DEF Typed, Assigned
    <3>3. OthersServe(r) /\ op'[r] = "settle" /\ \A s \in Threads \ {r} : want'[s] = want[s]
      BY <3>1 DEF OthersServe, Typed, AccountsTypeOK
    <3>4. txLock'[work[r]] = r /\ \A t \in Txs, s \in Threads \ {r} : txLock[t] = s => txLock'[t] = s
      BY <3>1, <3>2 DEF Typed, TransactionsTypeOK
    <3>5. \A u \in Users : lock'[u] = r => op'[r] \in H /\ lock[u] \in {None, r}
      BY <3>1, <3>3
    <3> QED
      BY <1>1, <3>1, <3>3, <3>4, <3>5, OneThreadExclusive DEF ApprovalOps
  <2>9. CASE LockParty(r)
    <3>1. /\ op[r] = "settle" /\ want[r] # None /\ lock[want[r]] = None
          /\ lock' = [lock EXCEPT ![want[r]] = r]
          /\ want' = [want EXCEPT ![r] = NextParty(tx[work[r]], want[r])]
          /\ UNCHANGED <<op, who, tx, txLock, work>>
      BY <2>9 DEF LockParty, LockRow, Free, approvalsVars
    <3>2. want[r] \in Users
      BY <3>1 DEF Typed, AccountsTypeOK
    <3>3. \A s \in Threads \ {r} : want'[s] = want[s]
      BY <3>1 DEF Typed, AccountsTypeOK
    <3>4. \A u \in Users : IF u = want[r] THEN lock[u] = None /\ lock'[u] = r ELSE lock'[u] = lock[u]
      BY <3>1, <3>2 DEF Typed, AccountsTypeOK
    <3>5. txLock'[work'[r]] = r /\ tx'[work'[r]].status = "pending"
      BY <3>1 DEF Exclusive
    <3>6. OthersServe(r)
      BY <3>1 DEF OthersServe
    <3> QED
      BY <1>1, <3>1, <3>3, <3>4, <3>5, <3>6, OneThreadExclusive DEF ApprovalOps
  <2>10. CASE CommitApproval(r)
    <3>1. /\ op[r] = "settle"
          /\ tx' = [tx EXCEPT ![work[r]].status = "approved"]
          /\ txLock' = [txLock EXCEPT ![work[r]] = None]
          /\ lock' = [u \in Users |-> IF lock[u] = r THEN None ELSE lock[u]]
          /\ op' = [op EXCEPT ![r] = "bonus"]
          /\ UNCHANGED <<who, want, work>>
      BY <2>10 DEF CommitApproval, Released
    <3>2. work[r] \in Txs /\ txLock[work[r]] = r /\ tx[work[r]].status = "pending"
      BY <3>1 DEF Exclusive, Typed, Assigned
    <3>3. \A t \in Txs \ {work[r]} : tx'[t] = tx[t] /\ txLock'[t] = txLock[t]
      BY <3>1 DEF Typed, TransactionsTypeOK
    <3>4. Final
      BY <3>2, <3>3 DEF Final
    <3>5. OthersServe(r) /\ op'[r] = "bonus"
      BY <3>1 DEF OthersServe, Typed, AccountsTypeOK
    <3>6. \A u \in Users : /\ lock'[u] = lock[u] \/ (lock[u] = r /\ lock'[u] = None)
                           /\ lock'[u] # r
      BY <3>1
    <3>7. /\ \A t \in Txs, s \in Threads \ {r} : txLock[t] = s => txLock'[t] = s
          /\ \A t \in Txs : tx'[t] = tx[t] \/ txLock[t] \in {None, r}
      BY <3>2, <3>3
    <3> QED
      BY <3>1, <3>4, <3>5, <3>6, <3>7, OneThreadExclusive DEF ApprovalOps
  <2>11. CASE CheckRecorded(r)
    BY <1>1, <2>11 DEF CheckRecorded, accountsVars, Exclusive, Bystanders
  <2> QED
    BY <1>2, <2>2, <2>3, <2>4, <2>5, <2>6, <2>7, <2>8, <2>9, <2>10, <2>11 DEF ApprovalStep
<1>3. ASSUME NEW r \in Threads, NEW u \in Users,
             \/ BeginSubmit(r, u) \/ BeginBackfill(r, u)
             \/ \E t \in Txs : BeginApprove(r, u, t)
      PROVE  Goal
  <2>1. /\ op[r] = "idle" /\ UNCHANGED <<lock, want, tx, txLock>>
        /\ \A s \in Threads \ {r} : op'[s] = op[s] /\ who'[s] = who[s] /\ work'[s] = work[s]
        /\ op'[r] \in {"submit", "backfill", "approve"}
    BY <1>3 DEF BeginSubmit, BeginBackfill, BeginApprove, Begin, approvalsVars,
                Typed, AccountsTypeOK, TransactionsTypeOK
  <2>2. \A q \in Users : lock'[q] # r
    BY <2>1 DEF Exclusive
  <2>3. OthersServe(r) /\ op'[r] # "settle" /\ Final
    BY <1>1, <2>1 DEF OthersServe
  <2> QED
    BY <2>1, <2>2, <2>3, OneThreadExclusive
<1>4. ASSUME NEW t \in Txs, Reject(t)
      PROVE  Goal
  <2>1. /\ txLock[t] = None /\ tx[t].status = "pending"
        /\ tx' = [tx EXCEPT ![t].status = "rejected"]
        /\ UNCHANGED <<lock, op, who, want, txLock, work>>
    BY <1>4 DEF Reject, Pending, accountsVars
  <2>2. \A q \in Txs \ {t} : tx'[q] = tx[q]
    BY <2>1 DEF Typed, TransactionsTypeOK
  <2>3. Final
    BY <2>1, <2>2 DEF Final
  <2>4. \A r \in Threads : op[r] = "settle" => work[r] \in Txs \ {t}
    BY <2>1 DEF Exclusive, Typed, Assigned
  <2>5. Exclusive(H)'
    BY <2>1, <2>2, <2>4 DEF Exclusive
  <2>6. Bystanders
    BY <2>1 DEF Bystanders
  <2> QED
    BY <2>3, <2>5, <2>6
<1>5. CASE UNCHANGED allApprovalsVars
  BY <1>1, <1>5 DEF allApprovalsVars, accountsVars, approvalsVars, Exclusive, Bystanders
<1> QED
  BY <1>2, <1>3, <1>4, <1>5 DEF ApprovalActivity
=============================================================================
