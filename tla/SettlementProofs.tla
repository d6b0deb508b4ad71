-------------------------- MODULE SettlementProofs --------------------------
(***************************************************************************)
(* Three results that rest on the invariant of ApprovalsProofs: the        *)
(* approval workflow implements Settlement for the bank's customers, the   *)
(* ledger explains every customer's balance, and it has every transaction  *)
(* once as long as one thread runs the backfill.                           *)
(***************************************************************************)
EXTENDS ApprovalsProofs, Reconciliation, SumProofs

-----------------------------------------------------------------------------
(* Implementing Settlement. *)

LEMMA EffectIsInteger ==
    ASSUME TransactionsTypeOK
    PROVE  CustomerEffect \in [Txs -> [Customers -> Int]]
<1>1. ASSUME NEW t \in Txs, NEW u \in Customers
      PROVE  Effect(tx[t], u) \in Int
  BY DEF TransactionsTypeOK, TxRow, Effect
<1> QED
  BY <1>1 DEF CustomerEffect

LEMMA InitImplements == ApprovalsInit => CustomerSettlement!Init
<1> SUFFICES ASSUME ApprovalsInit
             PROVE  CustomerSettlement!Init
  OBVIOUS
<1>1. TransactionsTypeOK
  BY InitInv DEF ApprovalsInv, ApprovalsTypeOK
<1>2. PICK owner \in [Legacy -> Users], amount \in [Legacy -> Amounts] :
         tx = [t \in Txs |-> IF t \in Legacy THEN LegacyTx(owner[t], amount[t]) ELSE NoTx]
  BY DEF ApprovalsInit
<1>3. \A t \in Txs : tx[t].status = IF t \in Legacy THEN "approved" ELSE "absent"
  BY <1>2 DEF LegacyTx, NewTx, NoTx
<1>4. balance = Opening
  BY DEF ApprovalsInit, AccountsInit
<1> QED
  BY <1>1, <1>3, <1>4, EffectIsInteger DEF CustomerSettlement!Init

\* A step that leaves balances and rows alone is invisible.
LEMMA InvisibleStep ==
    ASSUME UNCHANGED <<balance, tx>>
    PROVE  UNCHANGED CustomerSettlement!settlementVars
<1>1. UNCHANGED CustomerEffect
  BY DEF CustomerEffect, Effect
<1> QED
  BY <1>1 DEF CustomerSettlement!settlementVars

\* A recorded request is a submission.
LEMMA InsertImplements ==
    ASSUME ApprovalsInv, NEW r \in Threads, NEW x, x.status = "pending",
           Insert(r, x), TransactionsTypeOK'
    PROVE  CustomerSettlement!Next
<1>1. PICK t \in Txs : Fresh(t) /\ tx' = [tx EXCEPT ![t] = x]
  BY DEF Insert
<1>2. TransactionsTypeOK /\ balance' = balance
  BY DEF ApprovalsInv, ApprovalsTypeOK, Insert
<1>3. tx[t].status = "absent"
  BY <1>1 DEF Fresh
<1>4. /\ tx'[t] = x
      /\ \A q \in Txs : q # t => tx'[q] = tx[q]
  BY <1>1, <1>2 DEF TransactionsTypeOK
<1>5. \A q \in Txs : q # t => CustomerEffect'[q] = CustomerEffect[q]
  BY <1>4 DEF CustomerEffect, Effect
<1>6. CustomerEffect' \in [Txs -> [Customers -> Int]]
  <2>1. ASSUME NEW q \in Txs, NEW u \in Customers
        PROVE  Effect(tx'[q], u) \in Int
    BY <1>2 DEF TransactionsTypeOK, TxRow, Effect
  <2> QED
    BY <2>1 DEF CustomerEffect, Effect
<1>7. CustomerEffect \in [Txs -> [Customers -> Int]]
  BY <1>2, EffectIsInteger
<1>8. CustomerEffect' = [CustomerEffect EXCEPT ![t] = CustomerEffect'[t]]
  BY <1>5, <1>6, <1>7
<1>9. CustomerSettlement!Submit(t)
  BY <1>2, <1>3, <1>4, <1>6, <1>8 DEF CustomerSettlement!Submit
<1> QED
  BY <1>9 DEF CustomerSettlement!Next

\* A decision changes a status and no effect.
LEMMA DecisionKeepsEffect ==
    ASSUME ApprovalsInv, NEW t \in Txs, NEW s \in {"approved", "rejected"},
           tx[t].status # "absent",
           tx' = [tx EXCEPT ![t].status = s]
    PROVE  /\ CustomerEffect' = CustomerEffect
           /\ [q \in Txs |-> tx'[q].status] =
                 [[q \in Txs |-> tx[q].status] EXCEPT ![t] = s]
<1>1. tx \in [Txs -> TxRow]
  BY DEF ApprovalsInv, ApprovalsTypeOK, TransactionsTypeOK
<1>2. /\ \A q \in Txs : q # t => tx'[q] = tx[q]
      /\ tx'[t].status = s
      /\ tx'[t].amount = tx[t].amount
      /\ tx'[t].sender = tx[t].sender
      /\ tx'[t].receiver = tx[t].receiver
  BY <1>1 DEF TxRow
<1>3. \A q \in Txs : /\ tx'[q].status = "absent" <=> tx[q].status = "absent"
                     /\ tx'[q].amount = tx[q].amount
                     /\ tx'[q].sender = tx[q].sender
                     /\ tx'[q].receiver = tx[q].receiver
  BY <1>2
<1>4. CustomerEffect' = CustomerEffect
  BY <1>3 DEF CustomerEffect, Effect
<1>5. \A q \in Txs : tx'[q].status = IF q = t THEN s ELSE tx[q].status
  BY <1>2
<1>6. [q \in Txs |-> tx'[q].status] = [[q \in Txs |-> tx[q].status] EXCEPT ![t] = s]
  BY <1>5
<1> QED
  BY <1>4, <1>6

\* An approval is one: the balances it read of the customers it holds are the
\* committed ones, since the admin who decides is not a customer.
LEMMA ApprovalImplements ==
    ASSUME ApprovalsInv, NEW r \in Threads, CommitApproval(r)
    PROVE  CustomerSettlement!Next
<1> USE NoneIsNobody
<1>1. op[r] = "settle"
  BY DEF CommitApproval
<1>2. PICK t \in Txs :
         /\ t = work[r]
         /\ tx' = [tx EXCEPT ![t].status = "approved"]
         /\ tx[t].status = "pending"
         /\ who[r] \in Admins
  BY <1>1 DEF ApprovalsInv, Requests, Settling, CommitApproval
<1> DEFINE x == tx[t]
<1>3. \A u \in Parties(x) : lock[u] = r /\ view[r][u] + Effect(x, u) \in Nat
  BY <1>2, ApprovedBalances
<1>4. balance \in [Users -> Int] /\ Customers \subseteq Users
  BY DEF ApprovalsInv, ApprovalsTypeOK, AccountsTypeOK, Customers
<1>5. balance' = [u \in Users |->
         IF u \in Parties(x) THEN view[r][u] + Effect(x, u) ELSE balance[u]]
  BY <1>2 DEF CommitApproval
<1>6. ASSUME NEW u \in Customers
      PROVE  /\ balance'[u] = balance[u] + Effect(x, u)
             /\ Effect(x, u) < 0 => balance[u] + Effect(x, u) >= 0
  <2>1. CASE u \in Parties(x)
    <3>1. lock[u] = r /\ who[r] # u
      BY <1>2, <1>3, <2>1 DEF Customers
    <3>2. view[r][u] = balance[u]
      BY <1>4, <3>1 DEF ApprovalsInv, LockedViewFresh
    <3> QED
      BY <1>3, <1>4, <1>5, <2>1, <3>2
  <2>2. CASE u \notin Parties(x)
    <3>1. Effect(x, u) = 0
      BY <1>4, <2>2 DEF Effect, Parties
    <3> QED
      BY <1>4, <1>5, <2>2, <3>1
  <2> QED
    BY <2>1, <2>2
<1>7. /\ CustomerEffect' = CustomerEffect
      /\ [q \in Txs |-> tx'[q].status] =
            [[q \in Txs |-> tx[q].status] EXCEPT ![t] = "approved"]
  BY <1>2, DecisionKeepsEffect
<1>8. \A u \in Customers : CustomerEffect[t][u] = Effect(x, u)
  BY <1>2 DEF CustomerEffect
<1>9. CustomerSettlement!Approve(t)
  BY <1>2, <1>4, <1>6, <1>7, <1>8 DEF CustomerSettlement!Approve
<1> QED
  BY <1>9 DEF CustomerSettlement!Next

LEMMA RejectImplements ==
    ASSUME ApprovalsInv, NEW t \in Txs, Reject(t)
    PROVE  CustomerSettlement!Next
<1>1. /\ tx[t].status = "pending"
      /\ tx' = [tx EXCEPT ![t].status = "rejected"]
      /\ balance' = balance
  BY DEF Reject, Pending, accountsVars
<1>2. /\ CustomerEffect' = CustomerEffect
      /\ [q \in Txs |-> tx'[q].status] =
            [[q \in Txs |-> tx[q].status] EXCEPT ![t] = "rejected"]
  BY <1>1, DecisionKeepsEffect
<1>3. CustomerSettlement!Reject(t)
  BY <1>1, <1>2 DEF CustomerSettlement!Reject
<1> QED
  BY <1>3 DEF CustomerSettlement!Next

LEMMA StepImplements ==
    ASSUME ApprovalsInv, ApprovalsTypeOK', [ApprovalsNext]_allApprovalsVars
    PROVE  [CustomerSettlement!Next]_(CustomerSettlement!settlementVars)
<1>1. TransactionsTypeOK'
  BY DEF ApprovalsTypeOK
<1>2. ASSUME NEW r \in Threads, SubmitDeposit(r) \/ SubmitWithdrawal(r) \/ SubmitTransfer(r)
      PROVE  CustomerSettlement!Next
  <2>1. PICK x : x.status = "pending" /\ Insert(r, x)
    BY <1>2 DEF SubmitDeposit, SubmitWithdrawal, SubmitTransfer, NewTx
  <2> QED
    BY <1>1, <2>1, InsertImplements
<1>3. ASSUME NEW r \in Threads, CommitApproval(r)
      PROVE  CustomerSettlement!Next
  BY <1>3, ApprovalImplements
<1>4. ASSUME NEW t \in Txs, Reject(t)
      PROVE  CustomerSettlement!Next
  BY <1>4, RejectImplements
<1>5. ASSUME NEW r \in Threads,
             \/ RefuseSubmit(r) \/ LockPending(r) \/ RefuseDecided(r) \/ RefuseUncovered(r)
             \/ CheckRecorded(r) \/ CommitBackfill(r) \/ LockParty(r) \/ SkipBonus(r)
             \/ Abort(r) \/ AbortVictim(r)
      PROVE  UNCHANGED <<balance, tx>>
  BY <1>5 DEF RefuseSubmit, LockPending, RefuseDecided, RefuseUncovered, CheckRecorded,
              CommitBackfill, LockParty, LockRow, SkipBonus, Abort, AbortVictim,
              DeadlockVictim, RollBack, Forget, accountsVars, approvalsVars
<1>6. ASSUME NEW r \in Threads, NEW u \in Users,
             \/ BeginSubmit(r, u) \/ BeginBackfill(r, u)
             \/ \E t \in Txs : BeginApprove(r, u, t)
      PROVE  UNCHANGED <<balance, tx>>
  BY <1>6 DEF BeginSubmit, BeginBackfill, BeginApprove, approvalsVars
<1>7. CASE UNCHANGED allApprovalsVars
  BY <1>7, InvisibleStep DEF allApprovalsVars, accountsVars, approvalsVars
<1>8. CASE ApprovalsNext
  BY <1>2, <1>3, <1>4, <1>5, <1>6, <1>8, InvisibleStep
  DEF ApprovalsNext, ApprovalActivity, ApprovalStep
<1> QED
  BY <1>7, <1>8

\* For its customers the approval workflow is Settlement: a transaction is
\* decided once, and the approval that decides it moves exactly its amount, in
\* that step, and never below zero, whatever threads, locks and cached sessions do.
THEOREM ApprovalsImplementSettlement == ApprovalsSpec => ImplementsSettlement
<1>1. ApprovalsInv => ApprovalsTypeOK
  BY DEF ApprovalsInv
<1>2. ApprovalsInv /\ ApprovalsTypeOK' /\ [ApprovalsNext]_allApprovalsVars
      => [CustomerSettlement!Next]_(CustomerSettlement!settlementVars)
  BY StepImplements
<1>3. ApprovalsSpec => CustomerSettlement!Spec
  BY <1>1, <1>2, InitImplements, ApprovalsInvariance, PTL
  DEF ApprovalsSpec, CustomerSettlement!Spec
<1> QED
  BY <1>3 DEF ImplementsSettlement

-----------------------------------------------------------------------------
(* One entry per transaction.  The backfill looks the deposits up in one    *)
(* query each and posts them later: it never repeats an entry of the        *)
(* ledger's own time, but two threads that run it repeat the older ones.    *)

\* What the backfill relies on: it looks at approved deposits only, those it is
\* about to post are older than the ledger, and the ledger has every younger
\* transaction exactly once.
Posting ==
    /\ \A t \in Txs \ Legacy :
          posted[t] = IF tx[t].status = "approved" /\ tx[t].kind \in LedgerKinds
                      THEN 1 ELSE 0
    /\ \A t \in Legacy : tx[t].kind = "deposit" /\ tx[t].status = "approved"
    /\ \A r \in Threads :
          /\ scan[r] \subseteq ApprovedDeposits
          /\ batch[r] \subseteq Legacy
          /\ op[r] # "backfill" => batch[r] = {}
          /\ op[r] = "backfill" => r \in Backfillers

\* What is left to show of a step, once the ledger entries are accounted for:
\* each thread's lists are as they were, or meet their conditions anew.
LEMMA PostingFrame ==
    ASSUME Posting,
           \A t \in Txs \ Legacy :
              posted'[t] = IF tx'[t].status = "approved" /\ tx'[t].kind \in LedgerKinds
                           THEN 1 ELSE 0,
           \A t \in Legacy : tx'[t].kind = "deposit" /\ tx'[t].status = "approved",
           ApprovedDeposits \subseteq ApprovedDeposits',
           \A s \in Threads :
              \/ op'[s] = op[s] /\ scan'[s] = scan[s] /\ batch'[s] = batch[s]
              \/ /\ scan'[s] \subseteq ApprovedDeposits'
                 /\ batch'[s] \subseteq Legacy
                 /\ op'[s] # "backfill" => batch'[s] = {}
                 /\ op'[s] = "backfill" => s \in Backfillers
    PROVE  Posting'
<1>1. ASSUME NEW s \in Threads
      PROVE  /\ scan'[s] \subseteq ApprovedDeposits'
             /\ batch'[s] \subseteq Legacy
             /\ op'[s] # "backfill" => batch'[s] = {}
             /\ op'[s] = "backfill" => s \in Backfillers
  BY DEF Posting
<1> QED
  BY <1>1 DEF Posting

LEMMA InitPosting == ApprovalsInit => Posting
<1> SUFFICES ASSUME ApprovalsInit
             PROVE  Posting
  OBVIOUS
<1>1. /\ \A t \in Txs : tx[t].status = IF t \in Legacy THEN "approved" ELSE "absent"
      /\ \A t \in Txs : tx[t].kind = "deposit"
  BY DEF ApprovalsInit, LegacyTx, NewTx, NoTx
<1> QED
  BY <1>1, ApprovalsAssumption
  DEF ApprovalsInit, AccountsInit, Posting

\* Steps that neither decide nor post.
LEMMA QuietStepKeepsPosting ==
    ASSUME ApprovalsInv, Posting, NEW r \in Threads,
           UNCHANGED <<tx, posted>>,
           \A s \in Threads : s # r => op'[s] = op[s] /\ scan'[s] = scan[s] /\ batch'[s] = batch[s],
           scan'[r] \subseteq ApprovedDeposits,
           batch'[r] = {},
           op'[r] = "backfill" => r \in Backfillers
    PROVE  Posting'
<1>1. /\ ApprovedDeposits' = ApprovedDeposits
      /\ \A t \in Legacy : tx'[t].kind = "deposit" /\ tx'[t].status = "approved"
      /\ \A t \in Txs \ Legacy :
            posted'[t] = IF tx'[t].status = "approved" /\ tx'[t].kind \in LedgerKinds
                         THEN 1 ELSE 0
  BY DEF Posting, ApprovedDeposits
<1> QED
  BY <1>1, PostingFrame

LEMMA UnpostingStepsKeepPosting ==
    ASSUME ApprovalsInv, Posting, NEW r \in Threads,
           \/ \E u \in Users : \/ BeginSubmit(r, u) \/ BeginBackfill(r, u)
                               \/ \E t \in Txs : BeginApprove(r, u, t)
           \/ LockPending(r) \/ LockParty(r) \/ RefuseDecided(r) \/ RefuseUncovered(r)
           \/ SkipBonus(r) \/ Abort(r)
    PROVE  Posting'
<1>1. /\ op \in [Threads -> ApprovalOps \cup {"idle"}]
      /\ scan \in [Threads -> SUBSET Txs] /\ batch \in [Threads -> SUBSET Txs]
  BY DEF ApprovalsInv, ApprovalsTypeOK, AccountsTypeOK, TransactionsTypeOK
<1>2. scan[r] \subseteq ApprovedDeposits /\ (op[r] # "backfill" => batch[r] = {})
  BY DEF Posting
<1>3. CASE \E u \in Users : BeginBackfill(r, u)
  BY <1>1, <1>2, <1>3, QuietStepKeepsPosting DEF BeginBackfill, Begin
<1>4. CASE \E u \in Users : BeginSubmit(r, u) \/ \E t \in Txs : BeginApprove(r, u, t)
  BY <1>1, <1>2, <1>4, QuietStepKeepsPosting DEF BeginSubmit, BeginApprove, Begin, approvalsVars
<1>5. CASE LockPending(r) \/ LockParty(r)
  BY <1>1, <1>2, <1>5, QuietStepKeepsPosting DEF LockPending, LockParty, LockRow, approvalsVars
<1>6. CASE RefuseDecided(r) \/ RefuseUncovered(r) \/ SkipBonus(r)
  BY <1>1, <1>2, <1>6, QuietStepKeepsPosting
  DEF RefuseDecided, RefuseUncovered, SkipBonus, Finish
<1>7. CASE Abort(r)
  BY <1>1, <1>2, <1>7, QuietStepKeepsPosting DEF Abort, RollBack, Finish, Forget
<1> QED
  BY <1>3, <1>4, <1>5, <1>6, <1>7

LEMMA InsertKeepsPosting ==
    ASSUME ApprovalsInv, Posting, NEW r \in Threads, op[r] = "submit",
           NEW x, x.status = "pending", Insert(r, x)
    PROVE  Posting'
<1>1. PICK t \in Txs : Fresh(t) /\ tx' = [tx EXCEPT ![t] = x]
  BY DEF Insert
<1>2. /\ tx[t].status = "absent"
      /\ tx'[t] = x
      /\ \A q \in Txs : q # t => tx'[q] = tx[q]
  BY <1>1 DEF Fresh, ApprovalsInv, ApprovalsTypeOK, TransactionsTypeOK
<1>3. t \notin Legacy
  BY <1>2 DEF Posting
<1>4. UNCHANGED <<posted, scan, batch>> /\ op' = [op EXCEPT ![r] = "idle"]
  BY DEF Insert, Finish
<1>5. \A q \in Txs \ Legacy :
         posted'[q] = IF tx'[q].status = "approved" /\ tx'[q].kind \in LedgerKinds
                      THEN 1 ELSE 0
  BY <1>2, <1>3, <1>4 DEF Posting
<1>6. ApprovedDeposits \subseteq ApprovedDeposits'
  BY <1>2 DEF ApprovedDeposits
<1>7. \A q \in Legacy : tx'[q].kind = "deposit" /\ tx'[q].status = "approved"
  BY <1>2, <1>3, ApprovalsAssumption DEF Posting
<1>8. op'[r] = "idle" /\ \A s \in Threads : s # r => op'[s] = op[s]
  BY <1>4 DEF ApprovalsInv, ApprovalsTypeOK, AccountsTypeOK
<1>9. batch[r] = {} /\ scan[r] \subseteq ApprovedDeposits
  BY DEF Posting
<1> QED
  BY <1>4, <1>5, <1>6, <1>7, <1>8, <1>9, PostingFrame

\* The approval posts its own transaction, which was pending and so unposted.
LEMMA ApprovalKeepsPosting ==
    ASSUME ApprovalsInv, Posting, NEW r \in Threads, CommitApproval(r)
    PROVE  Posting'
<1>1. op[r] = "settle"
  BY DEF CommitApproval
<1>2. PICK t \in Txs :
         /\ t = work[r]
         /\ tx[t].status = "pending"
         /\ tx' = [tx EXCEPT ![t].status = "approved"]
         /\ posted' = [posted EXCEPT ![t] =
               IF tx[t].kind \in LedgerKinds /\ ~AlreadyRecorded(t) THEN @ + 1 ELSE @]
  BY <1>1 DEF ApprovalsInv, Requests, Settling, CommitApproval
<1>3. tx \in [Txs -> TxRow] /\ posted \in [Txs -> Nat]
  BY DEF ApprovalsInv, ApprovalsTypeOK, TransactionsTypeOK
<1>4. t \notin Legacy /\ posted[t] = 0
  BY <1>2 DEF Posting
<1>5. /\ tx'[t].status = "approved" /\ tx'[t].kind = tx[t].kind
      /\ \A q \in Txs : q # t => tx'[q] = tx[q] /\ posted'[q] = posted[q]
      /\ posted'[t] = IF tx[t].kind \in LedgerKinds THEN 1 ELSE 0
  BY <1>2, <1>3, <1>4 DEF AlreadyRecorded, TxRow
<1>6. \A q \in Txs \ Legacy :
         posted'[q] = IF tx'[q].status = "approved" /\ tx'[q].kind \in LedgerKinds
                      THEN 1 ELSE 0
  BY <1>4, <1>5 DEF Posting
<1>7. ApprovedDeposits \subseteq ApprovedDeposits'
  BY <1>2, <1>5 DEF ApprovedDeposits
<1>8. \A q \in Legacy : tx'[q].kind = "deposit" /\ tx'[q].status = "approved"
  BY <1>4, <1>5, ApprovalsAssumption DEF Posting
<1>9. UNCHANGED <<scan, batch>> /\ op'[r] = "bonus" /\ \A s \in Threads : s # r => op'[s] = op[s]
  BY DEF CommitApproval, ApprovalsInv, ApprovalsTypeOK, AccountsTypeOK
<1>10. batch[r] = {} /\ scan[r] \subseteq ApprovedDeposits
  BY <1>1 DEF Posting
<1> QED
  BY <1>6, <1>7, <1>8, <1>9, <1>10, PostingFrame

LEMMA RejectKeepsPosting ==
    ASSUME ApprovalsInv, Posting, NEW t \in Txs, Reject(t)
    PROVE  Posting'
<1>1. /\ tx[t].status = "pending"
      /\ tx' = [tx EXCEPT ![t].status = "rejected"]
      /\ UNCHANGED <<op, posted, scan, batch>>
  BY DEF Reject, Pending, accountsVars
<1>2. tx \in [Txs -> TxRow]
  BY DEF ApprovalsInv, ApprovalsTypeOK, TransactionsTypeOK
<1>3. tx'[t].status = "rejected" /\ \A q \in Txs : q # t => tx'[q] = tx[q]
  BY <1>1, <1>2 DEF TxRow
<1>4. t \notin Legacy /\ posted[t] = 0
  BY <1>1 DEF Posting
<1>5. \A q \in Txs \ Legacy :
         posted'[q] = IF tx'[q].status = "approved" /\ tx'[q].kind \in LedgerKinds
                      THEN 1 ELSE 0
  BY <1>1, <1>3, <1>4 DEF Posting
<1>6. ApprovedDeposits \subseteq ApprovedDeposits'
  BY <1>1, <1>3 DEF ApprovedDeposits
<1>7. \A q \in Legacy : tx'[q].kind = "deposit" /\ tx'[q].status = "approved"
  BY <1>3, <1>4, ApprovalsAssumption DEF Posting
<1> QED
  BY <1>1, <1>5, <1>6, <1>7, PostingFrame

\* A deposit found unposted is one of before the ledger.
LEMMA CheckKeepsPosting ==
    ASSUME ApprovalsInv, Posting, NEW r \in Threads, CheckRecorded(r)
    PROVE  Posting'
<1>1. PICK t \in scan[r] :
         /\ scan' = [scan EXCEPT ![r] = @ \ {t}]
         /\ batch' = [batch EXCEPT ![r] = IF AlreadyRecorded(t) THEN @ ELSE @ \cup {t}]
  BY DEF CheckRecorded
<1>2. op[r] = "backfill" /\ UNCHANGED <<op, tx, posted>>
  BY DEF CheckRecorded, accountsVars
<1>3. /\ scan \in [Threads -> SUBSET Txs] /\ batch \in [Threads -> SUBSET Txs]
      /\ posted \in [Txs -> Nat]
  BY DEF ApprovalsInv, ApprovalsTypeOK, TransactionsTypeOK
<1>4. ~AlreadyRecorded(t) => t \in Legacy
  <2>1. t \in Txs /\ tx[t].kind = "deposit" /\ tx[t].status = "approved"
    BY DEF Posting, ApprovedDeposits
  <2> QED
    BY <1>3, <2>1 DEF Posting, AlreadyRecorded, LedgerKinds
<1>5. /\ scan'[r] \subseteq ApprovedDeposits
      /\ batch'[r] \subseteq Legacy
      /\ \A s \in Threads : s # r => scan'[s] = scan[s] /\ batch'[s] = batch[s]
  BY <1>1, <1>3, <1>4 DEF Posting
<1>6. /\ ApprovedDeposits' = ApprovedDeposits
      /\ \A q \in Txs \ Legacy :
               posted'[q] = IF tx'[q].status = "approved" /\ tx'[q].kind \in LedgerKinds
                            THEN 1 ELSE 0
  BY <1>2 DEF Posting, ApprovedDeposits
<1>7. (\A q \in Legacy : tx'[q].kind = "deposit" /\ tx'[q].status = "approved") /\ r \in Backfillers
  BY <1>2 DEF Posting
<1> QED
  BY <1>2, <1>5, <1>6, <1>7, PostingFrame

\* The batch posted is of deposits older than the ledger.
LEMMA BackfillKeepsPosting ==
    ASSUME ApprovalsInv, Posting, NEW r \in Threads, CommitBackfill(r)
    PROVE  Posting'
<1>1. /\ posted' = [t \in Txs |-> IF t \in batch[r] THEN posted[t] + 1 ELSE posted[t]]
      /\ batch' = [batch EXCEPT ![r] = {}]
      /\ op' = [op EXCEPT ![r] = "idle"]
      /\ UNCHANGED <<tx, scan>>
  BY DEF CommitBackfill, Finish
<1>2. /\ op'[r] = "idle" /\ batch'[r] = {}
      /\ \A s \in Threads : s # r => op'[s] = op[s] /\ batch'[s] = batch[s]
  BY <1>1 DEF ApprovalsInv, ApprovalsTypeOK, AccountsTypeOK, TransactionsTypeOK
<1>3. batch[r] \subseteq Legacy /\ scan'[r] \subseteq ApprovedDeposits
  BY <1>1 DEF Posting
<1>4. \A q \in Txs \ Legacy :
         posted'[q] = IF tx'[q].status = "approved" /\ tx'[q].kind \in LedgerKinds
                      THEN 1 ELSE 0
  BY <1>1, <1>3 DEF Posting
<1>5. ApprovedDeposits' = ApprovedDeposits /\ \A t \in Legacy : tx'[t].kind = "deposit" /\ tx'[t].status = "approved"
  BY <1>1 DEF Posting, ApprovedDeposits
<1> QED
  BY <1>1, <1>2, <1>3, <1>4, <1>5, PostingFrame

LEMMA StepPosting ==
    ASSUME ApprovalsInv, Posting, [ApprovalsNext]_allApprovalsVars
    PROVE  Posting'
<1>1. ASSUME NEW r \in Threads, SubmitDeposit(r) \/ SubmitWithdrawal(r) \/ SubmitTransfer(r)
      PROVE  Posting'
  <2>1. op[r] = "submit" /\ \E x : x.status = "pending" /\ Insert(r, x)
    BY <1>1 DEF SubmitDeposit, SubmitWithdrawal, SubmitTransfer, NewTx
  <2> QED
    BY <2>1, InsertKeepsPosting
<1>2. ASSUME NEW r \in Threads,
             \/ \E u \in Users : \/ BeginSubmit(r, u) \/ BeginBackfill(r, u)
                                 \/ \E t \in Txs : BeginApprove(r, u, t)
             \/ LockPending(r) \/ LockParty(r) \/ RefuseDecided(r) \/ RefuseUncovered(r)
             \/ SkipBonus(r) \/ Abort(r)
      PROVE  Posting'
  BY <1>2, UnpostingStepsKeepPosting
<1>3. \A r \in Threads : RefuseSubmit(r) \/ AbortVictim(r) => Abort(r)
  BY DEF RefuseSubmit, AbortVictim, DeadlockVictim, Abort
<1>4. ASSUME NEW r \in Threads, CommitApproval(r)
      PROVE  Posting'
  BY <1>4, ApprovalKeepsPosting
<1>5. ASSUME NEW t \in Txs, Reject(t)
      PROVE  Posting'
  BY <1>5, RejectKeepsPosting
<1>6. ASSUME NEW r \in Threads, CheckRecorded(r) \/ CommitBackfill(r)
      PROVE  Posting'
  BY <1>6, CheckKeepsPosting, BackfillKeepsPosting
<1>7. CASE UNCHANGED allApprovalsVars
  BY <1>7 DEF allApprovalsVars, accountsVars, approvalsVars, Posting,
              ApprovedDeposits
<1> QED
  BY <1>1, <1>2, <1>3, <1>4, <1>5, <1>6, <1>7
  DEF ApprovalsNext, ApprovalActivity, ApprovalStep

LEMMA PostingInvariance == ApprovalsSpec => []Posting
<1>1. ApprovalsInv /\ Posting /\ [ApprovalsNext]_allApprovalsVars => Posting'
  BY StepPosting
<1> QED
  BY <1>1, InitPosting, ApprovalsInvariance, PTL DEF ApprovalsSpec

-----------------------------------------------------------------------------
(* The ledger explains the balance. *)

\* What the approval of t has added to u's balance so far; the deposits older
\* than the ledger are in the opening balance.
Settled(u) ==
    [t \in Txs |-> IF t \notin Legacy /\ tx[t].status = "approved"
                   THEN Effect(tx[t], u) ELSE 0]

Explained ==
    \A u \in Customers : balance[u] = Opening[u] + SumFunctionOnSet(Settled(u), Txs)

LEMMA TxsFinite == IsFiniteSet(Txs)
BY ApprovalsAssumption, FS_Interval DEF Txs

LEMMA SettledType ==
    ASSUME ApprovalsTypeOK, NEW u \in Customers
    PROVE  \A t \in Txs : Settled(u)[t] \in Int /\ Effect(tx[t], u) \in Int
<1>1. \A t \in Txs : Effect(tx[t], u) \in Int
  BY DEF ApprovalsTypeOK, TransactionsTypeOK, TxRow, Effect
<1> QED
  BY <1>1 DEF Settled

\* Nothing is settled by a step that approves nothing.
LEMMA ExplainedFrame ==
    ASSUME ApprovalsTypeOK, ApprovalsTypeOK', Explained,
           \A u \in Customers :
              balance'[u] = balance[u] /\ \A t \in Txs : Settled(u)'[t] = Settled(u)[t]
    PROVE  Explained'
<1> SUFFICES ASSUME NEW u \in Customers
             PROVE  balance'[u] = Opening[u] + SumFunctionOnSet(Settled(u)', Txs)
  BY DEF Explained
<1>1. SumFunctionOnSet(Settled(u)', Txs) = SumFunctionOnSet(Settled(u), Txs)
  BY TxsFinite, SettledType, SumSame
<1> QED
  BY <1>1 DEF Explained

\* The steps of Settlement, which an approval step is for the customers.
LEMMA StepExplained ==
    ASSUME ApprovalsInv, ApprovalsInv', Posting, Posting', Explained,
           [CustomerSettlement!Next]_(CustomerSettlement!settlementVars)
    PROVE  Explained'
<1>1. ApprovalsTypeOK /\ ApprovalsTypeOK'
  BY DEF ApprovalsInv
<1>2. \A u \in Customers : \A t \in Txs :
         /\ Settled(u)[t] = IF t \notin Legacy /\ tx[t].status = "approved"
                            THEN CustomerEffect[t][u] ELSE 0
         /\ Settled(u)'[t] = IF t \notin Legacy /\ tx'[t].status = "approved"
                             THEN CustomerEffect'[t][u] ELSE 0
  BY DEF Settled, CustomerEffect
<1>3. CASE UNCHANGED CustomerSettlement!settlementVars
  <2>1. /\ \A u \in Customers : balance'[u] = balance[u]
        /\ \A t \in Txs : tx'[t].status = tx[t].status
        /\ CustomerEffect' = CustomerEffect
    BY <1>3 DEF CustomerSettlement!settlementVars
  <2> QED
    BY <1>1, <1>2, <2>1, ExplainedFrame
<1>4. ASSUME NEW t \in Txs, CustomerSettlement!Submit(t)
      PROVE  Explained'
  <2>1. /\ \A u \in Customers : balance'[u] = balance[u]
        /\ tx[t].status = "absent" /\ tx'[t].status = "pending"
        /\ \A q \in Txs : q # t => /\ tx'[q].status = tx[q].status
                                   /\ CustomerEffect'[q] = CustomerEffect[q]
    BY <1>4 DEF CustomerSettlement!Submit, CustomerEffect
  <2> QED
    BY <1>1, <1>2, <2>1, ExplainedFrame
<1>5. ASSUME NEW t \in Txs, CustomerSettlement!Reject(t)
      PROVE  Explained'
  <2>1. /\ \A u \in Customers : balance'[u] = balance[u]
        /\ tx[t].status = "pending" /\ tx'[t].status = "rejected"
        /\ \A q \in Txs : q # t => tx'[q].status = tx[q].status
        /\ CustomerEffect' = CustomerEffect
    BY <1>5 DEF CustomerSettlement!Reject
  <2> QED
    BY <1>1, <1>2, <2>1, ExplainedFrame
<1>6. ASSUME NEW t \in Txs, CustomerSettlement!Approve(t)
      PROVE  Explained'
  <2>1. /\ \A u \in Customers : balance'[u] = balance[u] + CustomerEffect[t][u]
        /\ tx[t].status = "pending" /\ tx'[t].status = "approved"
        /\ \A q \in Txs : q # t => tx'[q].status = tx[q].status
        /\ CustomerEffect' = CustomerEffect
    BY <1>6 DEF CustomerSettlement!Approve
  <2>2. t \notin Legacy
    BY <2>1 DEF Posting
  <2> SUFFICES ASSUME NEW u \in Customers
               PROVE  balance'[u] = Opening[u] + SumFunctionOnSet(Settled(u)', Txs)
    BY DEF Explained
  <2>3. /\ \A q \in Txs \ {t} : Settled(u)'[q] = Settled(u)[q]
        /\ Settled(u)[t] = 0
        /\ Settled(u)'[t] = CustomerEffect[t][u]
    BY <1>2, <2>1, <2>2
  <2>4. \A q \in Txs : Settled(u)[q] \in Int /\ Settled(u)'[q] \in Int
    <3>1. \A q \in Txs : Settled(u)[q] \in Int
      BY <1>1, SettledType
    <3>2. CustomerEffect[t][u] \in Int
      BY <1>1, EffectIsInteger DEF ApprovalsTypeOK
    <3> QED
      BY <2>3, <3>1, <3>2
  <2>5. SumFunctionOnSet(Settled(u)', Txs)
           = SumFunctionOnSet(Settled(u), Txs) + (Settled(u)'[t] - Settled(u)[t])
    BY <2>3, <2>4, TxsFinite, SumChange
  <2>6. SumFunctionOnSet(Settled(u), Txs) \in Int
    BY <2>4, TxsFinite, SumTakeOut
  <2>7. Opening[u] \in Int /\ balance[u] = Opening[u] + SumFunctionOnSet(Settled(u), Txs)
    BY AccountsAssumption DEF Explained, Customers
  <2> QED
    BY <2>1, <2>3, <2>4, <2>5, <2>6, <2>7
<1> QED
  BY <1>3, <1>4, <1>5, <1>6 DEF CustomerSettlement!Next

LEMMA InitExplained ==
    ASSUME ApprovalsInit
    PROVE  Explained
<1>1. ApprovalsTypeOK
  BY InitInv DEF ApprovalsInv
<1>2. balance = Opening
  BY DEF ApprovalsInit, AccountsInit
<1>3. \A t \in Txs : tx[t].status = IF t \in Legacy THEN "approved" ELSE "absent"
  BY DEF ApprovalsInit, LegacyTx, NewTx, NoTx
<1> SUFFICES ASSUME NEW u \in Customers
             PROVE  Opening[u] = Opening[u] + SumFunctionOnSet(Settled(u), Txs)
  BY <1>2 DEF Explained
<1>4. \A t \in Txs : Settled(u)[t] = 0
  BY <1>3 DEF Settled
<1>5. SumFunctionOnSet(Settled(u), Txs) = 0
  BY <1>4, TxsFinite, SumZero
<1>6. Opening[u] \in Int
  BY AccountsAssumption DEF Customers
<1> QED
  BY <1>5, <1>6

\* What the ledger and the withdrawals say, is what has been settled.
LEMMA LedgerSaysSettled ==
    ASSUME ApprovalsTypeOK, Posting, NEW u \in Customers
    PROVE  /\ LedgerBalance(u) \in Int /\ Backfilled(u) \in Int /\ Unledgered(u) \in Int
           /\ LedgerBalance(u) - Backfilled(u) + Unledgered(u)
                 = SumFunctionOnSet(Settled(u), Txs)
<1> DEFINE entries == [t \in Txs |-> posted[t] * Effect(tx[t], u)]
           effects == [t \in Txs |-> Effect(tx[t], u)]
           inLedger == {t \in Txs : tx[t].kind \in LedgerKinds}
           paidOut == {t \in Txs : tx[t].kind = "withdrawal" /\ tx[t].status = "approved"}
           a == [t \in Txs |-> IF t \in inLedger THEN entries[t] ELSE 0]
           b == [t \in Txs |-> IF t \in Legacy THEN entries[t] ELSE 0]
           c == [t \in Txs |-> IF t \in paidOut THEN effects[t] ELSE 0]
           d == [t \in Txs |-> a[t] + c[t]]
<1>1. \A t \in Txs : entries[t] \in Int /\ effects[t] \in Int /\ Settled(u)[t] \in Int
  <2>1. \A t \in Txs : posted[t] \in Nat
    BY DEF ApprovalsTypeOK, TransactionsTypeOK
  <2>2. \A t \in Txs : Settled(u)[t] \in Int /\ Effect(tx[t], u) \in Int
    BY SettledType
  <2>3. \A m \in Nat, n \in Int : m * n \in Int
    OBVIOUS
  <2> QED
    BY <2>1, <2>2, <2>3
<1>2. LedgerBalance(u) = SumFunctionOnSet(a, Txs)
  <2>1. SumFunctionOnSet(a, Txs) = SumFunctionOnSet(entries, inLedger)
    BY <1>1, TxsFinite, SumFilter
  <2> QED
    BY <2>1 DEF LedgerBalance
<1>3. Backfilled(u) = SumFunctionOnSet(b, Txs)
  <2>1. SumFunctionOnSet(b, Txs) = SumFunctionOnSet(entries, Legacy)
    BY <1>1, TxsFinite, SumFilter, ApprovalsAssumption
  <2> QED
    BY <2>1 DEF Backfilled
<1>4. Unledgered(u) = SumFunctionOnSet(c, Txs)
  <2>1. SumFunctionOnSet(c, Txs) = SumFunctionOnSet(effects, paidOut)
    BY <1>1, TxsFinite, SumFilter
  <2> QED
    BY <2>1 DEF Unledgered
<1>5. \A t \in Txs : a[t] \in Int /\ b[t] \in Int /\ c[t] \in Int
  BY <1>1
<1>6. ASSUME NEW t \in Txs
      PROVE  a[t] + c[t] = b[t] + Settled(u)[t]
  <2>1. tx[t].kind \in Kinds /\ entries[t] = posted[t] * effects[t] /\ effects[t] \in Int
    BY <1>1 DEF ApprovalsTypeOK, TransactionsTypeOK, TxRow
  <2>2. CASE t \in Legacy
    <3>1. tx[t].kind = "deposit"
      BY <2>2 DEF Posting
    <3> QED
      BY <1>5, <2>2, <3>1 DEF LedgerKinds, Settled
  <2>3. CASE t \notin Legacy
    <3>1. entries[t] = IF tx[t].status = "approved" /\ tx[t].kind \in LedgerKinds
                       THEN effects[t] ELSE 0
      BY <2>1, <2>3 DEF Posting
    <3>2. Settled(u)[t] = IF tx[t].status = "approved" THEN effects[t] ELSE 0
      BY <2>3 DEF Settled
    <3> HIDE DEF entries, effects
    <3> QED
      BY <2>1, <2>3, <3>1, <3>2 DEF LedgerKinds, Kinds
  <2> QED
    BY <2>2, <2>3
<1> HIDE DEF a, b, c
<1>7. SumFunctionOnSet(d, Txs) = SumFunctionOnSet(a, Txs) + SumFunctionOnSet(c, Txs)
  BY <1>5, TxsFinite, SumPlus
<1>8. SumFunctionOnSet(d, Txs)
         = SumFunctionOnSet(b, Txs) + SumFunctionOnSet(Settled(u), Txs)
  BY <1>1, <1>5, <1>6, TxsFinite, SumPlus
<1>9. /\ SumFunctionOnSet(a, Txs) \in Int /\ SumFunctionOnSet(b, Txs) \in Int
      /\ SumFunctionOnSet(c, Txs) \in Int /\ SumFunctionOnSet(Settled(u), Txs) \in Int
  BY <1>1, <1>5, TxsFinite, SumTakeOut
<1> QED
  BY <1>2, <1>3, <1>4, <1>7, <1>8, <1>9

\* The stored balance of a customer is always what the ledger reads back, with
\* the withdrawals it does not record, however approvals, rollbacks and any
\* number of backfills interleave and however many rows there are.
THEOREM LedgerReconciles == ApprovalsSpec => []Reconciles
<1>1. ApprovalsInv /\ ApprovalsInv' /\ Posting /\ Posting' /\ Explained
         /\ [ApprovalsNext]_allApprovalsVars => Explained'
  <2>1. ApprovalsInv' => ApprovalsTypeOK'
    BY DEF ApprovalsInv
  <2> QED
    BY <2>1, StepImplements, StepExplained
<1>2. ApprovalsInv /\ Posting /\ Explained => Reconciles
  <2> SUFFICES ASSUME ApprovalsInv, Posting, Explained, NEW u \in Customers
               PROVE  balance[u] = Opening[u] + LedgerBalance(u) - Backfilled(u) + Unledgered(u)
    BY DEF Reconciles
  <2>1. ApprovalsTypeOK
    BY DEF ApprovalsInv
  <2>2. balance[u] = Opening[u] + (LedgerBalance(u) - Backfilled(u) + Unledgered(u))
    BY <2>1, LedgerSaysSettled DEF Explained
  <2>3. /\ LedgerBalance(u) \in Int /\ Backfilled(u) \in Int /\ Unledgered(u) \in Int
        /\ Opening[u] \in Int
    BY <2>1, LedgerSaysSettled, AccountsAssumption DEF Customers
  <2> QED
    BY <2>2, <2>3
<1> QED
  BY <1>1, <1>2, InitExplained, ApprovalsInvariance, PostingInvariance, PTL DEF ApprovalsSpec

-----------------------------------------------------------------------------
(* The older deposits, once. *)

LoneBackfiller == \A p, q \in Backfillers : p = q

\* A lone backfill is about to post what is still unposted.
Unrepeated ==
    \A t \in Legacy : /\ posted[t] <= 1
                      /\ \A r \in Threads : t \in batch[r] => posted[t] = 0

\* A step that posts no older deposit and collects none that is posted.
LEMMA UnrepeatedFrame ==
    ASSUME Unrepeated,
           \A t \in Legacy :
              /\ posted'[t] = posted[t]
              /\ \A r \in Threads : t \in batch'[r] => t \in batch[r] \/ posted[t] = 0
    PROVE  Unrepeated'
BY DEF Unrepeated

LEMMA StepUnrepeated ==
    ASSUME LoneBackfiller, ApprovalsInv, Posting, Unrepeated,
           [ApprovalsNext]_allApprovalsVars
    PROVE  Unrepeated'
<1>1. /\ posted \in [Txs -> Nat] /\ Legacy \subseteq Txs
      /\ batch \in [Threads -> SUBSET Txs]
  BY ApprovalsAssumption DEF ApprovalsInv, ApprovalsTypeOK, TransactionsTypeOK
<1>2. CASE UNCHANGED <<posted, batch>>
  BY <1>2, UnrepeatedFrame
<1>3. ASSUME NEW r \in Threads, CommitApproval(r)
      PROVE  Unrepeated'
  <2>1. work[r] \in Txs /\ tx[work[r]].status = "pending"
    BY <1>3 DEF ApprovalsInv, Requests, Settling, CommitApproval
  <2>2. work[r] \notin Legacy
    BY <2>1 DEF Posting
  <2>3. \A t \in Legacy : posted'[t] = posted[t]
    BY <1>1, <1>3, <2>1, <2>2 DEF CommitApproval
  <2>4. batch' = batch
    BY <1>3 DEF CommitApproval
  <2> QED
    BY <2>3, <2>4, UnrepeatedFrame
<1>4. ASSUME NEW r \in Threads, CheckRecorded(r)
      PROVE  Unrepeated'
  <2>1. PICK t \in scan[r] :
           batch' = [batch EXCEPT ![r] = IF AlreadyRecorded(t) THEN @ ELSE @ \cup {t}]
    BY <1>4 DEF CheckRecorded
  <2>2. posted' = posted
    BY <1>4 DEF CheckRecorded
  <2>3. \A q \in Legacy : \A s \in Threads :
           q \in batch'[s] => q \in batch[s] \/ posted[q] = 0
    BY <1>1, <2>1 DEF AlreadyRecorded
  <2> QED
    BY <2>2, <2>3, UnrepeatedFrame
<1>5. ASSUME NEW r \in Threads, CommitBackfill(r)
      PROVE  Unrepeated'
  <2>1. /\ op[r] = "backfill"
        /\ posted' = [t \in Txs |-> IF t \in batch[r] THEN posted[t] + 1 ELSE posted[t]]
        /\ batch' = [batch EXCEPT ![r] = {}]
    BY <1>5 DEF CommitBackfill
  <2>2. \A s \in Threads : batch'[s] = {}
    BY <1>1, <2>1 DEF Posting, LoneBackfiller
  <2>3. \A t \in Legacy : posted'[t] = IF t \in batch[r] THEN 1 ELSE posted[t]
    BY <1>1, <2>1 DEF Unrepeated
  <2> QED
    BY <1>1, <2>2, <2>3 DEF Unrepeated
<1>6. ASSUME NEW r \in Threads, Forget(r)
      PROVE  Unrepeated'
  BY <1>1, <1>6, UnrepeatedFrame DEF Forget
<1>7. ASSUME NEW r \in Threads,
             \/ SubmitDeposit(r) \/ SubmitWithdrawal(r) \/ SubmitTransfer(r)
             \/ LockPending(r) \/ RefuseDecided(r) \/ RefuseUncovered(r)
             \/ LockParty(r) \/ SkipBonus(r)
             \/ \E u \in Users : \/ BeginSubmit(r, u) \/ BeginBackfill(r, u)
                                 \/ \E t \in Txs : BeginApprove(r, u, t)
      PROVE  UNCHANGED <<posted, batch>>
  BY <1>7 DEF SubmitDeposit, SubmitWithdrawal, SubmitTransfer, Insert, LockPending,
              RefuseDecided, RefuseUncovered, LockParty, SkipBonus, BeginSubmit,
              BeginBackfill, BeginApprove, approvalsVars
<1>8. \A t \in Txs : Reject(t) => UNCHANGED <<posted, batch>>
  BY DEF Reject
<1>9. \A r \in Threads : RefuseSubmit(r) \/ AbortVictim(r) \/ Abort(r) => Forget(r)
  BY DEF RefuseSubmit, AbortVictim, Abort
<1>10. UNCHANGED allApprovalsVars => UNCHANGED <<posted, batch>>
  BY DEF allApprovalsVars, approvalsVars
<1> QED
  BY <1>2, <1>3, <1>4, <1>5, <1>6, <1>7, <1>8, <1>9, <1>10
  DEF ApprovalsNext, ApprovalActivity, ApprovalStep

\* With one thread running the backfill, every approved deposit and transfer of
\* the ledger's time is posted exactly once, and an older deposit at most once,
\* however approvals, rollbacks and the backfill interleave.
THEOREM LedgerHasEachOnce ==
    ASSUME LoneBackfiller
    PROVE  ApprovalsSpec => []PostedOnce
<1>1. ApprovalsInit => Unrepeated
  BY ApprovalsAssumption DEF ApprovalsInit, Unrepeated
<1>2. ApprovalsInv /\ Posting /\ Unrepeated /\ [ApprovalsNext]_allApprovalsVars
      => Unrepeated'
  BY StepUnrepeated
<1>3. Posting /\ Unrepeated => PostedOnce
  BY DEF Posting, Unrepeated, PostedOnce
<1> QED
  BY <1>1, <1>2, <1>3, ApprovalsInvariance, PostingInvariance, PTL DEF ApprovalsSpec
=============================================================================
