----------------------------- MODULE Approvals ------------------------------
(***************************************************************************)
(* Deposits, withdrawals and transfers: the request that records a pending *)
(* transaction, the admin's approval or rejection, the double-entry ledger *)
(* the approval posts to, and the backfill that posts what was approved    *)
(* before the ledger existed.                                              *)
(*                                                                         *)
(* An approval holds the transaction's row from its first SELECT to its    *)
(* commit, then takes the users rows of the parties, the sender's first.   *)
(***************************************************************************)
EXTENDS Accounts

CONSTANTS MaxTx,       \* bound: rows the transactions table may reach
          Amounts,     \* amounts a request may name
          Legacy,      \* deposits approved before the ledger existed, the first ids
          Backfillers  \* threads that may run the ledger backfill

Txs == 1..MaxTx

ASSUME ApprovalsAssumption ==
    /\ MaxTx \in Nat
    /\ None \notin Txs
    /\ Amounts \subseteq Nat \ {0}
    /\ Legacy \subseteq Txs
    /\ \A t \in Legacy : 1..t \subseteq Legacy
    /\ Backfillers \subseteq Threads

VARIABLES tx,       \* the transactions table
          txLock,   \* which thread's transaction holds the transactions row
          posted,   \* balanced ledger entry groups posted for a transaction
          work,     \* the transaction a thread is deciding
          scan,     \* approved deposits a backfill has still to look at
          batch     \* approved deposits a backfill is about to post

approvalsVars == <<tx, txLock, posted, work, scan, batch>>

Kinds == {"deposit", "withdrawal", "transfer"}
Statuses == {"absent", "pending", "approved", "rejected"}

\* Variant: transfers are not posted.
LedgerKindsDeposit == {"deposit"}
LedgerKinds == {"deposit", "transfer"}

ApprovalOps == {"submit", "approve", "settle", "bonus", "backfill"}

TxRow == [kind : Kinds, amount : Nat, sender : Users \cup {None},
          receiver : Users \cup {None}, status : Statuses]

NoTx == [kind |-> "deposit", amount |-> 0, sender |-> None,
         receiver |-> None, status |-> "absent"]

\* Variant: debits stored as negative amounts.
NewTxSigned(kind, amount, sender, receiver) ==
    [kind |-> kind, amount |-> IF kind = "deposit" THEN amount ELSE 0 - amount,
     sender |-> sender, receiver |-> receiver, status |-> "pending"]

\* Variant: the row starts in a status the workflow does not know.
NewTxProcessing(kind, amount, sender, receiver) ==
    [kind |-> kind, amount |-> amount, sender |-> sender,
     receiver |-> receiver, status |-> "processing"]

NewTx(kind, amount, sender, receiver) ==
    [kind |-> kind, amount |-> amount, sender |-> sender,
     receiver |-> receiver, status |-> "pending"]

\* A row of before the ledger: an approved deposit.
LegacyTx(receiver, amount) ==
    [NewTx("deposit", amount, None, receiver) EXCEPT !.status = "approved"]

\* Rows get ascending ids.
Fresh(t) == /\ tx[t].status = "absent"
            /\ \A s \in Txs : s < t => tx[s].status # "absent"

Parties(x) == {x.sender, x.receiver} \ {None}

\* What approving x adds to u's balance.
Effect(x, u) == IF u = x.receiver THEN x.amount
                ELSE IF u = x.sender THEN 0 - x.amount ELSE 0

\* Variant: the receiver's row is written without a lock.
NextPartyUnlocked(x, u) == None

\* The row locked first, and the one locked after u's.
FirstParty(x) == IF x.kind = "deposit" THEN x.receiver ELSE x.sender
NextParty(x, u) == IF x.kind = "transfer" /\ u = x.sender THEN x.receiver ELSE None

\* Variant: an approved transaction may be approved again.
NotRejected(x) == x.status \in {"pending", "approved"}
Pending(x) == x.status = "pending"

\* Variant: the sender's balance is not looked at again.
CoveredAlways(r, x) == TRUE

\* The sender can pay, as far as the thread's session sees.
Covered(r, x) == x.kind # "deposit" => x.amount <= view[r][x.sender]

\* Variant: the ledger is not searched before posting.
NeverRecorded(t) == FALSE
AlreadyRecorded(t) == posted[t] > 0

ApprovedDeposits == {t \in Txs : tx[t].kind = "deposit" /\ tx[t].status = "approved"}

ApprovalsInit ==
    /\ AccountsInit
    /\ \E owner \in [Legacy -> Users], amount \in [Legacy -> Amounts] :
          tx = [t \in Txs |-> IF t \in Legacy THEN LegacyTx(owner[t], amount[t])
                                              ELSE NoTx]
    /\ txLock = [t \in Txs |-> None]
    /\ posted = [t \in Txs |-> 0]
    /\ work = [r \in Threads |-> None]
    /\ scan = [r \in Threads |-> {}]
    /\ batch = [r \in Threads |-> {}]

-----------------------------------------------------------------------------
(* A customer asks for a deposit, a withdrawal or a transfer. *)

BeginSubmit(r, u) ==
    /\ Begin(r, u, "submit")
    /\ UNCHANGED <<balance, lock, want, approvalsVars>>

\* The row is inserted and committed; the balance itself does not move.
Insert(r, x) ==
    /\ \E t \in Txs : Fresh(t) /\ tx' = [tx EXCEPT ![t] = x]
    /\ Finish(r)
    /\ UNCHANGED <<balance, txLock, posted, work, scan, batch>>

SubmitDeposit(r) ==
    /\ op[r] = "submit"
    /\ \E a \in Amounts : Insert(r, NewTx("deposit", a, None, who[r]))

SubmitWithdrawal(r) ==
    /\ op[r] = "submit"
    /\ \E a \in Amounts :
          a <= view[r][who[r]] /\ Insert(r, NewTx("withdrawal", a, who[r], None))

SubmitTransfer(r) ==
    /\ op[r] = "submit"
    /\ \E a \in Amounts, v \in Users \ {who[r]} :
          a <= view[r][who[r]] /\ Insert(r, NewTx("transfer", a, who[r], v))

-----------------------------------------------------------------------------
(* An admin decides a transaction. *)

BeginApprove(r, u, t) ==
    /\ u \in Admins
    /\ tx[t].status # "absent"
    /\ Begin(r, u, "approve")
    /\ work' = [work EXCEPT ![r] = t]
    /\ UNCHANGED <<balance, lock, want, tx, txLock, posted, scan, batch>>

\* The transactions row is locked and found pending: the first party's row is
\* wanted next.
LockPending(r) ==
    LET x == tx[work[r]]
    IN  /\ op[r] = "approve"
        /\ txLock[work[r]] = None
        /\ Pending(x)
        /\ txLock' = [txLock EXCEPT ![work[r]] = r]
        /\ op' = [op EXCEPT ![r] = "settle"]
        /\ want' = [want EXCEPT ![r] = FirstParty(x)]
        /\ UNCHANGED <<balance, lock, who, view, tx, posted, work, scan, batch>>

\* It is found decided: 409.
RefuseDecided(r) ==
    /\ op[r] = "approve"
    /\ txLock[work[r]] = None
    /\ ~Pending(tx[work[r]])
    /\ Finish(r)
    /\ work' = [work EXCEPT ![r] = None]
    /\ UNCHANGED <<balance, tx, txLock, posted, scan, batch>>

\* The parties' rows are locked one after the other, without a refresh.
LockParty(r) ==
    /\ op[r] = "settle"
    /\ LockRow(r, FALSE, NextParty(tx[work[r]], want[r]))
    /\ UNCHANGED approvalsVars

\* Balances, ledger entries and the status change in one commit.
CommitApproval(r) ==
    LET t == work[r]
        x == tx[t]
    IN  /\ op[r] = "settle"
        /\ want[r] = None
        /\ Covered(r, x)
        /\ balance' = [u \in Users |->
              IF u \in Parties(x) THEN view[r][u] + Effect(x, u) ELSE balance[u]]
        /\ tx' = [tx EXCEPT ![t].status = "approved"]
        /\ posted' = [posted EXCEPT ![t] =
              IF x.kind \in LedgerKinds /\ ~AlreadyRecorded(t) THEN @ + 1 ELSE @]
        /\ txLock' = [txLock EXCEPT ![t] = None]
        /\ lock' = Released(r)
        /\ view' = [view EXCEPT ![r] = EmptyView]
        /\ op' = [op EXCEPT ![r] = "bonus"]
        /\ UNCHANGED <<who, want, work, scan, batch>>

\* The sender can no longer pay: 400, nothing is written.
RefuseUncovered(r) ==
    LET x == tx[work[r]]
    IN  /\ op[r] = "settle"
        /\ want[r] = None
        /\ ~Covered(r, x)
        /\ Finish(r)
        /\ txLock' = [txLock EXCEPT ![work[r]] = None]
        /\ work' = [work EXCEPT ![r] = None]
        /\ UNCHANGED <<balance, tx, posted, scan, batch>>

\* on_deposit_approved, in a database where nobody was invited by anybody:
\* it reads and returns.
SkipBonus(r) ==
    /\ op[r] = "bonus"
    /\ Finish(r)
    /\ work' = [work EXCEPT ![r] = None]
    /\ UNCHANGED <<balance, tx, txLock, posted, scan, batch>>

\* A rejection locks the row, looks and commits: it waits for nothing else.
Reject(t) ==
    /\ txLock[t] = None
    /\ Pending(tx[t])
    /\ tx' = [tx EXCEPT ![t].status = "rejected"]
    /\ UNCHANGED <<accountsVars, txLock, posted, work, scan, batch>>

-----------------------------------------------------------------------------
(* The ledger backfill: list the approved deposits, look each one up in the *)
(* ledger, and post the missing ones in one commit.                         *)

BeginBackfill(r, u) ==
    /\ r \in Backfillers
    /\ u \in Admins
    /\ Begin(r, u, "backfill")
    /\ scan' = [scan EXCEPT ![r] = ApprovedDeposits]
    /\ UNCHANGED <<balance, lock, want, tx, txLock, posted, work, batch>>

CheckRecorded(r) ==
    /\ op[r] = "backfill"
    /\ \E t \in scan[r] :
          /\ scan' = [scan EXCEPT ![r] = @ \ {t}]
          /\ batch' = [batch EXCEPT ![r] = IF AlreadyRecorded(t) THEN @ ELSE @ \cup {t}]
    /\ UNCHANGED <<accountsVars, tx, txLock, posted, work>>

CommitBackfill(r) ==
    /\ op[r] = "backfill"
    /\ scan[r] = {}
    /\ posted' = [t \in Txs |-> IF t \in batch[r] THEN posted[t] + 1 ELSE posted[t]]
    /\ batch' = [batch EXCEPT ![r] = {}]
    /\ Finish(r)
    /\ UNCHANGED <<balance, tx, txLock, work, scan>>

-----------------------------------------------------------------------------
(* Refused requests, exceptions, crashes and deadlock victims. *)

\* Variant: the transactions row stays locked.
ForgetButRow(r) ==
    /\ work' = [work EXCEPT ![r] = None]
    /\ scan' = [scan EXCEPT ![r] = {}]
    /\ batch' = [batch EXCEPT ![r] = {}]
    /\ UNCHANGED <<tx, txLock, posted>>

Forget(r) ==
    /\ txLock' = [t \in Txs |-> IF txLock[t] = r THEN None ELSE txLock[t]]
    /\ work' = [work EXCEPT ![r] = None]
    /\ scan' = [scan EXCEPT ![r] = {}]
    /\ batch' = [batch EXCEPT ![r] = {}]
    /\ UNCHANGED <<tx, posted>>

Abort(r) == op[r] \in ApprovalOps /\ RollBack(r) /\ Forget(r)

AbortVictim(r) == op[r] \in ApprovalOps /\ DeadlockVictim(r) /\ Forget(r)

\* A request refused before its insert (amount above the balance, unknown
\* recipient, recipient is the sender).
RefuseSubmit(r) == op[r] = "submit" /\ Abort(r)

-----------------------------------------------------------------------------
\* What the thread does once its request has begun, up to the bonus step.
ApprovalStep(r) ==
    \/ SubmitDeposit(r) \/ SubmitWithdrawal(r) \/ SubmitTransfer(r)
    \/ RefuseSubmit(r)
    \/ LockPending(r) \/ RefuseDecided(r)
    \/ CommitApproval(r) \/ RefuseUncovered(r)
    \/ CheckRecorded(r) \/ CommitBackfill(r)

\* Everything but the bonus step.
ApprovalActivity ==
    \/ \E r \in Threads :
          \/ ApprovalStep(r) \/ LockParty(r)
          \/ Abort(r) \/ AbortVictim(r)
          \/ \E u \in Users :
                \/ BeginSubmit(r, u)
                \/ BeginBackfill(r, u)
                \/ \E t \in Txs : BeginApprove(r, u, t)
    \/ \E t \in Txs : Reject(t)

ApprovalsNext == ApprovalActivity \/ \E r \in Threads : SkipBonus(r)

allApprovalsVars == <<accountsVars, approvalsVars>>

ApprovalsSpec == ApprovalsInit /\ [][ApprovalsNext]_allApprovalsVars

\* A worker thread runs on, Postgres queues the waiters of a row in order and
\* breaks deadlocks.
ApprovalsFairness ==
    \A r \in Threads :
        /\ WF_allApprovalsVars(ApprovalStep(r) \/ SkipBonus(r))
        /\ SF_allApprovalsVars(LockPending(r) \/ RefuseDecided(r))
        /\ SF_allApprovalsVars(LockParty(r))
        /\ WF_allApprovalsVars(AbortVictim(r))

ApprovalsFairSpec == ApprovalsSpec /\ ApprovalsFairness

-----------------------------------------------------------------------------
(* What must hold. *)

TransactionsTypeOK ==
    /\ tx \in [Txs -> TxRow]
    /\ txLock \in [Txs -> Threads \cup {None}]
    /\ posted \in [Txs -> Nat]
    /\ work \in [Threads -> Txs \cup {None}]
    /\ scan \in [Threads -> SUBSET Txs]
    /\ batch \in [Threads -> SUBSET Txs]

\* Every variable has its type; balances are integers here, see NoOverdraft.
ApprovalsTypeOK == AccountsTypeOK(ApprovalOps) /\ TransactionsTypeOK

\* A transaction of the ledger's time is in the ledger exactly when it is
\* approved, and once, however approvals, crashes and a running backfill
\* interleave; one of before that time is posted at most once, by the backfill.
PostedOnce ==
    \A t \in Txs :
        IF t \in Legacy THEN posted[t] <= 1
        ELSE posted[t] = IF tx[t].status = "approved" /\ tx[t].kind \in LedgerKinds
                         THEN 1 ELSE 0

\* The balance a session is about to write from is the committed one for every
\* row it has locked, unless the row is the requester's own.
LockedViewFresh ==
    \A u \in Users :
        lock[u] # None /\ who[lock[u]] # u => view[lock[u]][u] = balance[u]

\* A deadlock is always a ring of transfer approvals: each thread of it holds
\* the row of its sender and waits for its receiver's.
DeadlockShape ==
    \A r \in Threads :
        InCycle(r) => /\ op[r] = "settle"
                      /\ tx[work[r]].kind = "transfer"
                      /\ lock[tx[work[r]].sender] = r
                      /\ want[r] = tx[work[r]].receiver

-----------------------------------------------------------------------------
(* Why it holds: what every step keeps.                                     *)

\* A recorded transaction names the people its kind needs.
WellFormed(x) ==
    CASE x.kind = "deposit" -> x.sender = None /\ x.receiver \in Users
      [] x.kind = "withdrawal" -> x.sender \in Users /\ x.receiver = None
      [] x.kind = "transfer" -> /\ x.sender \in Users
                                /\ x.receiver \in Users
                                /\ x.sender # x.receiver

RowsWellFormed == \A t \in Txs : tx[t].status # "absent" => WellFormed(tx[t])

\* Sessions see no debts.
ViewsSound == \A r \in Threads, u \in Users : view[r][u] >= NotLoaded

\* A request is somebody's; only admins decide, and about what was recorded.
Requests ==
    \A r \in Threads :
        /\ op[r] # "idle" => who[r] \in Users
        /\ op[r] \in {"approve", "settle", "bonus"} =>
              /\ who[r] \in Admins
              /\ work[r] \in Txs
              /\ tx[work[r]].status # "absent"

\* r's transaction holds u's row and its session has loaded it.
Taken(r, u) == lock[u] = r /\ view[r][u] # NotLoaded

\* A settling thread holds its pending transaction and every party's row it is
\* not still waiting for.
Settling ==
    \A r \in Threads :
        op[r] = "settle" =>
            LET x == tx[work[r]]
            IN  /\ txLock[work[r]] = r
                /\ x.status = "pending"
                /\ want[r] \in Parties(x) \cup {None}
                /\ \A u \in Parties(x) :
                      want[r] \notin {u, x.sender} \ {None} => Taken(r, u)

\* Users rows are held by settling threads only, and one that still waits has
\* its sender's and wants its receiver's.
LockOwners ==
    \A u \in Users :
        lock[u] # None =>
            LET r == lock[u]
            IN  /\ op[r] = "settle"
                /\ want[r] # None =>
                      /\ tx[work[r]].kind = "transfer"
                      /\ u = tx[work[r]].sender
                      /\ want[r] = tx[work[r]].receiver

\* A session holds the requester's own row and the rows it has locked.
ViewOwners ==
    \A r \in Threads, u \in Users :
        view[r][u] # NotLoaded => u = who[r] \/ lock[u] = r

\* The inductive invariant: together these are kept by every step, and give
\* NoOverdraft, LockedViewFresh and DeadlockShape.
ApprovalsInv ==
    /\ ApprovalsTypeOK
    /\ NoOverdraft
    /\ RowsWellFormed
    /\ ViewsSound
    /\ Requests
    /\ Settling
    /\ LockOwners
    /\ ViewOwners
    /\ LockedViewFresh

-----------------------------------------------------------------------------
(* What is promised. *)

\* Every request is eventually answered: no thread waits for a row for ever.
Responds == \A r \in Threads : op[r] # "idle" ~> op[r] = "idle"

\* Customers see what Settlement promises: one decision per transaction, the
\* whole effect in the deciding step, never below zero.
CustomerEffect ==
    [t \in Txs |-> [u \in Customers |->
        IF tx[t].status = "absent" THEN 0 ELSE Effect(tx[t], u)]]

CustomerSettlement ==
    INSTANCE Settlement WITH
        OpeningBalance <- [u \in Customers |-> Opening[u]],
        InitialStatus <- [t \in Txs |-> IF t \in Legacy THEN "approved" ELSE "absent"],
        bal <- [u \in Customers |-> balance[u]],
        status <- [t \in Txs |-> tx[t].status],
        effect <- CustomerEffect

\* The approval workflow implements Settlement.
ImplementsSettlement == CustomerSettlement!Spec
=============================================================================
