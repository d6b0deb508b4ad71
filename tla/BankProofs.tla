----------------------------- MODULE BankProofs -----------------------------
(***************************************************************************)
(* What each product of the bank keeps for any number of people, threads   *)
(* and rows, whatever the other products do on the same threads and the    *)
(* same users rows: pots hold what was moved into them, debts stay within  *)
(* what was lent, and one request pays a deposit.                          *)
(*                                                                         *)
(* The products share only op and who.  A product begins on an idle thread *)
(* and leaves a thread that serves another product alone (Serves), so the  *)
(* others disturb its own tables in no way.                                *)
(*                                                                         *)
(* At the end the balances against the books: no update is lost but by a   *)
(* handler that does not lock, while another writes the same row, and what *)
(* rounding adds is bounded.                                               *)
(***************************************************************************)
EXTENDS MCBank, SumProofs, TLAPS

\* Every request is one of the bank's, and somebody's.
RequestsTyped ==
    /\ op \in [Threads -> BankOps \cup {"idle"}]
    /\ who \in [Threads -> Users \cup {None}]

\* A step of a product with these operations works on one thread at most,
\* which is idle or serves that product, before and after.
Serves(Ops) ==
    \/ UNCHANGED <<op, who>>
    \/ \E r \in Threads, u \in Users \cup {None}, o \in Ops \cup {"idle"} :
          /\ op[r] \in Ops \cup {"idle"}
          /\ op' \in {op, [op EXCEPT ![r] = o]}
          /\ who' \in {who, [who EXCEPT ![r] = u]}

LEMMA RequestsTypedInit == BankInit => RequestsTyped
BY DEF BankInit, SavingsInit, AccountsInit, RequestsTyped

LEMMA ServesKeepsTypes ==
    ASSUME NEW Ops, Ops \subseteq BankOps, RequestsTyped, Serves(Ops)
    PROVE  RequestsTyped'
BY DEF RequestsTyped, Serves

\* A thread that serves something else goes on serving it, for the same user.
LEMMA ServesLeavesOthers ==
    ASSUME NEW Ops, RequestsTyped, Serves(Ops), NEW r \in Threads, op[r] \notin Ops \cup {"idle"}
    PROVE  op'[r] = op[r]
BY DEF RequestsTyped, Serves

\* A product does not start another product's request.
LEMMA ServesItsOwn ==
    ASSUME NEW Ops, RequestsTyped, Serves(Ops), NEW r \in Threads, op'[r] \notin Ops \cup {"idle"}
    PROVE  op[r] = op'[r]
BY DEF RequestsTyped, Serves

LEMMA ApprovalsServe == BankApprovals => Serves(ApprovalOps)
<1> SUFFICES ASSUME BankApprovals
             PROVE  Serves(ApprovalOps)
  OBVIOUS
<1> USE DEF ApprovalOps, Serves
<1>1. ASSUME NEW r \in Threads,
             \/ SubmitDeposit(r) \/ SubmitWithdrawal(r) \/ SubmitTransfer(r)
             \/ RefuseDecided(r) \/ RefuseUncovered(r) \/ CommitBackfill(r)
             \/ RefuseSubmit(r) \/ Abort(r) \/ AbortVictim(r) \/ SkipBonus(r)
      PROVE  /\ op[r] \in ApprovalOps \cup {"idle"}
             /\ op' = [op EXCEPT ![r] = "idle"]
             /\ who' = [who EXCEPT ![r] = None]
  BY <1>1 DEF SubmitDeposit, SubmitWithdrawal, SubmitTransfer, Insert, RefuseDecided,
     RefuseUncovered, CommitBackfill, RefuseSubmit, Abort, AbortVictim, DeadlockVictim,
     RollBack, SkipBonus, Finish
<1>2. ASSUME NEW r \in Threads, LockPending(r) \/ CommitApproval(r)
      PROVE  /\ op[r] \in ApprovalOps
             /\ \E o \in ApprovalOps : op' = [op EXCEPT ![r] = o]
             /\ who' = who
  BY <1>2 DEF LockPending, CommitApproval
<1>3. ASSUME NEW r \in Threads, NEW u \in Users,
             \/ BeginSubmit(r, u) \/ BeginBackfill(r, u)
             \/ \E t \in Txs : BeginApprove(r, u, t)
      PROVE  /\ op[r] = "idle"
             /\ \E o \in ApprovalOps : op' = [op EXCEPT ![r] = o]
             /\ who' = [who EXCEPT ![r] = u]
  BY <1>3 DEF BeginSubmit, BeginBackfill, BeginApprove, Begin
<1>4. ASSUME \/ \E r \in Threads : LockParty(r) \/ CheckRecorded(r)
             \/ \E t \in Txs : Reject(t)
      PROVE  UNCHANGED <<op, who>>
  BY <1>4 DEF LockParty, LockRow, CheckRecorded, Reject, accountsVars
<1> QED
  BY <1>1, <1>2, <1>3, <1>4 DEF BankApprovals, ApprovalActivity, ApprovalStep

LEMMA SavingsServe == SavingsActivity => Serves(SavingsOps)
<1> SUFFICES ASSUME SavingsActivity
             PROVE  Serves(SavingsOps)
  OBVIOUS
<1> USE DEF SavingsOps, MoveOps, Serves
<1>1. ASSUME NEW r \in Threads,
             InsertPot(r) \/ PutIn(r) \/ TakeOut(r) \/ ClosePot(r) \/ AbortSaving(r)
      PROVE  /\ op[r] \in SavingsOps
             /\ op' = [op EXCEPT ![r] = "idle"]
             /\ who' = [who EXCEPT ![r] = None]
  BY <1>1 DEF InsertPot, PutIn, TakeOut, ClosePot, Move, AbortSaving, RollBack, Finish
<1>2. ASSUME NEW r \in Threads, CountPots(r)
      PROVE  op[r] \in SavingsOps /\ op' = [op EXCEPT ![r] = "pot_insert"] /\ who' = who
  BY <1>2 DEF CountPots
<1>3. ASSUME NEW r \in Threads, NEW u \in Users,
             \/ BeginCreatePot(r, u)
             \/ \E p \in Pots, o \in MoveOps : BeginMove(r, u, p, o)
      PROVE  /\ op[r] = "idle"
             /\ \E o \in SavingsOps : op' = [op EXCEPT ![r] = o]
             /\ who' = [who EXCEPT ![r] = u]
  BY <1>3 DEF BeginCreatePot, BeginMove, Begin
<1>4. ASSUME NEW r \in Threads, LockSaver(r) \/ LockPot(r)
      PROVE  UNCHANGED <<op, who>>
  BY <1>4 DEF LockSaver, LockRow, LockPot, accountsVars
<1> QED
  BY <1>1, <1>2, <1>3, <1>4 DEF SavingsActivity, SavingStep

LEMMA LoansServe == LoansActivity => Serves(LoanOps)
<1> SUFFICES ASSUME LoansActivity
             PROVE  Serves(LoanOps)
  OBVIOUS
<1> USE DEF LoanOps, DecideOps, Serves
<1>1. ASSUME NEW r \in Threads,
             CommitRepay(r) \/ CommitLoan(r) \/ CommitRejection(r) \/ AbortLoan(r)
      PROVE  /\ op[r] \in LoanOps
             /\ op' = [op EXCEPT ![r] = "idle"]
             /\ who' = [who EXCEPT ![r] = None]
  BY <1>1 DEF CommitRepay, CommitLoan, CommitRejection, AbortLoan, RollBack, Finish
<1>2. ASSUME NEW r \in Threads, NEW u \in Users, NEW l \in LoanIds,
             BeginRepay(r, u, l) \/ \E o \in DecideOps : BeginDecide(r, u, l, o)
      PROVE  /\ op[r] = "idle"
             /\ \E o \in LoanOps : op' = [op EXCEPT ![r] = o]
             /\ who' = [who EXCEPT ![r] = u]
  BY <1>2 DEF BeginRepay, BeginDecide, Begin
<1>3. ASSUME \/ \E r \in Threads : ReadLoan(r) \/ LockBorrower(r)
             \/ \E u \in Users : ApplyForLoan(u)
      PROVE  UNCHANGED <<op, who>>
  BY <1>3 DEF ReadLoan, LockBorrower, LockRow, ApplyForLoan, accountsVars
<1> QED
  BY <1>1, <1>2, <1>3 DEF LoansActivity, LoanStep

LEMMA FixedDepositsServe == FixedDepositsActivity => Serves(FdOps)
<1> SUFFICES ASSUME FixedDepositsActivity
             PROVE  Serves(FdOps)
  OBVIOUS
<1> USE DEF FdOps, Serves
<1>1. ASSUME NEW r \in Threads,
             CommitOpen(r) \/ NothingMatured(r) \/ CommitPayout(r) \/ AbortFd(r)
      PROVE  /\ op[r] \in FdOps
             /\ op' = [op EXCEPT ![r] = "idle"]
             /\ who' = [who EXCEPT ![r] = None]
  BY <1>1 DEF CommitOpen, NothingMatured, CommitPayout, AbortFd, RollBack, Finish
<1>2. ASSUME NEW r \in Threads, SelectMatured(r)
      PROVE  op[r] \in FdOps /\ op' = [op EXCEPT ![r] = "fd_payout"] /\ who' = who
  BY <1>2 DEF SelectMatured
<1>3. ASSUME NEW r \in Threads, NEW u \in Users, BeginOpen(r, u) \/ BeginProfile(r, u)
      PROVE  /\ op[r] = "idle"
             /\ \E o \in FdOps : op' = [op EXCEPT ![r] = o]
             /\ who' = [who EXCEPT ![r] = u]
  BY <1>3 DEF BeginOpen, BeginProfile, Begin
<1>4. ASSUME \/ \E r \in Threads : ClaimNext(r)
             \/ \E f \in FdIds : Mature(f)
      PROVE  UNCHANGED <<op, who>>
  BY <1>4 DEF ClaimNext, Mature, accountsVars
<1> QED
  BY <1>1, <1>2, <1>3, <1>4 DEF FixedDepositsActivity, FdStep

\* Every step of the bank keeps requests typed and is one product's.
LEMMA RequestsKept ==
    ASSUME RequestsTyped, [BankNext]_bankVars
    PROVE  RequestsTyped'
<1>1. CASE UNCHANGED bankVars
  BY <1>1 DEF bankVars, accountsVars, RequestsTyped
<1>2. CASE BankNext
  <2>1. ASSUME BankApprovals PROVE RequestsTyped'
    <3>1. ApprovalOps \subseteq BankOps
      BY DEF BankOps
    <3> QED
      BY <2>1, <3>1, ApprovalsServe, ServesKeepsTypes
  <2>2. ASSUME SavingsActivity PROVE RequestsTyped'
    <3>1. SavingsOps \subseteq BankOps
      BY DEF BankOps
    <3> QED
      BY <2>2, <3>1, SavingsServe, ServesKeepsTypes
  <2>3. ASSUME LoansActivity PROVE RequestsTyped'
    <3>1. LoanOps \subseteq BankOps
      BY DEF BankOps
    <3> QED
      BY <2>3, <3>1, LoansServe, ServesKeepsTypes
  <2>4. ASSUME FixedDepositsActivity PROVE RequestsTyped'
    <3>1. FdOps \subseteq BankOps
      BY DEF BankOps
    <3> QED
      BY <2>4, <3>1, FixedDepositsServe, ServesKeepsTypes
  <2> QED
    BY <1>2, <2>1, <2>2, <2>3, <2>4 DEF BankNext, BankSavings, BankLoans, BankFixedDeposits
<1> QED
  BY <1>1, <1>2

-----------------------------------------------------------------------------
(* Savings pots. *)

PotsInv ==
    /\ RequestsTyped
    /\ pot \in [Pots -> PotRow]
    /\ moved \in [Pots -> Int]
    /\ aim \in [Threads -> Pots \cup {None}]
    /\ PotsSound

LEMMA PotsInvInit == BankInit => PotsInv
<1> SUFFICES ASSUME BankInit
             PROVE  PotsInv
  OBVIOUS
<1>1. /\ pot = [p \in Pots |-> NoPot]
      /\ moved = [p \in Pots |-> 0]
      /\ aim = [r \in Threads |-> None]
  BY DEF BankInit, SavingsInit
<1>2. NoPot \in PotRow
  BY DEF NoPot, PotRow, PotStatuses
<1>3. PotsSound
  BY <1>1 DEF PotsSound, NoPot
<1> QED
  BY <1>1, <1>2, <1>3, RequestsTypedInit DEF PotsInv

\* The row of a pot after a move.
Changed(row, amount, status) == [row EXCEPT !.saved = @ + amount, !.status = status]

LEMMA ChangedPot ==
    ASSUME NEW row \in PotRow, NEW amount \in Int, NEW status \in PotStatuses
    PROVE  /\ Changed(row, amount, status) \in PotRow
           /\ Changed(row, amount, status).saved = row.saved + amount
           /\ Changed(row, amount, status).status = status
<1> DEFINE sum == row.saved + amount
           half == [row EXCEPT !.saved = sum]
           new == [half EXCEPT !.status = status]
<1>1. sum \in Int
  BY DEF PotRow
<1> HIDE DEF sum
<1>2. half \in PotRow /\ half.saved = sum
  BY <1>1 DEF PotRow
<1> HIDE DEF half
<1>3. new \in PotRow /\ new.saved = sum /\ new.status = status
  BY <1>2 DEF PotRow
<1> QED
  BY <1>3 DEF Changed, new, half, sum

\* A move changes a pot and its movements by one amount; it is sound if the pot
\* can give the amount, and closes only with nothing left.
LEMMA MoveKeepsPots ==
    ASSUME PotsInv, NEW r \in Threads, NEW amount \in Int, NEW status \in {"active", "closed"},
           aim[r] # None,
           pot[aim[r]].saved + amount >= 0,
           status = "closed" => pot[aim[r]].saved + amount = 0,
           RequestsTyped', Move(r, amount, status)
    PROVE  PotsInv'
<1> DEFINE p == aim[r]
           new == Changed(pot[p], amount, status)
<1>1. p \in Pots
  BY DEF PotsInv
<1>2. /\ pot' = [pot EXCEPT ![p] = new]
      /\ moved' = [moved EXCEPT ![p] = @ + amount]
      /\ aim' = [aim EXCEPT ![r] = None]
  BY DEF Move, Changed
<1>3. pot[p] \in PotRow /\ moved[p] \in Int
  BY <1>1 DEF PotsInv
<1>4. /\ new \in PotRow
      /\ new.saved = pot[p].saved + amount
      /\ new.status = status
  <2>1. pot[p] \in PotRow /\ amount \in Int /\ status \in PotStatuses
    BY <1>3 DEF PotStatuses
  <2> QED
    BY <2>1, ChangedPot, Zenon
<1> HIDE DEF new
<1>5. pot' \in [Pots -> PotRow] /\ pot'[p] = new /\ \A q \in Pots \ {p} : pot'[q] = pot[q]
  BY <1>1, <1>2, <1>4 DEF PotsInv
<1>6. moved' \in [Pots -> Int] /\ moved'[p] = moved[p] + amount
      /\ \A q \in Pots \ {p} : moved'[q] = moved[q]
  BY <1>1, <1>2, <1>3 DEF PotsInv
<1>7. aim' \in [Threads -> Pots \cup {None}]
  BY <1>2 DEF PotsInv
<1>8. PotsSound'
  <2> SUFFICES ASSUME NEW q \in Pots
               PROVE  /\ pot'[q].saved >= 0
                      /\ pot'[q].status # "active" => pot'[q].saved = 0
                      /\ moved'[q] = pot'[q].saved
    BY DEF PotsSound
  <2>1. CASE q = p
    BY <1>1, <1>4, <1>5, <1>6, <2>1 DEF PotsInv, PotsSound
  <2>2. CASE q # p
    BY <1>5, <1>6, <2>2 DEF PotsInv, PotsSound
  <2> QED
    BY <2>1, <2>2
<1> QED
  BY <1>5, <1>6, <1>7, <1>8 DEF PotsInv

LEMMA SavingsKeepPots ==
    ASSUME PotsInv, SavingsActivity, RequestsTyped'
    PROVE  PotsInv'
<1>1. ASSUME NEW r \in Threads, InsertPot(r)
      PROVE  PotsInv'
  <2>1. PICK p \in Pots : FreshPot(p) /\ pot' = [pot EXCEPT ![p] = NewPot(who[r])]
    BY <1>1 DEF InsertPot
  <2>2. UNCHANGED <<moved, aim>>
    BY <1>1 DEF InsertPot
  <2>3. NewPot(who[r]) \in PotRow
    BY DEF PotsInv, RequestsTyped, NewPot, PotRow, PotStatuses
  <2>4. pot' \in [Pots -> PotRow]
    BY <2>1, <2>3 DEF PotsInv
  <2>5. moved[p] = 0
    BY <2>1 DEF FreshPot, PotsInv, PotsSound
  <2>6. PotsSound'
    BY <2>1, <2>2, <2>5 DEF PotsInv, PotsSound, NewPot
  <2> QED
    BY <2>2, <2>4, <2>6 DEF PotsInv
<1>2. ASSUME NEW r \in Threads, PutIn(r)
      PROVE  PotsInv'
  <2>1. PICK a \in PotAmounts : Move(r, a, "active")
    BY <1>2 DEF PutIn
  <2>2. a \in Nat /\ aim[r] \in Pots
    BY <1>2, SavingsAssumption DEF PutIn, PotsInv
  <2>3. pot[aim[r]].saved \in Int /\ pot[aim[r]].saved >= 0
    BY <2>2 DEF PotsInv, PotsSound, PotRow
  <2> QED
    BY <1>2, <2>1, <2>2, <2>3, MoveKeepsPots DEF PutIn
<1>3. ASSUME NEW r \in Threads, TakeOut(r)
      PROVE  PotsInv'
  <2>1. PICK a \in PotAmounts : a <= pot[aim[r]].saved /\ Move(r, 0 - a, "active")
    BY <1>3 DEF TakeOut
  <2>2. a \in Nat /\ aim[r] \in Pots
    BY <1>3, SavingsAssumption DEF TakeOut, PotsInv
  <2>3. pot[aim[r]].saved \in Int
    BY <2>2 DEF PotsInv, PotRow
  <2> QED
    BY <1>3, <2>1, <2>2, <2>3, MoveKeepsPots DEF TakeOut
<1>4. ASSUME NEW r \in Threads, ClosePot(r)
      PROVE  PotsInv'
  <2>1. aim[r] \in Pots
    BY <1>4 DEF ClosePot, PotsInv
  <2>2. pot[aim[r]].saved \in Int
    BY <2>1 DEF PotsInv, PotRow
  <2> QED
    BY <1>4, <2>1, <2>2, MoveKeepsPots DEF ClosePot
<1>5. ASSUME NEW r \in Threads,
             \/ CountPots(r) \/ LockPot(r) \/ LockSaver(r) \/ AbortSaving(r)
             \/ \E u \in Users : \/ BeginCreatePot(r, u)
                                 \/ \E p \in Pots, o \in MoveOps : BeginMove(r, u, p, o)
      PROVE  PotsInv'
  <2>1. UNCHANGED <<pot, moved>>
    BY <1>5 DEF CountPots, LockPot, LockSaver, AbortSaving, BeginCreatePot, BeginMove, savingsVars
  <2>2. \E p \in Pots \cup {None} : aim' \in {aim, [aim EXCEPT ![r] = p]}
    BY <1>5 DEF CountPots, LockPot, LockSaver, AbortSaving, BeginCreatePot, BeginMove, savingsVars
  <2>3. aim' \in [Threads -> Pots \cup {None}]
    BY <2>2 DEF PotsInv
  <2> QED
    BY <2>1, <2>3 DEF PotsInv, PotsSound
<1> QED
  BY <1>1, <1>2, <1>3, <1>4, <1>5 DEF SavingsActivity, SavingStep

\* The invariant of the pots is kept by every step of the bank.
LEMMA PotsStep ==
    ASSUME PotsInv, [BankNext]_bankVars
    PROVE  PotsInv'
<1>1. RequestsTyped'
  BY RequestsKept DEF PotsInv
<1>2. CASE UNCHANGED <<pot, moved, aim>>
  BY <1>1, <1>2 DEF PotsInv, PotsSound
<1>3. CASE SavingsActivity
  BY <1>1, <1>3, SavingsKeepPots
<1> QED
  BY <1>2, <1>3 DEF BankNext, BankApprovals, BankSavings, BankLoans, BankFixedDeposits,
     bankVars, savingsVars

\* No pot goes below zero or is closed with money in it, and what the movements
\* of a pot add up to is what it holds: for any number of savers and threads,
\* beside every other product.
THEOREM PotsHoldWhatMoved == BankSpec => []PotsSound
<1>1. PotsInv => PotsSound
  BY DEF PotsInv
<1> QED
  BY <1>1, PotsInvInit, PotsStep, PTL DEF BankSpec

-----------------------------------------------------------------------------
(* Parts of a kobo. *)

\* What a column loses when an amount is taken from it.
Charge(amount) == -((Parts - 2 * amount) \div (2 * Parts))

\* A column keeps what is taken from another, or one kobo more.
LEMMA StoredAmount ==
    ASSUME NEW a \in Nat
    PROVE  /\ Stored(a) \in Nat /\ Charge(a) \in Nat
           /\ Stored(a) - Charge(a) \in 0..1
<1> DEFINE e == 2 * Parts
           s == Stored(a)
           c == Charge(a)
<1>1. e \in Nat \ {0} /\ Parts \in Nat \ {0} /\ e = 2 * Parts
  BY MoneyAssumption
<1>2. s \in Nat /\ e * s <= 2 * a + Parts /\ 2 * a + Parts < e * s + e
  BY MoneyAssumption, NearestPositive DEF Stored
<1> DEFINE t == (Parts - 2 * a) \div e
<1>3. t \in Int /\ e * t <= Parts - 2 * a /\ Parts - 2 * a < e * t + e
  <2>1. Parts - 2 * a \in Int
    BY <1>1
  <2> HIDE DEF e
  <2> QED
    BY <1>1, <2>1, DivBounds
<1>4. c = -t
  BY DEF Charge
<1> HIDE DEF e, s, c, t
<1>5. c \in Int /\ e * c = -(e * t)
  BY <1>1, <1>3, <1>4
<1>6. 2 * a - Parts <= e * c /\ e * c < 2 * a + Parts
  <2>1. e * t \in Int /\ e * c \in Int
    BY <1>1, <1>3, <1>5
  <2> QED
    BY <1>1, <1>3, <1>5, <2>1
<1>7. e * s \in Int /\ e * c \in Int
  BY <1>1, <1>2, <1>5
<1>8. ~(c + 1 <= 0)
  <2> SUFFICES ASSUME c + 1 <= 0
               PROVE  FALSE
    OBVIOUS
  <2>1. e * (c + 1) <= e * 0
    BY <1>1, <1>5, TimesKeepsOrder
  <2>2. e * (c + 1) = e * c + e /\ e * 0 = 0
    BY <1>1, <1>5
  <2> QED
    BY <1>1, <1>6, <1>7, <2>1, <2>2
<1>9. ~(s + 1 <= c)
  <2> SUFFICES ASSUME s + 1 <= c
               PROVE  FALSE
    OBVIOUS
  <2>1. e * (s + 1) <= e * c
    BY <1>1, <1>2, <1>5, TimesKeepsOrder
  <2>2. e * (s + 1) = e * s + e
    BY <1>1, <1>2
  <2> QED
    BY <1>1, <1>2, <1>6, <1>7, <2>1, <2>2
<1>10. ~(c + 2 <= s)
  <2> SUFFICES ASSUME c + 2 <= s
               PROVE  FALSE
    OBVIOUS
  <2>1. e * (c + 2) <= e * s
    BY <1>1, <1>2, <1>5, TimesKeepsOrder
  <2>2. e * (c + 2) = e * c + 2 * e
    BY <1>1, <1>5
  <2> QED
    BY <1>1, <1>2, <1>6, <1>7, <2>1, <2>2
<1>11. s \in Nat /\ c \in Nat /\ s - c \in 0..1
  BY <1>2, <1>5, <1>8, <1>9, <1>10
<1> QED
  BY <1>11 DEF s, c

\* However much a column holds, it loses the same when an amount is taken.
LEMMA LessAmount ==
    ASSUME NEW a \in Nat, NEW n \in Nat, Within(a, n)
    PROVE  /\ Less(n, a) = n - Charge(a)
           /\ Charge(a) <= n
<1> DEFINE e == 2 * Parts
           t == (Parts - 2 * a) \div e
           left == n * Parts - a
<1>1. e \in Nat \ {0} /\ Parts \in Nat \ {0} /\ e = 2 * Parts
  BY MoneyAssumption
<1>2. t \in Int /\ e * t <= Parts - 2 * a /\ Parts - 2 * a < e * t + e
  <2>1. Parts - 2 * a \in Int
    BY <1>1
  <2> HIDE DEF e
  <2> QED
    BY <1>1, <2>1, DivBounds
<1>3. left \in Nat /\ 2 * left = e * n - 2 * a
  <2>1. n * Parts \in Nat /\ a <= n * Parts
    BY <1>1 DEF Within
  <2>2. e * n = 2 * (n * Parts)
    BY <1>1
  <2> QED
    BY <2>1, <2>2
<1>4. Less(n, a) = (2 * left + Parts) \div e
  BY <1>1, <1>3 DEF Less, Stored, Nearest
<1>5. Charge(a) = -t
  BY DEF Charge
<1>10. Less(n, a) \in Nat
  BY <1>3, StoredAmount DEF Less
<1> HIDE DEF e, t, left
<1>6. e * (n + t) = e * n + e * t /\ e * n \in Int /\ e * t \in Int /\ n + t \in Int
  BY <1>1, <1>2
<1>7. e * (n + t) <= 2 * left + Parts /\ 2 * left + Parts < e * (n + t) + e
  BY <1>1, <1>2, <1>3, <1>6
<1>8. (2 * left + Parts) \div e = n + t
  <2>1. 2 * left + Parts \in Int
    BY <1>1, <1>3
  <2> QED
    BY <1>1, <1>6, <1>7, <2>1, DivIs
<1> QED
  BY <1>2, <1>4, <1>5, <1>8, <1>10

-----------------------------------------------------------------------------
(* Loans. *)

\* What a request read of a loan stays true of the loan as far as its bounds
\* go: the principal never changes, a loan does not become pending again, and
\* nothing a session read exceeds what may be owed.
Reading(r) ==
    LET l == file[r]
    IN  /\ l \in LoanIds
        /\ op[r] \in LoanOps
        /\ loan[l].status # "absent"
        /\ loan[l].principal = read[r].principal
        /\ read[r].outstanding \in 0..Repayable(read[r].principal)
        /\ op[r] = "loan_repay" => loan[l].status # "pending"

LoansInv ==
    /\ RequestsTyped
    /\ LoanTablesTypeOK
    /\ DebtBounded
    /\ \A r \in Threads : read[r] # NoLoan => Reading(r)

LEMMA RepayableNat == \A p \in Nat : Repayable(p) \in Nat /\ 0 <= Repayable(p)
BY LoansAssumption DEF Repayable

LEMMA NoLoanRow == NoLoan \in LoanRow
BY DEF NoLoan, LoanRow, LoanStatuses

LEMMA LoansInvInit == BankInit => LoansInv
<1> SUFFICES ASSUME BankInit
             PROVE  LoansInv
  OBVIOUS
<1>1. /\ loan = [l \in LoanIds |-> NoLoan]
      /\ file = [r \in Threads |-> None]
      /\ read = [r \in Threads |-> NoLoan]
  BY DEF BankInit, LoansInit
<1>2. LoanTablesTypeOK
  BY <1>1, NoLoanRow DEF LoanTablesTypeOK
<1>3. DebtBounded
  BY <1>1, RepayableNat DEF DebtBounded, NoLoan
<1> QED
  BY <1>1, <1>2, <1>3, RequestsTypedInit DEF LoansInv

\* The row of a loan after a commit.
Settled(row, outstanding, status) ==
    [row EXCEPT !.outstanding = outstanding, !.status = status]

LEMMA SettledLoan ==
    ASSUME NEW row \in LoanRow, NEW outstanding \in Int, NEW status \in LoanStatuses
    PROVE  /\ Settled(row, outstanding, status) \in LoanRow
           /\ Settled(row, outstanding, status).principal = row.principal
           /\ Settled(row, outstanding, status).outstanding = outstanding
           /\ Settled(row, outstanding, status).status = status
<1> DEFINE half == [row EXCEPT !.outstanding = outstanding]
           new == [half EXCEPT !.status = status]
<1>1. half \in LoanRow /\ half.outstanding = outstanding /\ half.principal = row.principal
  BY DEF LoanRow
<1> HIDE DEF half
<1>2. /\ new \in LoanRow /\ new.outstanding = outstanding /\ new.status = status
      /\ new.principal = half.principal
  BY <1>1 DEF LoanRow
<1> QED
  BY <1>1, <1>2 DEF Settled, half, new

\* A commit to a loan that stays within its bounds, and leaves no reading of it
\* behind the change, is kept to by every other reading.
LEMMA CommitKeepsLoans ==
    ASSUME LoansInv, RequestsTyped', NEW r \in Threads, read[r] # NoLoan,
           NEW outstanding \in Int,
           NEW status \in {"approved", "rejected", "repaid"},
           0 <= outstanding, outstanding <= Repayable(read[r].principal),
           loan' = [loan EXCEPT ![file[r]] = Settled(loan[file[r]], outstanding, status)],
           CloseFile(r), op' = [op EXCEPT ![r] = "idle"]
    PROVE  LoansInv'
<1> DEFINE l == file[r]
           new == Settled(loan[l], outstanding, status)
<1>1. Reading(r)
  BY DEF LoansInv
<1>2. l \in LoanIds /\ loan[l] \in LoanRow /\ status \in LoanStatuses
  BY <1>1 DEF Reading, LoansInv, LoanTablesTypeOK, LoanStatuses
<1>3. /\ new \in LoanRow /\ new.principal = loan[l].principal
      /\ new.outstanding = outstanding /\ new.status = status
  <2>1. loan[l] \in LoanRow /\ outstanding \in Int /\ status \in LoanStatuses
    BY <1>2
  <2>2. \A row \in LoanRow : \A o \in Int : \A st \in LoanStatuses :
           /\ Settled(row, o, st) \in LoanRow
           /\ Settled(row, o, st).principal = row.principal
           /\ Settled(row, o, st).outstanding = o
           /\ Settled(row, o, st).status = st
    BY SettledLoan
  <2> QED
    BY <2>1, <2>2
<1>4. loan[l].principal = read[r].principal
  BY <1>1 DEF Reading
<1> HIDE DEF new
<1>5. /\ loan' \in [LoanIds -> LoanRow]
      /\ loan'[l] = new
      /\ \A k \in LoanIds \ {l} : loan'[k] = loan[k]
  BY <1>2, <1>3 DEF LoansInv, LoanTablesTypeOK, new
<1>6. LoanTablesTypeOK'
  BY <1>5, NoLoanRow DEF LoansInv, LoanTablesTypeOK, CloseFile
<1>7. DebtBounded'
  <2> SUFFICES ASSUME NEW k \in LoanIds
               PROVE  /\ loan'[k].outstanding >= 0
                      /\ loan'[k].outstanding <= Repayable(loan'[k].principal)
                      /\ loan'[k].status \in {"absent", "pending"} => loan'[k].outstanding = 0
    BY DEF DebtBounded
  <2>1. CASE k = l
    BY <1>3, <1>4, <1>5, <2>1
  <2>2. CASE k # l
    BY <1>5, <2>2 DEF LoansInv, DebtBounded
  <2> QED
    BY <2>1, <2>2
<1>8. ASSUME NEW s \in Threads, read'[s] # NoLoan
      PROVE  Reading(s)'
  <2>1. s # r /\ read'[s] = read[s] /\ file'[s] = file[s]
    BY <1>8 DEF CloseFile, LoansInv, LoanTablesTypeOK
  <2>2. op'[s] = op[s]
    BY <2>1 DEF LoansInv, RequestsTyped
  <2>3. Reading(s)
    BY <1>8, <2>1 DEF LoansInv
  <2>4. CASE file[s] = l
    BY <1>3, <1>5, <2>1, <2>2, <2>3, <2>4 DEF Reading
  <2>5. CASE file[s] # l
    BY <1>5, <2>1, <2>2, <2>3, <2>5 DEF Reading
  <2> QED
    BY <2>4, <2>5
<1> QED
  BY <1>6, <1>7, <1>8 DEF LoansInv

\* Another product's step disturbs no loan and no reading of one.
LEMMA OthersKeepLoans ==
    ASSUME LoansInv, RequestsTyped', UNCHANGED loansVars,
           \A r \in Threads : op[r] \in LoanOps => op'[r] = op[r]
    PROVE  LoansInv'
<1>1. ASSUME NEW r \in Threads, read'[r] # NoLoan
      PROVE  Reading(r)'
  BY <1>1 DEF LoansInv, Reading, loansVars
<1> QED
  BY <1>1 DEF LoansInv, LoanTablesTypeOK, DebtBounded, loansVars
\* A commit of a loan handler is one of Settled's, or touches only the status.
LEMMA LoansKeepLoans ==
    ASSUME LoansInv, LoansActivity, RequestsTyped'
    PROVE  LoansInv'
<1>1. ASSUME NEW r \in Threads, CommitRepay(r)
      PROVE  LoansInv'
  <2>1. PICK a \in Repayments :
           /\ Within(a, read[r].outstanding)
           /\ loan' = [loan EXCEPT ![file[r]].outstanding = Less(read[r].outstanding, a),
                 ![file[r]].status = IF read[r].outstanding * Parts <= a THEN "repaid" ELSE @]
    BY <1>1 DEF CommitRepay, WithinDebt
  <2>2. read[r] # NoLoan /\ Reading(r) /\ op[r] = "loan_repay"
    BY <1>1 DEF CommitRepay, LoansInv
  <2> DEFINE rest == Less(read[r].outstanding, a)
             status == IF read[r].outstanding * Parts <= a THEN "repaid" ELSE loan[file[r]].status
  <2>3. /\ a \in Nat
        /\ read[r].outstanding \in Nat
        /\ Repayable(read[r].principal) \in Int
    BY <2>2, LoansAssumption, RepayableNat DEF Reading, LoansInv, LoanTablesTypeOK, LoanRow
  <2>9. /\ rest = read[r].outstanding - Charge(a)
        /\ Charge(a) \in Nat /\ Charge(a) <= read[r].outstanding
    BY <2>1, <2>3, LessAmount, StoredAmount
  <2>4. rest \in Int /\ 0 <= rest /\ rest <= Repayable(read[r].principal)
    <3> HIDE DEF rest
    <3> QED
      BY <2>2, <2>3, <2>9 DEF Reading
  <2>5. file[r] \in LoanIds /\ loan[file[r]].status \in LoanStatuses \ {"absent", "pending"}
    BY <2>2 DEF Reading, LoansInv, LoanTablesTypeOK, LoanRow
  <2>6. status \in {"approved", "rejected", "repaid"}
    BY <2>5 DEF LoanStatuses
  <2>7. loan' = [loan EXCEPT ![file[r]] = Settled(loan[file[r]], rest, status)]
    BY <2>1, <2>5 DEF Settled
  <2>8. CloseFile(r) /\ op' = [op EXCEPT ![r] = "idle"]
    BY <1>1 DEF CommitRepay, Finish
  <2> HIDE DEF rest, status
  <2> QED
    BY <2>2, <2>4, <2>6, <2>7, <2>8, CommitKeepsLoans
<1>2. ASSUME NEW r \in Threads, CommitLoan(r)
      PROVE  LoansInv'
  <2>1. read[r] # NoLoan /\ CloseFile(r) /\ op' = [op EXCEPT ![r] = "idle"]
    BY <1>2 DEF CommitLoan, Finish
  <2> DEFINE debt == Repayable(read[r].principal)
  <2>2. debt \in Int /\ 0 <= debt /\ debt <= Repayable(read[r].principal)
    BY RepayableNat DEF LoansInv, LoanTablesTypeOK, LoanRow
  <2>3. loan' = [loan EXCEPT ![file[r]] = Settled(loan[file[r]], debt, "approved")]
    BY <1>2 DEF CommitLoan, Settled
  <2> HIDE DEF debt
  <2> QED
    BY <2>1, <2>2, <2>3, CommitKeepsLoans
<1>3. ASSUME NEW r \in Threads, CommitRejection(r)
      PROVE  LoansInv'
  <2>1. read[r] # NoLoan /\ CloseFile(r) /\ op' = [op EXCEPT ![r] = "idle"]
    BY <1>3 DEF CommitRejection, Finish
  <2>2. Reading(r)
    BY <2>1 DEF LoansInv
  <2> DEFINE owed == loan[file[r]].outstanding
  <2>3. file[r] \in LoanIds /\ loan[file[r]] \in LoanRow
    BY <2>2 DEF Reading, LoansInv, LoanTablesTypeOK
  <2>4. owed \in Int /\ 0 <= owed /\ owed <= Repayable(read[r].principal)
    BY <2>2, <2>3 DEF Reading, LoansInv, DebtBounded, LoanRow
  <2>5. loan' = [loan EXCEPT ![file[r]] = Settled(loan[file[r]], owed, "rejected")]
    BY <1>3, <2>3 DEF CommitRejection, Settled, LoanRow
  <2> HIDE DEF owed
  <2> QED
    BY <2>1, <2>4, <2>5, CommitKeepsLoans
<1>4. ASSUME NEW r \in Threads, ReadLoan(r)
      PROVE  LoansInv'
  <2>1. /\ op[r] \in LoanOps
        /\ file[r] # None
        /\ Readable(op[r], loan[file[r]], who[r])
        /\ read' = [read EXCEPT ![r] = loan[file[r]]]
        /\ UNCHANGED <<loan, file, op>>
    BY <1>4 DEF ReadLoan, LoanOps
  <2>2. file[r] \in LoanIds /\ loan[file[r]] \in LoanRow
    BY <2>1 DEF LoansInv, LoanTablesTypeOK
  <2>3. LoanTablesTypeOK' /\ DebtBounded'
    BY <2>1, <2>2 DEF LoansInv, LoanTablesTypeOK, DebtBounded
  <2>4. loan[file[r]].status \in {"approved", "pending"}
        /\ (op[r] = "loan_repay" => loan[file[r]].status # "pending")
    BY <2>1 DEF Readable
  <2>5. /\ loan[file[r]].outstanding \in Int
        /\ loan[file[r]].outstanding >= 0
        /\ loan[file[r]].outstanding <= Repayable(loan[file[r]].principal)
        /\ Repayable(loan[file[r]].principal) \in Int
    BY <2>2, RepayableNat DEF LoansInv, DebtBounded, LoanRow
  <2>6. ASSUME NEW s \in Threads, read'[s] # NoLoan
        PROVE  Reading(s)'
    <3>1. CASE s = r
      BY <2>1, <2>2, <2>4, <2>5, <3>1 DEF Reading, LoansInv, LoanTablesTypeOK
    <3>2. CASE s # r
      BY <2>1, <2>6, <3>2 DEF Reading, LoansInv, LoanTablesTypeOK
    <3> QED
      BY <3>1, <3>2
  <2> QED
    BY <2>3, <2>6 DEF LoansInv
<1>5. ASSUME NEW r \in Threads, LockBorrower(r)
      PROVE  LoansInv'
  <2>1. UNCHANGED <<loan, file, read, op>>
    BY <1>5 DEF LockBorrower, LockRow, loansVars
  <2> QED
    BY <2>1, OthersKeepLoans DEF loansVars
<1>6. ASSUME NEW r \in Threads, AbortLoan(r)
      PROVE  LoansInv'
  <2>1. CloseFile(r) /\ op' = [op EXCEPT ![r] = "idle"] /\ UNCHANGED loan
    BY <1>6 DEF AbortLoan, RollBack, Finish
  <2>2. LoanTablesTypeOK' /\ DebtBounded'
    BY <2>1, NoLoanRow DEF LoansInv, LoanTablesTypeOK, DebtBounded, CloseFile
  <2>3. ASSUME NEW s \in Threads, read'[s] # NoLoan
        PROVE  Reading(s)'
    BY <2>1, <2>3 DEF Reading, LoansInv, LoanTablesTypeOK, CloseFile, RequestsTyped
  <2> QED
    BY <2>2, <2>3 DEF LoansInv
<1>7. ASSUME NEW r \in Threads, NEW u \in Users, NEW l \in LoanIds,
             BeginRepay(r, u, l) \/ \E o \in DecideOps : BeginDecide(r, u, l, o)
      PROVE  LoansInv'
  <2>1. /\ op[r] = "idle"
        /\ \E o : op' = [op EXCEPT ![r] = o]
        /\ file' = [file EXCEPT ![r] = l]
        /\ UNCHANGED <<loan, read>>
    BY <1>7 DEF BeginRepay, BeginDecide, Begin
  <2>2. read[r] = NoLoan
    BY <2>1 DEF LoansInv, Reading, LoanOps, DecideOps
  <2>3. LoanTablesTypeOK' /\ DebtBounded'
    BY <2>1 DEF LoansInv, LoanTablesTypeOK, DebtBounded
  <2>4. ASSUME NEW s \in Threads, read'[s] # NoLoan
        PROVE  Reading(s)'
    BY <2>1, <2>2, <2>4 DEF Reading, LoansInv, LoanTablesTypeOK, RequestsTyped
  <2> QED
    BY <2>3, <2>4 DEF LoansInv
<1>8. ASSUME NEW u \in Users, ApplyForLoan(u)
      PROVE  LoansInv'
  <2>1. PICK l \in LoanIds, p \in Principals :
           /\ loan[l].status = "absent"
           /\ loan' = [loan EXCEPT ![l] = [NoLoan EXCEPT !.owner = u, !.principal = Stored(p),
                                                         !.status = "pending"]]
    BY <1>8 DEF ApplyForLoan, FreshLoan
  <2> DEFINE asks == Stored(p)
             new == [owner |-> u, principal |-> asks, outstanding |-> 0, status |-> "pending"]
  <2>2. loan' = [loan EXCEPT ![l] = new]
    <3> DEFINE owned == [NoLoan EXCEPT !.owner = u]
               asked == [owned EXCEPT !.principal = asks]
    <3>1. owned = [owner |-> u, principal |-> 0, outstanding |-> 0, status |-> "absent"]
      BY DEF NoLoan
    <3> HIDE DEF owned
    <3>2. asked = [owner |-> u, principal |-> asks, outstanding |-> 0, status |-> "absent"]
      BY <3>1
    <3> HIDE DEF asked
    <3>3. [asked EXCEPT !.status = "pending"] = new
      BY <3>2
    <3> QED
      BY <2>1, <3>3 DEF owned, asked
  <2>3. UNCHANGED <<file, read, op>>
    BY <1>8 DEF ApplyForLoan, accountsVars
  <2>7. asks \in Nat
    BY LoansAssumption, StoredAmount
  <2> HIDE DEF asks
  <2>4. new \in LoanRow /\ Repayable(asks) >= 0
    BY <2>7, RepayableNat DEF LoanRow, LoanStatuses
  <2>5. LoanTablesTypeOK' /\ DebtBounded'
    BY <2>2, <2>3, <2>4 DEF LoansInv, LoanTablesTypeOK, DebtBounded
  <2>6. ASSUME NEW s \in Threads, read'[s] # NoLoan
        PROVE  Reading(s)'
    <3>1. Reading(s) /\ file[s] # l
      BY <2>1, <2>3, <2>6 DEF LoansInv, Reading
    <3>2. loan'[file[s]] = loan[file[s]]
      BY <2>2, <3>1 DEF LoansInv, LoanTablesTypeOK, Reading
    <3> QED
      BY <2>3, <3>1, <3>2 DEF Reading
  <2> QED
    BY <2>5, <2>6 DEF LoansInv
<1> QED
  BY <1>1, <1>2, <1>3, <1>4, <1>5, <1>6, <1>7, <1>8 DEF LoansActivity, LoanStep

\* The invariant of the loans is kept by every step of the bank.
LEMMA LoansInvStep ==
    ASSUME LoansInv, [BankNext]_bankVars
    PROVE  LoansInv'
<1>1. RequestsTyped /\ RequestsTyped'
  BY RequestsKept DEF LoansInv
<1>2. ASSUME BankLoans
      PROVE  LoansInv'
  BY <1>1, <1>2, LoansKeepLoans DEF BankLoans
<1>3. ASSUME BankApprovals
      PROVE  LoansInv'
  <2>1. \A r \in Threads : op[r] \in LoanOps => op'[r] = op[r]
    BY <1>1, <1>3, ApprovalsServe, ServesLeavesOthers DEF LoanOps, DecideOps, ApprovalOps
  <2> QED
    BY <1>1, <1>3, <2>1, OthersKeepLoans DEF BankApprovals
<1>4. ASSUME BankSavings
      PROVE  LoansInv'
  <2>1. \A r \in Threads : op[r] \in LoanOps => op'[r] = op[r]
    BY <1>1, <1>4, SavingsServe, ServesLeavesOthers
       DEF LoanOps, DecideOps, SavingsOps, MoveOps, BankSavings
  <2> QED
    BY <1>1, <1>4, <2>1, OthersKeepLoans DEF BankSavings
<1>5. ASSUME BankFixedDeposits
      PROVE  LoansInv'
  <2>1. \A r \in Threads : op[r] \in LoanOps => op'[r] = op[r]
    BY <1>1, <1>5, FixedDepositsServe, ServesLeavesOthers
       DEF LoanOps, DecideOps, FdOps, BankFixedDeposits
  <2> QED
    BY <1>1, <1>5, <2>1, OthersKeepLoans DEF BankFixedDeposits
<1>6. ASSUME UNCHANGED bankVars
      PROVE  LoansInv'
  BY <1>1, <1>6, OthersKeepLoans DEF bankVars, accountsVars
<1> QED
  BY <1>2, <1>3, <1>4, <1>5, <1>6 DEF BankNext

\* Whatever races on the unlocked loans, and whatever the other products do,
\* nobody owes less than nothing or more than the principal with its interest,
\* and a loan that was not approved is not owed.
THEOREM DebtsStayBounded == BankSpec => []DebtBounded
<1>1. LoansInv => DebtBounded
  BY DEF LoansInv
<1> QED
  BY <1>1, LoansInvInit, LoansInvStep, PTL DEF BankSpec

-----------------------------------------------------------------------------
(* Fixed deposits. *)

\* A deposit credited in a session is locked by its thread, active and due; and
\* what a SELECT has still to lock was due when it started.
FdInv ==
    /\ RequestsTyped
    /\ FdTypeOK
    /\ \A r \in Threads : todo[r] \subseteq due
    /\ \A r \in Threads : \A f \in paying[r] :
          fdLock[f] = r /\ fd[f].status = "active" /\ f \in due
    /\ \A f \in FdIds : fd[f].status = "matured" => f \in due

LEMMA FdInvInit == BankInit => FdInv
<1> SUFFICES ASSUME BankInit
             PROVE  FdInv
  OBVIOUS
<1>1. /\ fd = [f \in FdIds |-> NoFd]
      /\ due = {}
      /\ fdLock = [f \in FdIds |-> None]
      /\ todo = [r \in Threads |-> {}]
      /\ paying = [r \in Threads |-> {}]
  BY DEF BankInit, FixedDepositsInit
<1>2. NoFd \in FdRow
  BY DEF NoFd, FdRow, FdStatuses
<1> QED
  BY <1>1, <1>2, RequestsTypedInit DEF FdInv, FdTypeOK, NoFd

LEMMA FdInvMeans == FdInv => PaidByOne
BY DEF FdInv, FdTypeOK, PaidByOne

LEMMA FixedDepositsKeepFd ==
    ASSUME FdInv, FixedDepositsActivity, RequestsTyped'
    PROVE  FdInv'
<1> USE DEF FdInv, FdTypeOK
<1>1. ASSUME NEW f \in FdIds, Mature(f)
      PROVE  FdInv'
  BY <1>1 DEF Mature
<1>2. ASSUME NEW r \in Threads, CommitOpen(r)
      PROVE  FdInv'
  <2>1. PICK f \in FdIds, p \in FdPrincipals, rate \in FdRates :
           /\ FreshFd(f)
           /\ Within(p, view[r][who[r]])
           /\ balance' = [balance EXCEPT ![who[r]] = Less(view[r][who[r]], p)]
           /\ fd' = [fd EXCEPT ![f] = [owner |-> who[r], principal |-> Stored(p),
                           payout |-> Payout(p, rate), status |-> "active"]]
    BY <1>2, Zenon DEF CommitOpen
  <2> DEFINE new == [owner |-> who[r], principal |-> Stored(p),
                     payout |-> Payout(p, rate), status |-> "active"]
  <2>2. Payout(p, rate) \in Nat /\ Stored(p) \in Nat
    <3>1. p \in Nat /\ rate \in Nat /\ Parts \in Nat \ {0}
      BY FixedDepositsAssumption, MoneyAssumption
    <3>2. p * (100 + rate) \in Nat /\ 100 * Parts \in Nat \ {0}
      BY <3>1
    <3> QED
      BY <3>1, <3>2, NearestPositive, StoredAmount DEF Payout
  <2>3. new \in FdRow /\ new.status = "active"
    BY <2>2 DEF FdRow, FdStatuses, RequestsTyped
  <2> HIDE DEF new
  <2>4. /\ fd' \in [FdIds -> FdRow]
        /\ fd'[f] = new
        /\ \A g \in FdIds \ {f} : fd'[g] = fd[g]
    BY <2>1, <2>3 DEF new
  <2>5. UNCHANGED <<due, fdLock, todo, paying>>
    BY <1>2 DEF CommitOpen
  <2>6. fd[f].status = "absent"
    BY <2>1 DEF FreshFd
  <2> QED
    BY <2>3, <2>4, <2>5, <2>6
<1>3. ASSUME NEW r \in Threads, SelectMatured(r)
      PROVE  FdInv'
  BY <1>3 DEF SelectMatured
<1>4. ASSUME NEW r \in Threads, ClaimNext(r)
      PROVE  FdInv'
  <2>1. PICK f \in todo[r] :
           /\ fdLock[f] = None
           /\ todo' = [todo EXCEPT ![r] = @ \ {f}]
           /\ \/ /\ fd[f].status = "active"
                 /\ fdLock' = [fdLock EXCEPT ![f] = r]
                 /\ paying' = [paying EXCEPT ![r] = @ \cup {f}]
              \/ UNCHANGED <<fdLock, paying>>
           /\ UNCHANGED <<fd, due>>
    BY <1>4 DEF ClaimNext, FdFree
  <2>2. f \in FdIds /\ f \in due
    BY <2>1
  <2>3. \A s \in Threads : f \notin paying[s]
    BY <2>1, AccountsAssumption
  <2>4. todo' \in [Threads -> SUBSET FdIds] /\ \A s \in Threads : todo'[s] \subseteq due
    BY <2>1
  <2>5. CASE UNCHANGED <<fdLock, paying>>
    BY <2>1, <2>4, <2>5
  <2>6. CASE /\ fd[f].status = "active"
             /\ fdLock' = [fdLock EXCEPT ![f] = r]
             /\ paying' = [paying EXCEPT ![r] = @ \cup {f}]
    <3>1. paying' \in [Threads -> SUBSET FdIds] /\ fdLock' \in [FdIds -> Threads \cup {None}]
      BY <2>2, <2>6
    <3>2. ASSUME NEW s \in Threads, NEW g \in paying'[s]
          PROVE  fdLock'[g] = s /\ fd[g].status = "active" /\ g \in due
      <4>1. CASE g = f
        BY <2>2, <2>3, <2>6, <3>2, <4>1
      <4>2. CASE g # f
        BY <2>6, <3>2, <4>2
      <4> QED
        BY <4>1, <4>2
    <3> QED
      BY <2>1, <2>4, <3>1, <3>2
  <2> QED
    BY <2>1, <2>5, <2>6
<1>5. ASSUME NEW r \in Threads, NothingMatured(r)
      PROVE  FdInv'
  BY <1>5 DEF NothingMatured, fdVars
<1>6. ASSUME NEW r \in Threads, CommitPayout(r)
      PROVE  FdInv'
  <2>1. /\ fd' = [f \in FdIds |-> IF f \in paying[r]
                                  THEN [fd[f] EXCEPT !.status = "matured"] ELSE fd[f]]
        /\ paying' = [paying EXCEPT ![r] = {}]
        /\ fdLock' = ReleasedFds(r)
        /\ UNCHANGED <<due, todo>>
    BY <1>6 DEF CommitPayout
  <2>2. ASSUME NEW f \in FdIds
        PROVE  /\ [fd[f] EXCEPT !.status = "matured"] \in FdRow
               /\ [fd[f] EXCEPT !.status = "matured"].status = "matured"
    BY DEF FdRow, FdStatuses
  <2>3. fd' \in [FdIds -> FdRow]
    BY <2>1, <2>2
  <2>4. \A f \in FdIds : fd'[f].status = "matured" => f \in due
    BY <2>1
  <2>5. ASSUME NEW s \in Threads, NEW f \in paying'[s]
        PROVE  fdLock'[f] = s /\ fd'[f].status = "active" /\ f \in due
    <3>1. s # r /\ f \in paying[s] /\ f \in FdIds
      BY <2>1, <2>5
    <3>2. fdLock[f] = s /\ f \notin paying[r]
      BY <3>1
    <3> QED
      BY <2>1, <3>1, <3>2 DEF ReleasedFds
  <2>6. fdLock' \in [FdIds -> Threads \cup {None}] /\ paying' \in [Threads -> SUBSET FdIds]
    BY <2>1 DEF ReleasedFds
  <2> QED
    BY <2>1, <2>3, <2>4, <2>5, <2>6
<1>7. ASSUME NEW r \in Threads, AbortFd(r)
      PROVE  FdInv'
  <2>1. /\ fdLock' = ReleasedFds(r)
        /\ todo' = [todo EXCEPT ![r] = {}]
        /\ paying' = [paying EXCEPT ![r] = {}]
        /\ UNCHANGED <<fd, due>>
    BY <1>7 DEF AbortFd
  <2>2. ASSUME NEW s \in Threads, NEW f \in paying'[s]
        PROVE  fdLock'[f] = s /\ fd[f].status = "active" /\ f \in due
    BY <2>1, <2>2 DEF ReleasedFds
  <2>3. /\ fdLock' \in [FdIds -> Threads \cup {None}]
        /\ todo' \in [Threads -> SUBSET FdIds]
        /\ paying' \in [Threads -> SUBSET FdIds]
        /\ \A s \in Threads : todo'[s] \subseteq due
    BY <2>1 DEF ReleasedFds
  <2> QED
    BY <2>1, <2>2, <2>3
<1>8. ASSUME NEW r \in Threads, NEW u \in Users, BeginOpen(r, u) \/ BeginProfile(r, u)
      PROVE  FdInv'
  BY <1>8 DEF BeginOpen, BeginProfile, fdVars
<1> QED
  BY <1>1, <1>2, <1>3, <1>4, <1>5, <1>6, <1>7, <1>8 DEF FixedDepositsActivity, FdStep

\* The invariant of the deposits is kept by every step of the bank.
LEMMA FdStepKept ==
    ASSUME FdInv, [BankNext]_bankVars
    PROVE  FdInv'
<1>1. RequestsTyped'
  BY RequestsKept DEF FdInv
<1>2. CASE UNCHANGED fdVars
  BY <1>1, <1>2 DEF fdVars, FdInv, FdTypeOK
<1>3. CASE FixedDepositsActivity
  BY <1>1, <1>3, FixedDepositsKeepFd
<1> QED
  BY <1>2, <1>3 DEF BankNext, BankApprovals, BankSavings, BankLoans, BankFixedDeposits, bankVars

\* A matured deposit is being paid by one request at a time, only after its
\* term, and a paid one is never picked up again, whoever loads a profile and
\* whatever else the bank does.
THEOREM DepositsPaidByOne == BankSpec => []PaidByOne
BY FdInvInit, FdStepKept, FdInvMeans, PTL DEF BankSpec

-----------------------------------------------------------------------------
(* Balances.  Sessions may be stale and updates may be lost; still a debit is *)
(* compared with the very balance it is computed from, so no write is ever    *)
(* negative.  What it takes is that a session has loaded every row it writes. *)

Known == Nat \cup {NotLoaded}

\* The rows a thread is about to write from are in its session: its own, both
\* parties' once it waits for neither, the borrower's once it has it locked.
Session(r) ==
    /\ op[r] \notin {"idle", "bonus"} => who[r] \in Users /\ view[r][who[r]] \in Nat
    /\ op[r] \in {"approve", "settle"} =>
          work[r] \in Txs /\ tx[work[r]].status # "absent"
    /\ op[r] = "settle" =>
          LET x == tx[work[r]]
          IN  /\ want[r] \in Parties(x) \cup {None}
              /\ \A u \in Parties(x) :
                    want[r] \notin {u, x.sender} \ {None} => view[r][u] \in Nat
    /\ op[r] = "loan_approve" /\ read[r] # NoLoan =>
          /\ want[r] \in {None, read[r].owner}
          /\ want[r] = None => view[r][read[r].owner] \in Nat

Sessions ==
    /\ view \in [Threads -> [Users -> Known]]
    /\ want \in [Threads -> Users \cup {None}]
    /\ \A r \in Threads : Session(r)

\* What is recorded names the people its kind needs.
Papers ==
    /\ tx \in [Txs -> TxRow]
    /\ RowsWellFormed
    /\ work \in [Threads -> Txs \cup {None}]
    /\ \A l \in LoanIds : loan[l].status # "absent" => loan[l].owner \in Users
    /\ \A r \in Threads : read[r] # NoLoan => read[r].owner \in Users

Solvent == balance \in [Users -> Nat]

BankInv == PotsInv /\ LoansInv /\ FdInv /\ Papers /\ Sessions /\ Solvent

\* Nobody's request but r's moves, and no recorded transaction changes but in
\* its status.
Alone(r) ==
    \A s \in Threads \ {r} :
        /\ op'[s] = op[s] /\ who'[s] = who[s] /\ view'[s] = view[s]
        /\ want'[s] = want[s] /\ work'[s] = work[s] /\ read'[s] = read[s]

RowsKept ==
    \A t \in Txs :
        tx[t].status # "absent" =>
            /\ tx'[t].status # "absent"
            /\ tx'[t].kind = tx[t].kind /\ tx'[t].amount = tx[t].amount
            /\ tx'[t].sender = tx[t].sender /\ tx'[t].receiver = tx[t].receiver

LEMMA SessionKept ==
    ASSUME RowsKept, NEW s \in Threads, Session(s),
           op'[s] = op[s], who'[s] = who[s], view'[s] = view[s],
           want'[s] = want[s], work'[s] = work[s], read'[s] = read[s]
    PROVE  Session(s)'
BY DEF RowsKept, Session, Parties

\* A step of one request is sound for all if it is for that one.
LEMMA StepOfOne ==
    ASSUME Sessions, RowsKept, NEW r \in Threads, Alone(r), Session(r)',
           NEW session \in [Users -> Known], view' = [view EXCEPT ![r] = session],
           NEW wanted \in Users \cup {None}, want' = [want EXCEPT ![r] = wanted]
    PROVE  Sessions'
<1>1. view' \in [Threads -> [Users -> Known]] /\ want' \in [Threads -> Users \cup {None}]
  BY DEF Sessions
<1>2. ASSUME NEW s \in Threads, s # r
      PROVE  Session(s)'
  BY <1>2, SessionKept DEF Sessions, Alone
<1> QED
  BY <1>1, <1>2 DEF Sessions

LEMMA NobodyMoves ==
    ASSUME Sessions, RowsKept, UNCHANGED <<op, who, view, want, work, read>>
    PROVE  Sessions'
<1>1. \A s \in Threads : Session(s)'
  BY SessionKept DEF Sessions
<1> QED
  BY <1>1 DEF Sessions

LEMMA EmptyViewKnown == EmptyView \in [Users -> Known]
BY DEF EmptyView, Known

\* A request that ends, however it does.
LEMMA EndKeepsSessions ==
    ASSUME RequestsTyped, LoansInv, Papers, Sessions, RowsKept, NEW r \in Threads, Finish(r),
           work' = work \/ work' = [work EXCEPT ![r] = None],
           UNCHANGED read \/ CloseFile(r)
    PROVE  Sessions'
<1>1. Alone(r)
  BY DEF Alone, Finish, CloseFile, Sessions, RequestsTyped, LoansInv, LoanTablesTypeOK, Papers
<1>2. op'[r] = "idle"
  BY DEF Finish, RequestsTyped
<1>3. Session(r)'
  BY <1>2 DEF Session
<1>4. view' = [view EXCEPT ![r] = EmptyView] /\ want' = [want EXCEPT ![r] = None]
  BY DEF Finish
<1> QED
  BY <1>1, <1>3, <1>4, EmptyViewKnown, StepOfOne

\* A request that begins loads its own row; nothing is asked of its session yet
\* but that row.
LEMMA BeginKeepsSessions ==
    ASSUME RequestsTyped, LoansInv, Papers, Sessions, Solvent, RowsKept,
           NEW r \in Threads, NEW u \in Users,
           NEW o \in BankOps \ {"settle"}, Begin(r, u, o),
           NEW wanted \in Users \cup {None}, want' = [want EXCEPT ![r] = wanted],
           UNCHANGED read,
           \/ o # "approve" /\ UNCHANGED work
           \/ \E t \in Txs : tx'[t].status # "absent" /\ work' = [work EXCEPT ![r] = t]
    PROVE  Sessions'
<1> DEFINE session == [EmptyView EXCEPT ![u] = balance[u]]
<1>1. session \in [Users -> Known] /\ session[u] \in Nat
  BY EmptyViewKnown DEF Solvent, Known
<1>2. /\ op[r] = "idle"
      /\ op' = [op EXCEPT ![r] = o]
      /\ who' = [who EXCEPT ![r] = u]
      /\ view' = [view EXCEPT ![r] = session]
  BY DEF Begin
<1> HIDE DEF session
<1>3. Alone(r)
  BY <1>2 DEF Alone, Sessions, RequestsTyped, Papers
<1>4. op'[r] = o /\ who'[r] = u /\ view'[r] = session
  BY <1>2 DEF Sessions, RequestsTyped
<1>5. read'[r] = NoLoan
  BY <1>2 DEF LoansInv, Reading, LoanOps, DecideOps
<1>6. o = "approve" => work'[r] \in Txs /\ tx'[work'[r]].status # "absent"
  BY DEF Papers
<1>7. Session(r)'
  BY <1>1, <1>4, <1>5, <1>6 DEF Session
<1> QED
  BY <1>1, <1>2, <1>3, <1>7, StepOfOne

\* A row that is locked is in the session, whether the lock reloads it or not.
LEMMA LockLoads ==
    ASSUME Sessions, Solvent, NEW r \in Threads, NEW refresh, NEW next, LockRow(r, refresh, next)
    PROVE  /\ want[r] \in Users
           /\ \E session \in [Users -> Known] :
                 /\ view' = [view EXCEPT ![r] = session]
                 /\ session[want[r]] \in Nat
                 /\ \A u \in Users : view[r][u] \in Nat => session[u] \in Nat
<1> DEFINE u == want[r]
<1>1. u \in Users /\ balance[u] \in Nat /\ view[r] \in [Users -> Known]
  BY DEF LockRow, Sessions, Solvent
<1>2. CASE view' = view
  <2>1. view[r][u] # NotLoaded
    BY <1>1, <1>2 DEF LockRow, Sessions, NotLoaded
  <2>2. view[r][u] \in Nat
    BY <1>1, <2>1 DEF Known
  <2>3. view' = [view EXCEPT ![r] = view[r]]
    BY <1>2 DEF Sessions
  <2> QED
    BY <1>1, <2>2, <2>3
<1>3. CASE view' = [view EXCEPT ![r][u] = balance[u]]
  <2> DEFINE session == [view[r] EXCEPT ![u] = balance[u]]
  <2>1. session \in [Users -> Known] /\ session[u] \in Nat
    BY <1>1 DEF Known
  <2>2. \A v \in Users : view[r][v] \in Nat => session[v] \in Nat
    BY <1>1
  <2>3. view' = [view EXCEPT ![r] = session]
    BY <1>3
  <2> HIDE DEF session
  <2> QED
    BY <1>1, <2>1, <2>2, <2>3
<1> QED
  BY <1>2, <1>3 DEF LockRow

\* A settling thread that locks a party asks for the other one or for none.
LEMMA LockPartyKeepsSessions ==
    ASSUME Papers, Sessions, Solvent, NEW r \in Threads, LockParty(r), UNCHANGED read
    PROVE  Sessions'
<1> DEFINE x == tx[work[r]]
           next == NextParty(x, want[r])
<1>1. /\ op[r] = "settle"
      /\ LockRow(r, FALSE, next)
      /\ want' = [want EXCEPT ![r] = next]
      /\ UNCHANGED <<op, who, work, tx>>
  BY DEF LockParty, LockRow, approvalsVars
<1>2. PICK session \in [Users -> Known] :
         /\ view' = [view EXCEPT ![r] = session]
         /\ session[want[r]] \in Nat
         /\ \A u \in Users : view[r][u] \in Nat => session[u] \in Nat
  BY <1>1, LockLoads
<1>3. /\ work[r] \in Txs /\ x.status # "absent" /\ x \in TxRow /\ WellFormed(x)
      /\ want[r] \in Users
  BY <1>1, LockLoads DEF Sessions, Session, Papers, RowsWellFormed
<1>4. /\ who[r] \in Users /\ view[r][who[r]] \in Nat
      /\ want[r] \in Parties(x) \cup {None}
      /\ \A u \in Parties(x) : want[r] \notin {u, x.sender} \ {None} => view[r][u] \in Nat
  BY <1>1 DEF Sessions, Session
<1>5. view'[r] = session /\ want'[r] = next /\ work'[r] = work[r] /\ tx' = tx /\ op'[r] = "settle"
      /\ who'[r] = who[r]
  BY <1>1, <1>2 DEF Sessions
<1>6. next \in Parties(x) \cup {None} /\ next \in Users \cup {None}
  BY <1>3, <1>4, AccountsAssumption DEF NextParty, Parties, WellFormed, TxRow
<1>7. ASSUME NEW u \in Parties(x), next \notin {u, x.sender} \ {None}
      PROVE  session[u] \in Nat
  <2>1. u \in Users
    BY <1>3 DEF Parties, TxRow
  <2>2. CASE u = want[r]
    BY <1>2, <2>2
  <2>3. CASE u # want[r]
    <3>1. want[r] \notin {u, x.sender} \ {None}
      BY <1>3, <1>4, <1>7, <2>1, <2>3, AccountsAssumption DEF NextParty, Parties, WellFormed, TxRow, Kinds
    <3> QED
      BY <1>2, <1>4, <2>1, <3>1
  <2> QED
    BY <2>2, <2>3
<1> HIDE DEF next
<1>8. Session(r)'
  BY <1>2, <1>3, <1>4, <1>5, <1>6, <1>7 DEF Session
<1>9. Alone(r) /\ RowsKept
  BY <1>1, <1>2 DEF Alone, RowsKept, Sessions
<1> QED
  BY <1>1, <1>2, <1>6, <1>8, <1>9, StepOfOne

\* Another lock of a users row, after which the request waits for none.
LEMMA LockLastKeepsSessions ==
    ASSUME RequestsTyped, LoansInv, Sessions, Solvent, NEW r \in Threads, NEW refresh,
           LockRow(r, refresh, None), op[r] \in MoveOps \cup {"loan_approve"},
           UNCHANGED <<tx, work, read>>
    PROVE  Sessions'
<1>1. PICK session \in [Users -> Known] :
         /\ view' = [view EXCEPT ![r] = session]
         /\ session[want[r]] \in Nat
         /\ \A u \in Users : view[r][u] \in Nat => session[u] \in Nat
  BY LockLoads
<1>2. want[r] \in Users
  BY LockLoads
<1>3. UNCHANGED <<op, who>> /\ want' = [want EXCEPT ![r] = None]
  BY DEF LockRow
<1>4. view'[r] = session /\ want'[r] = None /\ op'[r] = op[r]
  BY <1>1, <1>3 DEF Sessions
<1>5. Session(r)'
  BY <1>1, <1>2, <1>3, <1>4, AccountsAssumption DEF Session, Sessions, MoveOps
<1>6. Alone(r) /\ RowsKept
  BY <1>1, <1>3 DEF Alone, RowsKept, Sessions
<1> QED
  BY <1>1, <1>3, <1>5, <1>6, StepOfOne

LEMMA InsertKeepsBank ==
    ASSUME BankInv, NEW r \in Threads, NEW x \in TxRow, WellFormed(x), x.status = "pending",
           Insert(r, x), UNCHANGED loansVars
    PROVE  Papers' /\ Sessions' /\ Solvent'
<1>1. PICK t \in Txs : tx[t].status = "absent" /\ tx' = [tx EXCEPT ![t] = x]
  BY DEF Insert, Fresh
<1>2. /\ Finish(r)
      /\ UNCHANGED <<balance, work, loan, read>>
  BY DEF Insert, loansVars
<1>3. Papers'
  BY <1>1, <1>2 DEF BankInv, Papers, RowsWellFormed
<1>4. RowsKept
  BY <1>1 DEF RowsKept, BankInv, Papers
<1>5. Sessions'
  BY <1>2, <1>4, EndKeepsSessions DEF BankInv, PotsInv
<1> QED
  BY <1>2, <1>3, <1>5 DEF BankInv, Solvent

LEMMA SubmitKeepsBank ==
    ASSUME BankInv, NEW r \in Threads, UNCHANGED loansVars,
           SubmitDeposit(r) \/ SubmitWithdrawal(r) \/ SubmitTransfer(r)
    PROVE  Papers' /\ Sessions' /\ Solvent'
<1>1. who[r] \in Users
  BY DEF SubmitDeposit, SubmitWithdrawal, SubmitTransfer, BankInv, Sessions, Session
<1>2. \A a \in Amounts : a \in Nat
  BY ApprovalsAssumption
<1>3. CASE SubmitDeposit(r)
  <2>1. PICK a \in Amounts : Insert(r, NewTx("deposit", a, None, who[r]))
    BY <1>3 DEF SubmitDeposit
  <2> DEFINE x == NewTx("deposit", a, None, who[r])
  <2>2. x \in TxRow /\ WellFormed(x) /\ x.status = "pending"
    BY <1>1, <1>2 DEF NewTx, TxRow, Kinds, Statuses, WellFormed
  <2> HIDE DEF x
  <2> QED
    BY <2>1, <2>2, InsertKeepsBank DEF x
<1>4. CASE SubmitWithdrawal(r)
  <2>1. PICK a \in Amounts : Insert(r, NewTx("withdrawal", a, who[r], None))
    BY <1>4 DEF SubmitWithdrawal
  <2> DEFINE x == NewTx("withdrawal", a, who[r], None)
  <2>2. x \in TxRow /\ WellFormed(x) /\ x.status = "pending"
    BY <1>1, <1>2 DEF NewTx, TxRow, Kinds, Statuses, WellFormed
  <2> HIDE DEF x
  <2> QED
    BY <2>1, <2>2, InsertKeepsBank DEF x
<1>5. CASE SubmitTransfer(r)
  <2>1. PICK a \in Amounts, v \in Users \ {who[r]} : Insert(r, NewTx("transfer", a, who[r], v))
    BY <1>5 DEF SubmitTransfer
  <2> DEFINE x == NewTx("transfer", a, who[r], v)
  <2>2. x \in TxRow /\ WellFormed(x) /\ x.status = "pending"
    BY <1>1, <1>2 DEF NewTx, TxRow, Kinds, Statuses, WellFormed
  <2> HIDE DEF x
  <2> QED
    BY <2>1, <2>2, InsertKeepsBank DEF x
<1> QED
  BY <1>3, <1>4, <1>5

\* Both parties' balances are written from what the session knows; the sender's
\* covers the amount.
LEMMA CommitApprovalKeepsBank ==
    ASSUME BankInv, NEW r \in Threads, CommitApproval(r), UNCHANGED loansVars
    PROVE  Papers' /\ Sessions' /\ Solvent'
<1> DEFINE t == work[r]
           x == tx[t]
<1>1. /\ op[r] = "settle" /\ want[r] = None /\ Covered(r, x)
      /\ balance' = [u \in Users |->
            IF u \in Parties(x) THEN view[r][u] + Effect(x, u) ELSE balance[u]]
      /\ tx' = [tx EXCEPT ![t].status = "approved"]
      /\ view' = [view EXCEPT ![r] = EmptyView]
      /\ op' = [op EXCEPT ![r] = "bonus"]
      /\ UNCHANGED <<who, want, work, loan, read>>
  BY DEF CommitApproval, loansVars
<1>2. t \in Txs /\ x.status # "absent" /\ x \in TxRow /\ WellFormed(x)
  BY <1>1 DEF BankInv, Sessions, Session, Papers, RowsWellFormed
<1>3. \A u \in Parties(x) : view[r][u] \in Nat
  BY <1>1 DEF BankInv, Sessions, Session
<1>4. ASSUME NEW u \in Parties(x)
      PROVE  view[r][u] + Effect(x, u) \in Nat
  <2>1. view[r][u] \in Nat /\ x.amount \in Nat
    BY <1>2, <1>3 DEF TxRow
  <2>2. CASE u = x.receiver
    BY <2>1, <2>2 DEF Effect
  <2>3. CASE u # x.receiver
    <3>1. u = x.sender /\ u # None
      BY <1>4, <2>3 DEF Parties
    <3>2. x.kind # "deposit"
      BY <1>2, <3>1 DEF WellFormed
    <3>3. x.amount <= view[r][u]
      BY <1>1, <3>1, <3>2 DEF Covered
    <3> QED
      BY <2>1, <2>3, <3>1, <3>3 DEF Effect
  <2> QED
    BY <2>2, <2>3
<1>5. Solvent'
  BY <1>1, <1>4 DEF BankInv, Solvent
<1>6. RowsKept /\ RowsWellFormed' /\ tx' \in [Txs -> TxRow]
  <2>1. /\ tx' \in [Txs -> TxRow]
        /\ \A s \in Txs \ {t} : tx'[s] = tx[s]
        /\ tx'[t] = [x EXCEPT !.status = "approved"]
    BY <1>1, <1>2 DEF BankInv, Papers, TxRow, Statuses
  <2>2. /\ tx'[t].status = "approved" /\ tx'[t].kind = x.kind /\ tx'[t].amount = x.amount
        /\ tx'[t].sender = x.sender /\ tx'[t].receiver = x.receiver
    BY <1>2, <2>1 DEF TxRow
  <2> HIDE DEF x
  <2>3. WellFormed(tx'[t])
    BY <1>2, <2>2 DEF WellFormed
  <2> QED
    BY <1>2, <2>1, <2>2, <2>3 DEF RowsKept, RowsWellFormed, BankInv, Papers, x
<1>7. Papers'
  BY <1>1, <1>6 DEF BankInv, Papers
<1>8. op'[r] = "bonus" /\ Alone(r)
  BY <1>1 DEF Alone, BankInv, PotsInv, RequestsTyped, Sessions
<1>9. Session(r)'
  BY <1>8 DEF Session
<1>10. want[r] \in Users \cup {None} /\ want' = [want EXCEPT ![r] = want[r]]
  BY <1>1 DEF BankInv, Sessions
<1>11. Sessions'
  BY <1>1, <1>6, <1>8, <1>9, <1>10, EmptyViewKnown, StepOfOne DEF BankInv
<1> QED
  BY <1>5, <1>7, <1>11

LEMMA ApprovalsKeepBank ==
    ASSUME BankInv, BankApprovals
    PROVE  Papers' /\ Sessions' /\ Solvent'
<1>1. UNCHANGED loansVars
  BY DEF BankApprovals
<1>2. ASSUME UNCHANGED tx
      PROVE  RowsKept
  BY <1>2 DEF RowsKept
<1>3. ASSUME NEW r \in Threads,
             \/ RefuseDecided(r) \/ RefuseUncovered(r) \/ CommitBackfill(r)
             \/ RefuseSubmit(r) \/ Abort(r) \/ AbortVictim(r) \/ SkipBonus(r)
      PROVE  Papers' /\ Sessions' /\ Solvent'
  <2>1. /\ Finish(r)
        /\ UNCHANGED <<balance, tx, loan, read>>
        /\ work' = work \/ work' = [work EXCEPT ![r] = None]
    BY <1>1, <1>3 DEF RefuseDecided, RefuseUncovered, CommitBackfill, RefuseSubmit, Abort,
       AbortVictim, DeadlockVictim, RollBack, Forget, SkipBonus, loansVars
  <2>2. Papers'
    BY <2>1 DEF BankInv, Papers, RowsWellFormed
  <2>3. Sessions'
    BY <1>2, <2>1, EndKeepsSessions DEF BankInv, PotsInv
  <2> QED
    BY <2>1, <2>2, <2>3 DEF BankInv, Solvent
<1>4. ASSUME NEW r \in Threads, LockPending(r)
      PROVE  Papers' /\ Sessions' /\ Solvent'
  <2> DEFINE x == tx[work[r]]
             first == FirstParty(x)
  <2>1. /\ op[r] = "approve"
        /\ op' = [op EXCEPT ![r] = "settle"]
        /\ want' = [want EXCEPT ![r] = first]
        /\ UNCHANGED <<balance, who, view, tx, work, loan, read>>
    BY <1>1, <1>4 DEF LockPending, loansVars
  <2>2. /\ who[r] \in Users /\ view[r][who[r]] \in Nat
        /\ work[r] \in Txs /\ x.status # "absent" /\ WellFormed(x) /\ x \in TxRow
    BY <2>1 DEF BankInv, Sessions, Session, Papers, RowsWellFormed
  <2>3. /\ first \in Users /\ first \in Parties(x)
        /\ \A u \in Parties(x) : first \in {u, x.sender} \ {None}
    BY <2>2, AccountsAssumption DEF FirstParty, Parties, WellFormed, TxRow, Kinds
  <2> HIDE DEF first
  <2>4. op'[r] = "settle" /\ want'[r] = first
    BY <2>1 DEF BankInv, Sessions, PotsInv, RequestsTyped
  <2>5. Session(r)'
    BY <2>1, <2>2, <2>3, <2>4 DEF Session
  <2>6. Alone(r) /\ view[r] \in [Users -> Known] /\ view' = [view EXCEPT ![r] = view[r]]
    BY <2>1 DEF Alone, BankInv, Sessions, PotsInv, RequestsTyped
  <2>7. Sessions'
    BY <1>2, <2>1, <2>3, <2>5, <2>6, StepOfOne DEF BankInv
  <2> QED
    BY <2>1, <2>7 DEF BankInv, Papers, RowsWellFormed, Solvent
<1>5. ASSUME NEW r \in Threads, NEW u \in Users,
             BeginSubmit(r, u) \/ BeginBackfill(r, u)
      PROVE  Papers' /\ Sessions' /\ Solvent'
  <2>1. PICK o \in {"submit", "backfill"} : Begin(r, u, o)
    BY <1>5 DEF BeginSubmit, BeginBackfill
  <2>2. UNCHANGED <<balance, want, tx, work, loan, read>>
    BY <1>1, <1>5 DEF BeginSubmit, BeginBackfill, approvalsVars, loansVars
  <2>3. o \in BankOps \ {"settle"} /\ o # "approve"
    BY DEF BankOps, ApprovalOps
  <2>4. want[r] \in Users \cup {None} /\ want' = [want EXCEPT ![r] = want[r]]
    BY <2>2 DEF BankInv, Sessions
  <2>5. Sessions'
    BY <1>2, <2>1, <2>2, <2>3, <2>4, BeginKeepsSessions DEF BankInv, PotsInv
  <2> QED
    BY <2>2, <2>5 DEF BankInv, Papers, RowsWellFormed, Solvent
<1>6. ASSUME NEW r \in Threads, NEW u \in Users, NEW t \in Txs, BeginApprove(r, u, t)
      PROVE  Papers' /\ Sessions' /\ Solvent'
  <2>1. /\ Begin(r, u, "approve")
        /\ tx[t].status # "absent"
        /\ work' = [work EXCEPT ![r] = t]
        /\ UNCHANGED <<balance, want, tx, loan, read>>
    BY <1>1, <1>6 DEF BeginApprove, loansVars
  <2>2. "approve" \in BankOps \ {"settle"}
    BY DEF BankOps, ApprovalOps
  <2>3. want[r] \in Users \cup {None} /\ want' = [want EXCEPT ![r] = want[r]]
    BY <2>1 DEF BankInv, Sessions
  <2>4. Sessions'
    BY <1>2, <2>1, <2>2, <2>3, BeginKeepsSessions DEF BankInv, PotsInv
  <2> QED
    BY <2>1, <2>4 DEF BankInv, Papers, RowsWellFormed, Solvent
<1>7. ASSUME NEW t \in Txs, Reject(t)
      PROVE  Papers' /\ Sessions' /\ Solvent'
  <2>1. /\ tx[t].status = "pending"
        /\ tx' = [tx EXCEPT ![t].status = "rejected"]
        /\ UNCHANGED <<balance, op, who, view, want, work, loan, read>>
    BY <1>1, <1>7 DEF Reject, Pending, accountsVars, loansVars
  <2>2. /\ tx' \in [Txs -> TxRow]
        /\ \A s \in Txs \ {t} : tx'[s] = tx[s]
        /\ tx'[t] = [tx[t] EXCEPT !.status = "rejected"]
    BY <2>1 DEF BankInv, Papers, TxRow, Statuses
  <2> DEFINE x == tx[t]
             new == tx'[t]
  <2>3. x \in TxRow
    BY DEF BankInv, Papers
  <2>4. /\ new.status = "rejected" /\ new.kind = x.kind /\ new.amount = x.amount
        /\ new.sender = x.sender /\ new.receiver = x.receiver
    BY <2>2, <2>3 DEF TxRow
  <2>5. WellFormed(x)
    BY <2>1 DEF BankInv, Papers, RowsWellFormed
  <2>6. WellFormed(new)
    BY <2>4, <2>5 DEF WellFormed
  <2>7. RowsKept /\ RowsWellFormed'
    BY <2>2, <2>4, <2>6 DEF RowsKept, RowsWellFormed, BankInv, Papers
  <2>8. Sessions'
    BY <2>1, <2>7, NobodyMoves DEF BankInv
  <2> QED
    BY <2>1, <2>2, <2>7, <2>8 DEF BankInv, Papers, Solvent
<1>8. ASSUME NEW r \in Threads, CheckRecorded(r)
      PROVE  Papers' /\ Sessions' /\ Solvent'
  <2>1. UNCHANGED <<balance, op, who, view, want, tx, work, loan, read>>
    BY <1>1, <1>8 DEF CheckRecorded, accountsVars, loansVars
  <2> QED
    BY <1>2, <2>1, NobodyMoves DEF BankInv, Papers, RowsWellFormed, Solvent
<1>9. ASSUME NEW r \in Threads, LockParty(r)
      PROVE  Papers' /\ Sessions' /\ Solvent'
  <2>1. UNCHANGED <<balance, tx, work, loan, read>>
    BY <1>1, <1>9 DEF LockParty, LockRow, approvalsVars, loansVars
  <2>2. Sessions'
    BY <1>9, <2>1, LockPartyKeepsSessions DEF BankInv
  <2> QED
    BY <2>1, <2>2 DEF BankInv, Papers, RowsWellFormed, Solvent
<1>10. ASSUME NEW r \in Threads, SubmitDeposit(r) \/ SubmitWithdrawal(r) \/ SubmitTransfer(r)
       PROVE  Papers' /\ Sessions' /\ Solvent'
  BY <1>1, <1>10, SubmitKeepsBank
<1>11. ASSUME NEW r \in Threads, CommitApproval(r)
       PROVE  Papers' /\ Sessions' /\ Solvent'
  BY <1>1, <1>11, CommitApprovalKeepsBank
<1> QED
  BY <1>3, <1>4, <1>5, <1>6, <1>7, <1>8, <1>9, <1>10, <1>11
     DEF BankApprovals, ApprovalActivity, ApprovalStep

\* A request that goes on to its next step with the same session.
LEMMA GoOnKeepsSessions ==
    ASSUME RequestsTyped, Sessions, RowsKept, NEW r \in Threads,
           NEW o, o \notin {"approve", "settle", "loan_approve"},
           op[r] \notin {"idle", "bonus"}, op' = [op EXCEPT ![r] = o],
           UNCHANGED <<who, view, want, work, read>>
    PROVE  Sessions'
<1>1. op'[r] = o
  BY DEF RequestsTyped
<1>2. Session(r)'
  BY <1>1 DEF Sessions, Session
<1>3. Alone(r)
  BY DEF Alone, RequestsTyped
<1>4. view[r] \in [Users -> Known] /\ view' = [view EXCEPT ![r] = view[r]]
  BY DEF Sessions
<1>5. want[r] \in Users \cup {None} /\ want' = [want EXCEPT ![r] = want[r]]
  BY DEF Sessions
<1> QED
  BY <1>2, <1>3, <1>4, <1>5, StepOfOne

LEMMA MoveKeepsBank ==
    ASSUME BankInv, NEW r \in Threads, op[r] \in MoveOps, NEW amount \in Int, NEW status,
           amount <= view[r][who[r]], Move(r, amount, status),
           UNCHANGED <<approvalsVars, loansVars>>
    PROVE  Sessions' /\ Solvent'
<1>1. who[r] \in Users /\ view[r][who[r]] \in Nat
  BY DEF BankInv, Sessions, Session, MoveOps
<1>2. /\ Finish(r)
      /\ balance' = [balance EXCEPT ![who[r]] = view[r][who[r]] - amount]
      /\ UNCHANGED <<tx, work, read>>
  BY DEF Move, approvalsVars, loansVars
<1>3. Solvent'
  BY <1>1, <1>2 DEF BankInv, Solvent
<1>4. RowsKept
  BY <1>2 DEF RowsKept
<1>5. Sessions'
  BY <1>2, <1>4, EndKeepsSessions DEF BankInv, PotsInv
<1> QED
  BY <1>3, <1>5

LEMMA SavingsKeepBank ==
    ASSUME BankInv, BankSavings
    PROVE  Papers' /\ Sessions' /\ Solvent'
<1>1. UNCHANGED <<approvalsVars, loansVars>>
  BY DEF BankSavings
<1>2. UNCHANGED <<tx, work, loan, read>> /\ RowsKept
  BY <1>1 DEF approvalsVars, loansVars, RowsKept
<1>3. Papers'
  BY <1>2 DEF BankInv, Papers, RowsWellFormed
<1>4. ASSUME NEW r \in Threads, PutIn(r) \/ TakeOut(r) \/ ClosePot(r)
      PROVE  Sessions' /\ Solvent'
  <2>1. op[r] \in MoveOps /\ aim[r] \in Pots
    BY <1>4 DEF PutIn, TakeOut, ClosePot, MoveOps, BankInv, PotsInv
  <2>2. who[r] \in Users /\ view[r][who[r]] \in Nat
    BY <2>1 DEF BankInv, Sessions, Session, MoveOps
  <2>3. pot[aim[r]].saved \in Nat
    BY <2>1 DEF BankInv, PotsInv, PotsSound, PotRow
  <2>4. CASE PutIn(r)
    <3>1. PICK a \in PotAmounts : a <= view[r][who[r]] /\ Move(r, a, "active")
      BY <2>4 DEF PutIn
    <3>2. a \in Int
      BY SavingsAssumption
    <3> QED
      BY <1>1, <2>1, <3>1, <3>2, MoveKeepsBank
  <2>5. CASE TakeOut(r)
    <3>1. PICK a \in PotAmounts : Move(r, 0 - a, "active")
      BY <2>5 DEF TakeOut
    <3>2. 0 - a \in Int /\ 0 - a <= view[r][who[r]]
      BY <2>2, SavingsAssumption
    <3> QED
      BY <1>1, <2>1, <3>1, <3>2, MoveKeepsBank
  <2>6. CASE ClosePot(r)
    <3>1. Move(r, 0 - pot[aim[r]].saved, "closed")
      BY <2>6 DEF ClosePot
    <3>2. 0 - pot[aim[r]].saved \in Int /\ 0 - pot[aim[r]].saved <= view[r][who[r]]
      BY <2>2, <2>3
    <3> QED
      BY <1>1, <2>1, <3>1, <3>2, MoveKeepsBank
  <2> QED
    BY <1>4, <2>4, <2>5, <2>6
<1>5. ASSUME NEW r \in Threads, InsertPot(r) \/ AbortSaving(r)
      PROVE  Sessions' /\ Solvent'
  <2>1. Finish(r) /\ UNCHANGED balance
    BY <1>5 DEF InsertPot, AbortSaving, RollBack
  <2>2. Sessions'
    BY <1>2, <2>1, EndKeepsSessions DEF BankInv, PotsInv
  <2> QED
    BY <2>1, <2>2 DEF BankInv, Solvent
<1>6. ASSUME NEW r \in Threads, CountPots(r)
      PROVE  Sessions' /\ Solvent'
  <2>1. /\ op[r] = "pot_count" /\ op' = [op EXCEPT ![r] = "pot_insert"]
        /\ UNCHANGED <<balance, who, view, want>>
    BY <1>6 DEF CountPots
  <2>2. Sessions'
    BY <1>2, <2>1, GoOnKeepsSessions DEF BankInv, PotsInv
  <2> QED
    BY <2>1, <2>2 DEF BankInv, Solvent
<1>7. ASSUME NEW r \in Threads, LockPot(r)
      PROVE  Sessions' /\ Solvent'
  <2>1. UNCHANGED <<balance, op, who, view, want>>
    BY <1>7 DEF LockPot, accountsVars
  <2> QED
    BY <1>2, <2>1, NobodyMoves DEF BankInv, Solvent
<1>8. ASSUME NEW r \in Threads, LockSaver(r)
      PROVE  Sessions' /\ Solvent'
  <2>1. LockRow(r, TRUE, None) /\ op[r] \in MoveOps /\ UNCHANGED balance
    BY <1>8 DEF LockSaver, LockRow
  <2>2. Sessions'
    BY <1>2, <2>1, LockLastKeepsSessions DEF BankInv, PotsInv
  <2> QED
    BY <2>1, <2>2 DEF BankInv, Solvent
<1>9. ASSUME NEW r \in Threads, NEW u \in Users,
             \/ BeginCreatePot(r, u)
             \/ \E p \in Pots, o \in MoveOps : BeginMove(r, u, p, o)
      PROVE  Sessions' /\ Solvent'
  <2>1. PICK o \in SavingsOps : Begin(r, u, o)
    BY <1>9 DEF BeginCreatePot, BeginMove, SavingsOps
  <2>2. o \in BankOps \ {"settle"} /\ o # "approve"
    BY DEF BankOps, SavingsOps, MoveOps
  <2>3. UNCHANGED balance /\ (want' = want \/ want' = [want EXCEPT ![r] = u])
    BY <1>9 DEF BeginCreatePot, BeginMove
  <2>4. PICK wanted \in Users \cup {None} : want' = [want EXCEPT ![r] = wanted]
    BY <2>3 DEF BankInv, Sessions
  <2>5. Sessions'
    BY <1>2, <2>1, <2>2, <2>4, BeginKeepsSessions DEF BankInv, PotsInv
  <2> QED
    BY <2>3, <2>5 DEF BankInv, Solvent
<1> QED
  BY <1>3, <1>4, <1>5, <1>6, <1>7, <1>8, <1>9 DEF BankSavings, SavingsActivity, SavingStep

\* A commit to a loan leaves its owner.
LEMMA OwnersKept ==
    ASSUME BankInv, NEW r \in Threads, read[r] # NoLoan, CloseFile(r), UNCHANGED <<tx, work>>,
           NEW outstanding, NEW status,
           loan' = [loan EXCEPT ![file[r]] = Settled(loan[file[r]], outstanding, status)]
    PROVE  Papers'
<1> DEFINE l == file[r]
           new == Settled(loan[l], outstanding, status)
<1>1. Reading(r)
  BY DEF BankInv, LoansInv
<1>2. l \in LoanIds /\ loan[l].owner \in Users /\ loan[l] \in LoanRow
  BY <1>1 DEF Reading, BankInv, Papers, LoansInv, LoanTablesTypeOK
<1>3. new.owner = loan[l].owner
  BY <1>2 DEF Settled, LoanRow
<1> HIDE DEF new
<1>4. loan'[l] = new /\ \A k \in LoanIds \ {l} : loan'[k] = loan[k]
  BY <1>2 DEF BankInv, LoansInv, LoanTablesTypeOK, new
<1>5. \A s \in Threads : read'[s] = read[s] \/ read'[s] = NoLoan
  BY DEF CloseFile, BankInv, LoansInv, LoanTablesTypeOK
<1> QED
  BY <1>2, <1>3, <1>4, <1>5 DEF BankInv, Papers, RowsWellFormed

LEMMA LoanCommitsKeepBank ==
    ASSUME BankInv, BankLoans, NEW r \in Threads,
           CommitRepay(r) \/ CommitLoan(r) \/ CommitRejection(r)
    PROVE  Papers' /\ Sessions' /\ Solvent'
<1>1. UNCHANGED <<tx, work>> /\ RowsKept
  BY DEF BankLoans, approvalsVars, RowsKept
<1>2. Finish(r) /\ CloseFile(r) /\ read[r] # NoLoan
  BY DEF CommitRepay, CommitLoan, CommitRejection
<1>3. Sessions'
  BY <1>1, <1>2, EndKeepsSessions DEF BankInv, PotsInv
<1>4. Reading(r) /\ file[r] \in LoanIds /\ loan[file[r]] \in LoanRow /\ read[r] \in LoanRow
  BY <1>2 DEF Reading, BankInv, LoansInv, LoanTablesTypeOK
<1>5. ASSUME CommitRepay(r)
      PROVE  Papers' /\ Solvent'
  <2>1. op[r] = "loan_repay" /\ who[r] \in Users /\ view[r][who[r]] \in Nat
    BY <1>5 DEF CommitRepay, BankInv, Sessions, Session
  <2>2. PICK a \in Repayments :
           /\ Within(a, view[r][who[r]])
           /\ balance' = [balance EXCEPT ![who[r]] = Less(view[r][who[r]], a)]
           /\ loan' = [loan EXCEPT ![file[r]].outstanding = Less(read[r].outstanding, a),
                 ![file[r]].status = IF read[r].outstanding * Parts <= a THEN "repaid" ELSE @]
    BY <1>5 DEF CommitRepay
  <2>3. Less(view[r][who[r]], a) \in Nat
    BY <2>1, <2>2, LoansAssumption, LessAmount, StoredAmount
  <2> DEFINE rest == Less(read[r].outstanding, a)
             status == IF read[r].outstanding * Parts <= a THEN "repaid" ELSE loan[file[r]].status
  <2>4. loan' = [loan EXCEPT ![file[r]] = Settled(loan[file[r]], rest, status)]
    BY <1>4, <2>2 DEF Settled, BankInv, LoansInv, LoanTablesTypeOK
  <2> HIDE DEF rest, status
  <2>5. Papers'
    BY <1>1, <1>2, <2>4, OwnersKept
  <2> QED
    BY <2>1, <2>2, <2>3, <2>5 DEF BankInv, Solvent
<1>6. ASSUME CommitLoan(r)
      PROVE  Papers' /\ Solvent'
  <2> DEFINE u == read[r].owner
             debt == Repayable(read[r].principal)
  <2>1. /\ op[r] = "loan_approve" /\ want[r] = None
        /\ balance' = [balance EXCEPT ![u] = view[r][u] + read[r].principal]
    BY <1>6 DEF CommitLoan
  <2>2. u \in Users /\ view[r][u] \in Nat /\ read[r].principal \in Nat
    BY <1>2, <1>4, <2>1 DEF BankInv, Papers, Sessions, Session, LoanRow
  <2>3. view[r][u] + read[r].principal \in Nat
    BY <2>2
  <2>4. Solvent'
    BY <2>1, <2>2, <2>3 DEF BankInv, Solvent
  <2>5. loan' = [loan EXCEPT ![file[r]] = Settled(loan[file[r]], debt, "approved")]
    BY <1>6 DEF CommitLoan, Settled
  <2> HIDE DEF debt
  <2>6. Papers'
    BY <1>1, <1>2, <2>5, OwnersKept
  <2> QED
    BY <2>4, <2>6
<1>7. ASSUME CommitRejection(r)
      PROVE  Papers' /\ Solvent'
  <2> DEFINE owed == loan[file[r]].outstanding
  <2>1. loan' = [loan EXCEPT ![file[r]] = Settled(loan[file[r]], owed, "rejected")]
    BY <1>4, <1>7 DEF CommitRejection, Settled, LoanRow
  <2> HIDE DEF owed
  <2>2. Papers'
    BY <1>1, <1>2, <2>1, OwnersKept
  <2> QED
    BY <1>7, <2>2 DEF CommitRejection, BankInv, Solvent
<1> QED
  BY <1>3, <1>5, <1>6, <1>7

LEMMA LoansKeepBank ==
    ASSUME BankInv, BankLoans
    PROVE  Papers' /\ Sessions' /\ Solvent'
<1>1. UNCHANGED <<tx, work>> /\ RowsKept
  BY DEF BankLoans, approvalsVars, RowsKept
<1>2. ASSUME NEW r \in Threads, CommitRepay(r) \/ CommitLoan(r) \/ CommitRejection(r)
      PROVE  Papers' /\ Sessions' /\ Solvent'
  BY <1>2, LoanCommitsKeepBank
<1>3. ASSUME NEW r \in Threads, AbortLoan(r)
      PROVE  Papers' /\ Sessions' /\ Solvent'
  <2>1. Finish(r) /\ CloseFile(r) /\ UNCHANGED <<balance, loan>>
    BY <1>3 DEF AbortLoan, RollBack
  <2>2. Sessions'
    BY <1>1, <2>1, EndKeepsSessions DEF BankInv, PotsInv
  <2>3. \A s \in Threads : read'[s] = read[s] \/ read'[s] = NoLoan
    BY <2>1 DEF CloseFile, BankInv, LoansInv, LoanTablesTypeOK
  <2> QED
    BY <1>1, <2>1, <2>2, <2>3 DEF BankInv, Papers, RowsWellFormed, Solvent
<1>4. ASSUME NEW r \in Threads, ReadLoan(r)
      PROVE  Papers' /\ Sessions' /\ Solvent'
  <2> DEFINE x == loan[file[r]]
             wanted == IF op[r] = "loan_approve" THEN x.owner ELSE None
  <2>1. /\ op[r] \in LoanOps /\ file[r] # None /\ Readable(op[r], x, who[r])
        /\ read' = [read EXCEPT ![r] = x]
        /\ want' = [want EXCEPT ![r] = wanted]
        /\ UNCHANGED <<balance, op, who, view, loan>>
    BY <1>4 DEF ReadLoan, LoanOps
  <2>2. file[r] \in LoanIds /\ x.owner \in Users
    BY <2>1 DEF Readable, BankInv, LoansInv, LoanTablesTypeOK, Papers
  <2>3. Papers'
    BY <1>1, <2>1, <2>2 DEF BankInv, Papers, RowsWellFormed, LoansInv, LoanTablesTypeOK
  <2>4. /\ read'[r] = x /\ want'[r] = wanted /\ op'[r] = op[r] /\ who'[r] = who[r]
        /\ view'[r] = view[r]
    BY <2>1 DEF BankInv, LoansInv, LoanTablesTypeOK, Sessions
  <2>5. Session(r)'
    BY <2>1, <2>2, <2>4, AccountsAssumption DEF BankInv, Sessions, Session, LoanOps, DecideOps
  <2>6. /\ Alone(r)
        /\ wanted \in Users \cup {None}
        /\ view[r] \in [Users -> Known] /\ view' = [view EXCEPT ![r] = view[r]]
    BY <1>1, <2>1, <2>2 DEF Alone, BankInv, Sessions, LoansInv, LoanTablesTypeOK
  <2> HIDE DEF wanted
  <2>7. Sessions'
    BY <1>1, <2>1, <2>5, <2>6, StepOfOne DEF BankInv
  <2> QED
    BY <2>1, <2>3, <2>7 DEF BankInv, Solvent
<1>5. ASSUME NEW r \in Threads, LockBorrower(r)
      PROVE  Papers' /\ Sessions' /\ Solvent'
  <2>1. /\ LockRow(r, FALSE, None) /\ op[r] = "loan_approve"
        /\ UNCHANGED <<balance, loan, read>>
    BY <1>5 DEF LockBorrower, LockRow, loansVars
  <2>2. Sessions'
    BY <1>1, <2>1, LockLastKeepsSessions DEF BankInv, PotsInv
  <2> QED
    BY <1>1, <2>1, <2>2 DEF BankInv, Papers, RowsWellFormed, Solvent
<1>6. ASSUME NEW r \in Threads, NEW u \in Users, NEW l \in LoanIds,
             BeginRepay(r, u, l) \/ \E o \in DecideOps : BeginDecide(r, u, l, o)
      PROVE  Papers' /\ Sessions' /\ Solvent'
  <2>1. PICK o \in LoanOps : Begin(r, u, o)
    BY <1>6 DEF BeginRepay, BeginDecide, LoanOps
  <2>2. o \in BankOps \ {"settle"} /\ o # "approve"
    BY DEF BankOps, LoanOps, DecideOps
  <2>3. UNCHANGED <<balance, want, loan, read>>
    BY <1>6 DEF BeginRepay, BeginDecide
  <2>4. want[r] \in Users \cup {None} /\ want' = [want EXCEPT ![r] = want[r]]
    BY <2>3 DEF BankInv, Sessions
  <2>5. Sessions'
    BY <1>1, <2>1, <2>2, <2>3, <2>4, BeginKeepsSessions DEF BankInv, PotsInv
  <2> QED
    BY <1>1, <2>3, <2>5 DEF BankInv, Papers, RowsWellFormed, Solvent
<1>7. ASSUME NEW u \in Users, ApplyForLoan(u)
      PROVE  Papers' /\ Sessions' /\ Solvent'
  <2>1. PICK l \in LoanIds, p \in Principals :
           loan' = [loan EXCEPT ![l] = [NoLoan EXCEPT !.owner = u, !.principal = Stored(p),
                                                      !.status = "pending"]]
    BY <1>7 DEF ApplyForLoan
  <2>2. UNCHANGED <<balance, op, who, view, want, read>>
    BY <1>7 DEF ApplyForLoan, accountsVars
  <2>3. \A k \in LoanIds : loan'[k] = loan[k] \/ loan'[k].owner = u
    <3>1. [NoLoan EXCEPT !.owner = u, !.principal = Stored(p), !.status = "pending"].owner = u
      BY DEF NoLoan
    <3> QED
      BY <2>1, <3>1 DEF BankInv, LoansInv, LoanTablesTypeOK
  <2>4. Papers'
    BY <1>1, <2>2, <2>3 DEF BankInv, Papers, RowsWellFormed
  <2>5. Sessions'
    BY <1>1, <2>2, NobodyMoves DEF BankInv
  <2> QED
    BY <2>2, <2>4, <2>5 DEF BankInv, Solvent
<1> QED
  BY <1>2, <1>3, <1>4, <1>5, <1>6, <1>7 DEF BankLoans, LoansActivity, LoanStep

\* A payout is added to what the session knows of the owner's balance.
LEMMA ClaimKeepsSessions ==
    ASSUME BankInv, NEW r \in Threads, ClaimNext(r), UNCHANGED <<tx, work, read>>
    PROVE  Sessions'
<1>1. PICK f \in todo[r] : view' = view \/ view' = [view EXCEPT ![r][who[r]] = @ + fd[f].payout]
  BY DEF ClaimNext
<1>2. UNCHANGED <<op, who, want>>
  BY DEF ClaimNext
<1>3. RowsKept
  BY DEF RowsKept
<1>4. CASE view' = view
  BY <1>2, <1>3, <1>4, NobodyMoves DEF BankInv
<1>5. CASE view' = [view EXCEPT ![r][who[r]] = @ + fd[f].payout]
  <2> DEFINE u == who[r]
             sum == view[r][u] + fd[f].payout
             session == [view[r] EXCEPT ![u] = sum]
  <2>1. fd[f].payout \in Nat /\ view[r] \in [Users -> Known]
    BY DEF BankInv, FdInv, FdTypeOK, FdRow, Sessions
  <2>2. \A v \in Users : v = u => sum \in Known /\ (view[r][v] \in Nat => sum \in Nat)
    BY <2>1 DEF Known, NotLoaded
  <2>3. view' = [view EXCEPT ![r] = session]
    BY <1>5
  <2> HIDE DEF sum
  <2>4. session \in [Users -> Known]
    BY <2>1, <2>2
  <2>5. \A v \in Users : view[r][v] \in Nat => session[v] \in Nat
    BY <2>1, <2>2
  <2> HIDE DEF session
  <2>6. view'[r] = session /\ want[r] \in Users \cup {None} /\ want' = [want EXCEPT ![r] = want[r]]
    BY <1>2, <2>3 DEF BankInv, Sessions
  <2>7. /\ op[r] = "settle" => \A v \in Parties(tx[work[r]]) : v \in Users
        /\ read[r] # NoLoan => read[r].owner \in Users
    BY DEF BankInv, Sessions, Session, Papers, Parties, TxRow
  <2>8. Session(r)'
    BY <1>2, <2>5, <2>6, <2>7 DEF Session, BankInv, Sessions
  <2>9. Alone(r)
    BY <1>2, <2>3 DEF Alone, BankInv, Sessions
  <2> QED
    BY <1>3, <2>3, <2>4, <2>6, <2>8, <2>9, StepOfOne DEF BankInv
<1> QED
  BY <1>1, <1>4, <1>5

LEMMA FixedDepositsKeepBank ==
    ASSUME BankInv, BankFixedDeposits
    PROVE  Papers' /\ Sessions' /\ Solvent'
<1>1. UNCHANGED <<tx, work, loan, read>> /\ RowsKept
  BY DEF BankFixedDeposits, approvalsVars, loansVars, RowsKept
<1>2. Papers'
  BY <1>1 DEF BankInv, Papers, RowsWellFormed
<1>3. ASSUME NEW r \in Threads, Finish(r)
      PROVE  Sessions'
  BY <1>1, <1>3, EndKeepsSessions DEF BankInv, PotsInv
<1>4. ASSUME NEW r \in Threads, CommitOpen(r)
      PROVE  Sessions' /\ Solvent'
  <2>1. who[r] \in Users /\ view[r][who[r]] \in Nat /\ Finish(r)
    BY <1>4 DEF CommitOpen, BankInv, Sessions, Session
  <2>2. PICK p \in FdPrincipals :
           /\ Within(p, view[r][who[r]])
           /\ balance' = [balance EXCEPT ![who[r]] = Less(view[r][who[r]], p)]
    BY <1>4, Zenon DEF CommitOpen
  <2>3. Less(view[r][who[r]], p) \in Nat
    BY <2>1, <2>2, FixedDepositsAssumption, LessAmount, StoredAmount
  <2> QED
    BY <1>3, <2>1, <2>2, <2>3 DEF BankInv, Solvent
<1>5. ASSUME NEW r \in Threads, CommitPayout(r)
      PROVE  Sessions' /\ Solvent'
  <2>1. /\ Finish(r)
        /\ op[r] = "fd_payout"
        /\ balance' = [balance EXCEPT ![who[r]] = view[r][who[r]]]
    BY <1>5 DEF CommitPayout
  <2>2. who[r] \in Users /\ view[r][who[r]] \in Nat
    BY <2>1 DEF BankInv, Sessions, Session
  <2> QED
    BY <1>3, <2>1, <2>2 DEF BankInv, Solvent
<1>6. ASSUME NEW r \in Threads, NothingMatured(r) \/ AbortFd(r)
      PROVE  Sessions' /\ Solvent'
  BY <1>3, <1>6 DEF NothingMatured, AbortFd, RollBack, BankInv, Solvent
<1>7. ASSUME NEW r \in Threads, SelectMatured(r)
      PROVE  Sessions' /\ Solvent'
  <2>1. /\ op[r] = "fd_profile" /\ op' = [op EXCEPT ![r] = "fd_payout"]
        /\ UNCHANGED <<balance, who, view, want>>
    BY <1>7 DEF SelectMatured
  <2>2. Sessions'
    BY <1>1, <2>1, GoOnKeepsSessions DEF BankInv, PotsInv
  <2> QED
    BY <2>1, <2>2 DEF BankInv, Solvent
<1>8. ASSUME NEW r \in Threads, ClaimNext(r)
      PROVE  Sessions' /\ Solvent'
  BY <1>1, <1>8, ClaimKeepsSessions DEF ClaimNext, BankInv, Solvent
<1>9. ASSUME NEW f \in FdIds, Mature(f)
      PROVE  Sessions' /\ Solvent'
  <2>1. UNCHANGED <<balance, op, who, view, want>>
    BY <1>9 DEF Mature, accountsVars
  <2> QED
    BY <1>1, <2>1, NobodyMoves DEF BankInv, Solvent
<1>10. ASSUME NEW r \in Threads, NEW u \in Users, BeginOpen(r, u) \/ BeginProfile(r, u)
       PROVE  Sessions' /\ Solvent'
  <2>1. PICK o \in FdOps : Begin(r, u, o)
    BY <1>10 DEF BeginOpen, BeginProfile, FdOps
  <2>2. o \in BankOps \ {"settle"} /\ o # "approve"
    BY DEF BankOps, FdOps
  <2>3. UNCHANGED <<balance, want>>
    BY <1>10 DEF BeginOpen, BeginProfile
  <2>4. want[r] \in Users \cup {None} /\ want' = [want EXCEPT ![r] = want[r]]
    BY <2>3 DEF BankInv, Sessions
  <2>5. Sessions'
    BY <1>1, <2>1, <2>2, <2>4, BeginKeepsSessions DEF BankInv, PotsInv
  <2> QED
    BY <2>3, <2>5 DEF BankInv, Solvent
<1> QED
  BY <1>2, <1>4, <1>5, <1>6, <1>7, <1>8, <1>9, <1>10
     DEF BankFixedDeposits, FixedDepositsActivity, FdStep

LEMMA BankInvInit == BankInit => BankInv
<1> SUFFICES ASSUME BankInit
             PROVE  BankInv
  OBVIOUS
<1>1. /\ balance = Opening
      /\ op = [r \in Threads |-> "idle"]
      /\ view = [r \in Threads |-> EmptyView]
      /\ want = [r \in Threads |-> None]
      /\ work = [r \in Threads |-> None]
      /\ loan = [l \in LoanIds |-> NoLoan]
      /\ read = [r \in Threads |-> NoLoan]
  BY DEF BankInit, AccountsInit, ApprovalsInit, LoansInit
<1>2. Solvent
  BY <1>1, AccountsAssumption DEF Solvent
<1>3. Sessions
  BY <1>1, EmptyViewKnown DEF Sessions, Session
<1>4. PICK owner \in [Legacy -> Users], amount \in [Legacy -> Amounts] :
         tx = [t \in Txs |-> IF t \in Legacy THEN LegacyTx(owner[t], amount[t]) ELSE NoTx]
  BY DEF BankInit, ApprovalsInit
<1>5. \A t \in Legacy : LegacyTx(owner[t], amount[t]) \in TxRow /\ WellFormed(LegacyTx(owner[t], amount[t]))
  <2>1. \A t \in Legacy : owner[t] \in Users /\ amount[t] \in Nat
    BY ApprovalsAssumption
  <2> QED
    BY <2>1 DEF LegacyTx, NewTx, TxRow, Kinds, Statuses, WellFormed
<1>6. NoTx \in TxRow /\ NoTx.status = "absent"
  BY DEF NoTx, TxRow, Kinds, Statuses
<1>7. Papers
  BY <1>1, <1>4, <1>5, <1>6 DEF Papers, RowsWellFormed, NoLoan
<1> QED
  BY <1>2, <1>3, <1>7, PotsInvInit, LoansInvInit, FdInvInit DEF BankInv

LEMMA BankInvStep ==
    ASSUME BankInv, [BankNext]_bankVars
    PROVE  BankInv'
<1>1. PotsInv' /\ LoansInv' /\ FdInv'
  BY PotsStep, LoansInvStep, FdStepKept DEF BankInv
<1>2. CASE UNCHANGED bankVars
  <2>1. UNCHANGED <<balance, op, who, view, want, tx, work, loan, read>>
    BY <1>2 DEF bankVars, accountsVars, approvalsVars, loansVars
  <2>2. RowsKept
    BY <2>1 DEF RowsKept
  <2>3. Sessions'
    BY <2>1, <2>2, NobodyMoves DEF BankInv
  <2> QED
    BY <1>1, <2>1, <2>3 DEF BankInv, Papers, RowsWellFormed, Solvent
<1>3. CASE BankNext
  BY <1>1, <1>3, ApprovalsKeepBank, SavingsKeepBank, LoansKeepBank, FixedDepositsKeepBank
     DEF BankNext, BankInv
<1> QED
  BY <1>2, <1>3

\* The whole bank's inductive invariant.
THEOREM BankInvariance == BankSpec => []BankInv
BY BankInvInit, BankInvStep, PTL DEF BankSpec

\* Whatever the handlers that do not lock overwrite, and however stale their
\* sessions are, no balance is ever negative: approvals, savings, loans and
\* fixed deposits together, for any number of people and threads.
THEOREM BankNeverOverdrawn == BankSpec => []NoOverdraft
<1>1. BankInv => NoOverdraft
  BY DEF BankInv, Solvent, NoOverdraft
<1> QED
  BY <1>1, BankInvariance, PTL

-----------------------------------------------------------------------------
(* Row locks.  Every write of a balance goes to a row that the writer holds or *)
(* that nobody holds; and what a session has of a row it locked is what is     *)
(* committed, unless the row was its own and was not reloaded.                 *)

LockingOps == {"settle", "loan_approve"} \cup MoveOps

\* What a thread holds and has in its session: a party's row once it does not
\* wait for it any more, the borrower's, the saver's own.
Holds(r) ==
    /\ \A u \in Users :
          lock[u] = r => op[r] \in LockingOps /\ (Reloads(r, u) => view[r][u] = balance[u])
    /\ \A u \in Users : view[r][u] # NotLoaded => u = who[r] \/ lock[u] = r
    /\ op[r] = "settle" =>
          \A u \in Parties(tx[work[r]]) :
              want[r] \notin {u, tx[work[r]].sender} \ {None} => lock[u] = r
    /\ op[r] = "loan_approve" /\ read[r] # NoLoan /\ want[r] = None => lock[read[r].owner] = r
    /\ op[r] \in MoveOps => want[r] \in {None, who[r]} /\ (want[r] = None => lock[who[r]] = r)

LocksInv ==
    /\ BankInv
    /\ lock \in [Users -> Threads \cup {None}]
    /\ \A r \in Threads : todo[r] # {} => op[r] = "fd_payout"
    /\ \A r \in Threads : Holds(r)

\* The locks of the bank, but for the invariant on the rest.
Locks ==
    /\ lock \in [Users -> Threads \cup {None}]
    /\ \A r \in Threads : Holds(r)

\* A step that is not s's leaves its request and the rows it holds alone.
Untouched(s) ==
    /\ op'[s] = op[s] /\ who'[s] = who[s] /\ view'[s] = view[s]
    /\ want'[s] = want[s] /\ work'[s] = work[s] /\ read'[s] = read[s]
    /\ \A u \in Users :
          /\ lock'[u] = s <=> lock[u] = s
          /\ lock[u] = s => balance'[u] = balance[u]

LEMMA HoldsKept ==
    ASSUME LocksInv, RowsKept, NEW s \in Threads, Untouched(s)
    PROVE  Holds(s)'
<1>1. /\ op'[s] = op[s] /\ who'[s] = who[s] /\ view'[s] = view[s]
      /\ want'[s] = want[s] /\ work'[s] = work[s] /\ read'[s] = read[s]
  BY DEF Untouched
<1>2. \A u \in Users :
         /\ lock'[u] = s <=> lock[u] = s
         /\ lock[u] = s => balance'[u] = balance[u]
  BY DEF Untouched
<1>3. Holds(s) /\ Session(s)
  BY DEF LocksInv, BankInv, Sessions
<1>4. op[s] = "settle" => /\ Parties(tx[work[s]]) \subseteq Users
                          /\ Parties(tx'[work[s]]) = Parties(tx[work[s]])
                          /\ tx'[work[s]].sender = tx[work[s]].sender
  BY <1>3 DEF Session, RowsKept, Parties, LocksInv, BankInv, Papers, TxRow
<1>5. read[s] # NoLoan => read[s].owner \in Users
  BY DEF LocksInv, BankInv, Papers
<1>6. op[s] \in MoveOps => who[s] \in Users
  BY <1>3 DEF Session, MoveOps
<1>7. \A u \in Users : Reloads(s, u)' <=> Reloads(s, u)
  BY <1>1 DEF Reloads
<1>8. \A u \in Users : lock'[u] = s =>
         op'[s] \in LockingOps /\ (Reloads(s, u)' => view'[s][u] = balance'[u])
  BY <1>1, <1>2, <1>3, <1>7 DEF Holds
<1>9. \A u \in Users : view'[s][u] # NotLoaded => u = who'[s] \/ lock'[u] = s
  BY <1>1, <1>2, <1>3 DEF Holds
<1>10. op'[s] = "settle" =>
          \A u \in Parties(tx'[work'[s]]) :
              want'[s] \notin {u, tx'[work'[s]].sender} \ {None} => lock'[u] = s
  BY <1>1, <1>2, <1>3, <1>4 DEF Holds
<1>11. op'[s] = "loan_approve" /\ read'[s] # NoLoan /\ want'[s] = None => lock'[read'[s].owner] = s
  BY <1>1, <1>2, <1>3, <1>5 DEF Holds
<1>12. op'[s] \in MoveOps =>
          want'[s] \in {None, who'[s]} /\ (want'[s] = None => lock'[who'[s]] = s)
  BY <1>1, <1>2, <1>3, <1>6 DEF Holds
<1> QED
  BY <1>8, <1>9, <1>10, <1>11, <1>12 DEF Holds, Parties

LEMMA NobodyMovesLocks ==
    ASSUME LocksInv, RowsKept, UNCHANGED <<balance, lock, op, who, view, want, work, read>>
    PROVE  Locks'
<1>1. \A s \in Threads : Untouched(s)
  BY DEF Untouched
<1> QED
  BY <1>1, HoldsKept DEF Locks, LocksInv

\* What r does leaves the rows of the others to them: it takes or releases what
\* is its own to take or release, and writes what it holds or what nobody holds.
Apart(r) ==
    \A u \in Users :
        /\ lock'[u] # lock[u] => lock[u] \in {None, r} /\ lock'[u] \in {None, r}
        /\ balance'[u] # balance[u] => lock[u] \in {None, r}

LEMMA LockStepOfOne ==
    ASSUME LocksInv, RowsKept, NEW r \in Threads, Alone(r), Apart(r), Holds(r)',
           lock' \in [Users -> Threads \cup {None}]
    PROVE  Locks'
<1>1. ASSUME NEW s \in Threads \ {r}
      PROVE  Holds(s)'
  <2>1. s # None
    BY AccountsAssumption
  <2>2. Untouched(s)
    BY <2>1 DEF Untouched, Alone, Apart
  <2> QED
    BY <2>2, HoldsKept
<1> QED
  BY <1>1 DEF Locks

\* A request that ends releases what it holds and knows nothing any more.
LEMMA ReleasedApart ==
    ASSUME LocksInv, NEW r \in Threads, lock' = Released(r),
           \A u \in Users : balance'[u] = balance[u] \/ lock[u] \in {None, r}
    PROVE  /\ Apart(r)
           /\ lock' \in [Users -> Threads \cup {None}]
           /\ \A u \in Users : lock'[u] # r
<1>1. r # None
  BY AccountsAssumption
<1> QED
  BY <1>1 DEF LocksInv, Released, Apart

LEMMA NothingHeld ==
    ASSUME NEW r \in Threads, \A u \in Users : lock'[u] # r, view'[r] = EmptyView,
           op'[r] \notin LockingOps
    PROVE  Holds(r)'
<1>1. \A u \in Users : view'[r][u] = NotLoaded
  BY DEF EmptyView
<1> QED
  BY <1>1 DEF Holds, LockingOps

LEMMA EndKeepsLocks ==
    ASSUME LocksInv, RowsKept, NEW r \in Threads, Finish(r),
           work' = work \/ work' = [work EXCEPT ![r] = None],
           UNCHANGED read \/ CloseFile(r),
           \A u \in Users : balance'[u] = balance[u] \/ lock[u] \in {None, r}
    PROVE  Locks'
<1>1. Alone(r)
  BY DEF Alone, Finish, CloseFile, LocksInv, BankInv, Sessions, PotsInv, RequestsTyped,
     LoansInv, LoanTablesTypeOK, Papers
<1>2. op'[r] = "idle" /\ view'[r] = EmptyView
  BY DEF Finish, LocksInv, BankInv, PotsInv, RequestsTyped, Sessions
<1>3. /\ Apart(r)
      /\ lock' \in [Users -> Threads \cup {None}]
      /\ \A u \in Users : lock'[u] # r
  BY ReleasedApart DEF Finish
<1>4. Holds(r)'
  BY <1>2, <1>3, NothingHeld DEF LockingOps, MoveOps
<1> QED
  BY <1>1, <1>3, <1>4, LockStepOfOne

\* A request that begins holds nothing; a saver wants its own row.
LEMMA BeginKeepsLocks ==
    ASSUME LocksInv, RowsKept, NEW r \in Threads, NEW u \in Users,
           NEW o \in BankOps \ {"settle"}, Begin(r, u, o),
           NEW wanted \in Users \cup {None}, want' = [want EXCEPT ![r] = wanted],
           o \in MoveOps => wanted = u,
           UNCHANGED <<balance, lock, read>>,
           UNCHANGED work \/ \E t \in Txs : work' = [work EXCEPT ![r] = t]
    PROVE  Locks'
<1> DEFINE session == [EmptyView EXCEPT ![u] = balance[u]]
<1>1. /\ op[r] = "idle"
      /\ op' = [op EXCEPT ![r] = o]
      /\ who' = [who EXCEPT ![r] = u]
      /\ view' = [view EXCEPT ![r] = session]
  BY DEF Begin
<1>2. \A v \in Users : session[v] # NotLoaded => v = u
  BY DEF EmptyView
<1> HIDE DEF session
<1>3. Alone(r)
  BY <1>1 DEF Alone, LocksInv, BankInv, Sessions, PotsInv, RequestsTyped, Papers
<1>4. op'[r] = o /\ who'[r] = u /\ view'[r] = session /\ want'[r] = wanted
  BY <1>1 DEF LocksInv, BankInv, Sessions, PotsInv, RequestsTyped
<1>5. read'[r] = NoLoan
  BY <1>1 DEF LocksInv, BankInv, LoansInv, Reading, LoanOps, DecideOps
<1>6. \A v \in Users : lock'[v] # r
  BY <1>1 DEF LocksInv, Holds, LockingOps, MoveOps
<1>7. Holds(r)'
  BY <1>2, <1>4, <1>5, <1>6, AccountsAssumption DEF Holds
<1>8. Apart(r) /\ lock' \in [Users -> Threads \cup {None}]
  BY DEF Apart, LocksInv
<1> QED
  BY <1>3, <1>7, <1>8, LockStepOfOne

\* A row that is locked is reloaded, or was not in the session before: only what
\* is held or the request's own is.
LEMMA LockFresh ==
    ASSUME LocksInv, NEW r \in Threads, NEW next, op[r] \in LockingOps,
           LockRow(r, op[r] \in MoveOps, next)
    PROVE  /\ want[r] \in Users
           /\ Apart(r)
           /\ lock' \in [Users -> Threads \cup {None}]
           /\ \A u \in Users : lock'[u] = r <=> u = want[r] \/ lock[u] = r
           /\ \A u \in Users :
                 lock'[u] = r => op'[r] \in LockingOps /\ (Reloads(r, u)' => view'[r][u] = balance'[u])
           /\ \A u \in Users : view'[r][u] # NotLoaded => u = who'[r] \/ lock'[u] = r
           /\ \E session \in [Users -> Known] : view' = [view EXCEPT ![r] = session]
<1> DEFINE w == want[r]
<1>1. /\ w \in Users
      /\ lock[w] = None
      /\ lock' = [lock EXCEPT ![w] = r]
      /\ view' = IF op[r] \in MoveOps \/ view[r][w] = NotLoaded
                 THEN [view EXCEPT ![r][w] = balance[w]] ELSE view
      /\ UNCHANGED <<balance, op, who>>
  BY DEF LockRow, Free, LocksInv, BankInv, Sessions
<1>2. r # None
  BY AccountsAssumption
<1>3. /\ view \in [Threads -> [Users -> Known]] /\ view[r] \in [Users -> Known]
      /\ balance[w] \in Nat
      /\ lock \in [Users -> Threads \cup {None}]
      /\ Holds(r)
  BY <1>1 DEF LocksInv, BankInv, Sessions, Solvent
<1>4. Apart(r) /\ lock' \in [Users -> Threads \cup {None}]
  BY <1>1, <1>3 DEF Apart
<1>5. \A u \in Users : lock'[u] = r <=> u = w \/ lock[u] = r
  BY <1>1, <1>3
<1>6. \A u \in Users \ {w} : view'[r][u] = view[r][u]
  BY <1>1, <1>3
<1>7. \A u \in Users : Reloads(r, u)' <=> Reloads(r, u)
  BY <1>1 DEF Reloads
<1>8. Reloads(r, w) => view'[r][w] = balance[w]
  <2>1. CASE op[r] \in MoveOps \/ view[r][w] = NotLoaded
    BY <1>1, <1>3, <2>1
  <2>2. CASE ~(op[r] \in MoveOps \/ view[r][w] = NotLoaded)
    <3>1. w = who[r]
      BY <1>1, <1>2, <1>3, <2>2 DEF Holds
    <3> QED
      BY <2>2, <3>1 DEF Reloads
  <2> QED
    BY <2>1, <2>2
<1>9. \A u \in Users :
         lock'[u] = r => op'[r] \in LockingOps /\ (Reloads(r, u)' => view'[r][u] = balance'[u])
  <2> TAKE u \in Users
  <2>1. CASE u = w
    BY <1>1, <1>7, <1>8, <2>1
  <2>2. CASE u # w
    BY <1>1, <1>3, <1>5, <1>6, <1>7, <2>2 DEF Holds
  <2> QED
    BY <2>1, <2>2
<1>10. \A u \in Users : view'[r][u] # NotLoaded => u = who'[r] \/ lock'[u] = r
  BY <1>1, <1>3, <1>5, <1>6 DEF Holds
<1>11. \E session \in [Users -> Known] : view' = [view EXCEPT ![r] = session]
  BY LockLoads DEF LocksInv, BankInv
<1> QED
  BY <1>1, <1>4, <1>5, <1>9, <1>10, <1>11

LEMMA LockPartyKeepsLocks ==
    ASSUME LocksInv, NEW r \in Threads, LockParty(r), UNCHANGED read
    PROVE  Locks'
<1> DEFINE x == tx[work[r]]
           next == NextParty(x, want[r])
<1>1. /\ op[r] = "settle" /\ op[r] \in LockingOps /\ op[r] \notin MoveOps
      /\ LockRow(r, FALSE, next)
      /\ want' = [want EXCEPT ![r] = next]
      /\ UNCHANGED <<balance, op, who, work, tx>>
  BY DEF LockParty, LockRow, approvalsVars, LockingOps, MoveOps
<1>2. LockRow(r, op[r] \in MoveOps, next)
  BY <1>1 DEF LockRow
<1> DEFINE Fresh1 == \A u \in Users : lock'[u] = r =>
                op'[r] \in LockingOps /\ (Reloads(r, u)' => view'[r][u] = balance'[u])
           Fresh2 == \A u \in Users : view'[r][u] # NotLoaded => u = who'[r] \/ lock'[u] = r
<1>3. /\ want[r] \in Users
      /\ Apart(r)
      /\ lock' \in [Users -> Threads \cup {None}]
      /\ \A u \in Users : lock'[u] = r <=> u = want[r] \/ lock[u] = r
      /\ Fresh1 /\ Fresh2
      /\ \E session \in [Users -> Known] : view' = [view EXCEPT ![r] = session]
  BY <1>1, <1>2, LockFresh
<1>4. /\ work[r] \in Txs /\ x.status # "absent" /\ x \in TxRow /\ WellFormed(x)
      /\ want[r] \in Parties(x) \cup {None}
  BY <1>1 DEF LocksInv, BankInv, Sessions, Session, Papers, RowsWellFormed
<1>5. \A u \in Parties(x) : want[r] \notin {u, x.sender} \ {None} => lock[u] = r
  BY <1>1 DEF LocksInv, Holds
<1>6. op'[r] = "settle" /\ want'[r] = next /\ work'[r] = work[r] /\ tx' = tx
  BY <1>1 DEF LocksInv, BankInv, Sessions
<1>7. ASSUME NEW u \in Parties(x), next \notin {u, x.sender} \ {None}
      PROVE  lock'[u] = r
  <2>1. u \in Users
    BY <1>4 DEF Parties, TxRow
  <2>2. CASE u = want[r]
    BY <1>3, <2>1, <2>2
  <2>3. CASE u # want[r]
    <3>1. want[r] \notin {u, x.sender} \ {None}
      BY <1>3, <1>4, <1>7, <2>1, <2>3, AccountsAssumption
         DEF NextParty, Parties, WellFormed, TxRow, Kinds
    <3> QED
      BY <1>3, <1>5, <2>1, <3>1
  <2> QED
    BY <2>2, <2>3
<1> HIDE DEF next
<1>8. Holds(r)'
  BY <1>3, <1>6, <1>7 DEF Holds, MoveOps
<1>9. Alone(r) /\ RowsKept
  BY <1>1, <1>3 DEF Alone, RowsKept, LocksInv, BankInv, Sessions
<1> QED
  BY <1>3, <1>8, <1>9, LockStepOfOne

LEMMA LockLastKeepsLocks ==
    ASSUME LocksInv, NEW r \in Threads, LockSaver(r) \/ LockBorrower(r),
           UNCHANGED <<tx, work, read>>
    PROVE  Locks'
<1>1. /\ op[r] \in MoveOps \/ op[r] = "loan_approve"
      /\ op[r] \in LockingOps
      /\ LockRow(r, op[r] \in MoveOps, None)
  BY DEF LockSaver, LockBorrower, LockRow, LockingOps, MoveOps
<1>2. want' = [want EXCEPT ![r] = None] /\ UNCHANGED <<balance, op, who>>
  BY <1>1 DEF LockRow
<1> DEFINE Fresh1 == \A u \in Users : lock'[u] = r =>
                op'[r] \in LockingOps /\ (Reloads(r, u)' => view'[r][u] = balance'[u])
           Fresh2 == \A u \in Users : view'[r][u] # NotLoaded => u = who'[r] \/ lock'[u] = r
<1>3. /\ want[r] \in Users
      /\ Apart(r)
      /\ lock' \in [Users -> Threads \cup {None}]
      /\ \A u \in Users : lock'[u] = r <=> u = want[r] \/ lock[u] = r
      /\ Fresh1 /\ Fresh2
      /\ \E session \in [Users -> Known] : view' = [view EXCEPT ![r] = session]
  BY <1>1, LockFresh
<1>4. want'[r] = None /\ op'[r] = op[r] /\ who'[r] = who[r] /\ read'[r] = read[r]
  BY <1>2 DEF LocksInv, BankInv, Sessions
<1>5. want[r] # None
  BY <1>3, AccountsAssumption
<1>6. op[r] \in MoveOps => want[r] = who[r]
  BY <1>5 DEF LocksInv, Holds
<1>7. op[r] = "loan_approve" /\ read[r] # NoLoan => want[r] = read[r].owner
  BY <1>5 DEF LocksInv, BankInv, Sessions, Session
<1>8. op'[r] # "settle"
  BY <1>1, <1>4 DEF MoveOps
<1>9. Holds(r)'
  BY <1>3, <1>4, <1>6, <1>7, <1>8 DEF Holds
<1>10. Alone(r) /\ RowsKept
  BY <1>2, <1>3 DEF Alone, RowsKept, LocksInv, BankInv, Sessions
<1> QED
  BY <1>3, <1>9, <1>10, LockStepOfOne

\* A balance that changes under a lock changes by what its holder records, and
\* the lock goes with it.
Exact ==
    \A u \in Users : \A r \in Threads :
        lock[u] = r /\ Reloads(r, u) /\ balance'[u] # balance[u] =>
            /\ balance'[u] = balance[u] + Recorded(r, u)
            /\ lock'[u] = None

LEMMA UnchangedExact == UNCHANGED balance => Exact
BY DEF Exact

\* A write of a row that nobody holds, computed from whatever the session has.
LEMMA UnheldWrite ==
    ASSUME LocksInv, RowsKept, NEW r \in Threads, NEW u \in Users, lock[u] = None,
           NEW value, balance' = [balance EXCEPT ![u] = value], Finish(r),
           UNCHANGED work, UNCHANGED read \/ CloseFile(r)
    PROVE  Locks' /\ Exact
<1>1. \A v \in Users \ {u} : balance'[v] = balance[v]
  BY DEF LocksInv, BankInv, Solvent
<1>2. Locks'
  BY <1>1, EndKeepsLocks
<1>3. \A v \in Users, s \in Threads : lock[v] = s => balance'[v] = balance[v]
  BY <1>1, AccountsAssumption
<1> QED
  BY <1>2, <1>3 DEF Exact

\* A write of a row the writer holds.
LEMMA HeldWrite ==
    ASSUME LocksInv, RowsKept, NEW r \in Threads, NEW u \in Users, lock[u] = r,
           NEW amount \in Int, balance' = [balance EXCEPT ![u] = view[r][u] + amount],
           Reloads(r, u) => Recorded(r, u) = amount, Finish(r),
           UNCHANGED work, UNCHANGED read \/ CloseFile(r)
    PROVE  Locks' /\ Exact
<1>1. \A v \in Users \ {u} : balance'[v] = balance[v]
  BY DEF LocksInv, BankInv, Solvent
<1>2. Locks'
  BY <1>1, EndKeepsLocks
<1>3. Reloads(r, u) => view[r][u] = balance[u]
  BY DEF LocksInv, Holds
<1>4. balance'[u] = view[r][u] + amount /\ lock'[u] = None
  BY DEF LocksInv, BankInv, Solvent, Finish, Released
<1>5. ASSUME NEW v \in Users, NEW s \in Threads,
             lock[v] = s, Reloads(s, v), balance'[v] # balance[v]
      PROVE  balance'[v] = balance[v] + Recorded(s, v) /\ lock'[v] = None
  <2>1. v = u /\ s = r
    BY <1>1, <1>5
  <2> QED
    BY <1>3, <1>4, <1>5, <2>1
<1> QED
  BY <1>2, <1>5 DEF Exact

LEMMA CommitApprovalKeepsLocks ==
    ASSUME LocksInv, NEW r \in Threads, CommitApproval(r), UNCHANGED read
    PROVE  Locks' /\ Exact
<1> DEFINE x == tx[work[r]]
<1>1. /\ op[r] = "settle" /\ want[r] = None
      /\ balance' = [u \in Users |->
            IF u \in Parties(x) THEN view[r][u] + Effect(x, u) ELSE balance[u]]
      /\ tx' = [tx EXCEPT ![work[r]].status = "approved"]
      /\ lock' = Released(r)
      /\ view' = [view EXCEPT ![r] = EmptyView]
      /\ op' = [op EXCEPT ![r] = "bonus"]
      /\ UNCHANGED <<who, want, work, read>>
  BY DEF CommitApproval
<1>2. \A u \in Parties(x) : lock[u] = r
  BY <1>1 DEF LocksInv, Holds
<1>3. \A u \in Users : u \notin Parties(x) => balance'[u] = balance[u]
  BY <1>1
<1>4. \A u \in Users : balance'[u] = balance[u] \/ lock[u] \in {None, r}
  BY <1>2, <1>3
<1>5. RowsKept
  <2>1. work[r] \in Txs /\ tx \in [Txs -> TxRow] /\ x \in TxRow
    BY <1>1 DEF LocksInv, BankInv, Sessions, Session, Papers
  <2>2. /\ \A s \in Txs \ {work[r]} : tx'[s] = tx[s]
        /\ tx'[work[r]] = [x EXCEPT !.status = "approved"]
    BY <1>1, <2>1
  <2>3. /\ tx'[work[r]].status = "approved" /\ tx'[work[r]].kind = x.kind
        /\ tx'[work[r]].amount = x.amount
        /\ tx'[work[r]].sender = x.sender /\ tx'[work[r]].receiver = x.receiver
    BY <2>1, <2>2 DEF TxRow
  <2> HIDE DEF x
  <2> QED
    BY <2>2, <2>3 DEF RowsKept, x
<1>6. Alone(r)
  BY <1>1 DEF Alone, LocksInv, BankInv, PotsInv, RequestsTyped, Sessions
<1>7. /\ Apart(r)
      /\ lock' \in [Users -> Threads \cup {None}]
      /\ \A u \in Users : lock'[u] # r
  BY <1>1, <1>4, ReleasedApart
<1>8. op'[r] = "bonus" /\ view'[r] = EmptyView
  BY <1>1 DEF LocksInv, BankInv, PotsInv, RequestsTyped, Sessions
<1>9. Holds(r)'
  BY <1>7, <1>8, NothingHeld DEF LockingOps, MoveOps
<1>10. Locks'
  BY <1>5, <1>6, <1>7, <1>9, LockStepOfOne
<1>11. ASSUME NEW u \in Users, NEW s \in Threads,
              lock[u] = s, Reloads(s, u), balance'[u] # balance[u]
       PROVE  balance'[u] = balance[u] + Recorded(s, u) /\ lock'[u] = None
  <2>1. u \in Parties(x) /\ s = r
    BY <1>2, <1>3, <1>11
  <2>2. view[r][u] = balance[u]
    BY <1>11, <2>1 DEF LocksInv, Holds
  <2>3. Recorded(r, u) = Effect(x, u)
    BY <1>1 DEF Recorded, MoveOps
  <2> QED
    BY <1>1, <1>11, <2>1, <2>2, <2>3 DEF Released
<1> QED
  BY <1>10, <1>11 DEF Exact

LEMMA ApprovalsKeepLocks ==
    ASSUME LocksInv, BankApprovals
    PROVE  Locks' /\ Exact
<1>1. UNCHANGED <<loan, read>>
  BY DEF BankApprovals, loansVars
<1>2. ASSUME UNCHANGED tx
      PROVE  RowsKept
  BY <1>2 DEF RowsKept
<1>3. ASSUME NEW r \in Threads,
             \/ RefuseDecided(r) \/ RefuseUncovered(r) \/ CommitBackfill(r)
             \/ RefuseSubmit(r) \/ Abort(r) \/ AbortVictim(r) \/ SkipBonus(r)
      PROVE  Locks' /\ Exact
  <2>1. /\ Finish(r)
        /\ UNCHANGED <<balance, tx, read>>
        /\ work' = work \/ work' = [work EXCEPT ![r] = None]
    BY <1>1, <1>3 DEF RefuseDecided, RefuseUncovered, CommitBackfill, RefuseSubmit, Abort,
       AbortVictim, DeadlockVictim, RollBack, Forget, SkipBonus
  <2> QED
    BY <1>2, <2>1, EndKeepsLocks, UnchangedExact
<1>4. ASSUME NEW r \in Threads, LockPending(r)
      PROVE  Locks' /\ Exact
  <2> DEFINE x == tx[work[r]]
             first == FirstParty(x)
  <2>1. /\ op[r] = "approve"
        /\ op' = [op EXCEPT ![r] = "settle"]
        /\ want' = [want EXCEPT ![r] = first]
        /\ UNCHANGED <<balance, lock, who, view, tx, work, read>>
    BY <1>1, <1>4 DEF LockPending
  <2>2. work[r] \in Txs /\ x.status # "absent" /\ WellFormed(x) /\ x \in TxRow
    BY <2>1 DEF LocksInv, BankInv, Sessions, Session, Papers, RowsWellFormed
  <2>3. \A u \in Parties(x) : first \in {u, x.sender} \ {None}
    BY <2>2, AccountsAssumption DEF FirstParty, Parties, WellFormed, TxRow, Kinds
  <2> HIDE DEF first
  <2>4. op'[r] = "settle" /\ want'[r] = first
    BY <2>1 DEF LocksInv, BankInv, Sessions, PotsInv, RequestsTyped
  <2>5. \A u \in Users : lock[u] # r
    BY <2>1 DEF LocksInv, Holds, LockingOps, MoveOps
  <2>6. Holds(r)'
    BY <2>1, <2>3, <2>4, <2>5 DEF Holds, LocksInv, MoveOps
  <2>7. Alone(r) /\ Apart(r) /\ lock' \in [Users -> Threads \cup {None}]
    BY <2>1 DEF Alone, Apart, LocksInv, BankInv, Sessions, PotsInv, RequestsTyped
  <2> QED
    BY <1>2, <2>1, <2>6, <2>7, LockStepOfOne, UnchangedExact
<1>5. ASSUME NEW r \in Threads, NEW u \in Users,
             \/ BeginSubmit(r, u) \/ BeginBackfill(r, u)
             \/ \E t \in Txs : BeginApprove(r, u, t)
      PROVE  Locks' /\ Exact
  <2>1. PICK o \in {"submit", "backfill", "approve"} : Begin(r, u, o)
    BY <1>5 DEF BeginSubmit, BeginBackfill, BeginApprove
  <2>2. /\ UNCHANGED <<balance, lock, want, tx, read>>
        /\ UNCHANGED work \/ \E t \in Txs : work' = [work EXCEPT ![r] = t]
    BY <1>1, <1>5 DEF BeginSubmit, BeginBackfill, BeginApprove, approvalsVars
  <2>3. o \in BankOps \ {"settle"} /\ o \notin MoveOps
    BY DEF BankOps, ApprovalOps, MoveOps
  <2>4. want[r] \in Users \cup {None} /\ want' = [want EXCEPT ![r] = want[r]]
    BY <2>2 DEF LocksInv, BankInv, Sessions
  <2> QED
    BY <1>2, <2>1, <2>2, <2>3, <2>4, BeginKeepsLocks, UnchangedExact
<1>6. ASSUME NEW t \in Txs, Reject(t)
      PROVE  Locks' /\ Exact
  <2>1. /\ tx[t].status = "pending"
        /\ tx' = [tx EXCEPT ![t].status = "rejected"]
        /\ UNCHANGED <<balance, lock, op, who, view, want, work, read>>
    BY <1>1, <1>6 DEF Reject, Pending, accountsVars
  <2> DEFINE x == tx[t]
             new == tx'[t]
  <2>2. tx \in [Txs -> TxRow] /\ x \in TxRow
    BY DEF LocksInv, BankInv, Papers
  <2>3. /\ \A s \in Txs \ {t} : tx'[s] = tx[s]
        /\ new = [x EXCEPT !.status = "rejected"]
    BY <2>1, <2>2
  <2>4. /\ new.status = "rejected" /\ new.kind = x.kind /\ new.amount = x.amount
        /\ new.sender = x.sender /\ new.receiver = x.receiver
    BY <2>2, <2>3 DEF TxRow
  <2>5. RowsKept
    BY <2>3, <2>4 DEF RowsKept
  <2> QED
    BY <2>1, <2>5, NobodyMovesLocks, UnchangedExact
<1>7. ASSUME NEW r \in Threads, CheckRecorded(r)
      PROVE  Locks' /\ Exact
  <2>1. UNCHANGED <<balance, lock, op, who, view, want, tx, work, read>>
    BY <1>1, <1>7 DEF CheckRecorded, accountsVars
  <2> QED
    BY <1>2, <2>1, NobodyMovesLocks, UnchangedExact
<1>8. ASSUME NEW r \in Threads, LockParty(r)
      PROVE  Locks' /\ Exact
  BY <1>1, <1>8, LockPartyKeepsLocks, UnchangedExact DEF LockParty, LockRow
<1>9. ASSUME NEW r \in Threads, SubmitDeposit(r) \/ SubmitWithdrawal(r) \/ SubmitTransfer(r)
      PROVE  Locks' /\ Exact
  <2>1. PICK x : Insert(r, x) /\ x.status = "pending"
    <3>1. \A kind, a, from, to : NewTx(kind, a, from, to).status = "pending"
      BY DEF NewTx
    <3>2. CASE SubmitDeposit(r)
      <4>1. PICK a \in Amounts : Insert(r, NewTx("deposit", a, None, who[r]))
        BY <3>2 DEF SubmitDeposit
      <4> QED
        BY <3>1, <4>1, Zenon
    <3>3. CASE SubmitWithdrawal(r)
      <4>1. PICK a \in Amounts : Insert(r, NewTx("withdrawal", a, who[r], None))
        BY <3>3 DEF SubmitWithdrawal
      <4> QED
        BY <3>1, <4>1, Zenon
    <3>4. CASE SubmitTransfer(r)
      <4>1. PICK a \in Amounts, v \in Users \ {who[r]} : Insert(r, NewTx("transfer", a, who[r], v))
        BY <3>4 DEF SubmitTransfer
      <4> QED
        BY <3>1, <4>1, Zenon
    <3> QED
      BY <1>9, <3>2, <3>3, <3>4
  <2>2. PICK t \in Txs : tx[t].status = "absent" /\ tx' = [tx EXCEPT ![t] = x]
    BY <2>1 DEF Insert, Fresh
  <2>3. RowsKept
    BY <2>2 DEF RowsKept, LocksInv, BankInv, Papers
  <2>4. Finish(r) /\ UNCHANGED <<balance, work, read>>
    BY <1>1, <2>1 DEF Insert
  <2> QED
    BY <2>3, <2>4, EndKeepsLocks, UnchangedExact
<1>10. ASSUME NEW r \in Threads, CommitApproval(r)
       PROVE  Locks' /\ Exact
  BY <1>1, <1>10, CommitApprovalKeepsLocks
<1> QED
  BY <1>3, <1>4, <1>5, <1>6, <1>7, <1>8, <1>9, <1>10
     DEF BankApprovals, ApprovalActivity, ApprovalStep

\* A request that goes on to its next step, with the same session and no lock.
LEMMA GoOnKeepsLocks ==
    ASSUME LocksInv, RowsKept, NEW r \in Threads, op[r] \notin LockingOps,
           NEW o, o \notin LockingOps, op' = [op EXCEPT ![r] = o],
           UNCHANGED <<balance, lock, who, view, want, work, read>>
    PROVE  Locks'
<1>1. op'[r] = o
  BY DEF LocksInv, BankInv, PotsInv, RequestsTyped
<1>2. Holds(r)'
  BY <1>1 DEF LocksInv, Holds, LockingOps
<1>3. Alone(r) /\ Apart(r)
  BY DEF Alone, Apart, LocksInv, BankInv, PotsInv, RequestsTyped
<1> QED
  BY <1>2, <1>3, LockStepOfOne DEF LocksInv

LEMMA MoveKeepsLocks ==
    ASSUME LocksInv, NEW r \in Threads, op[r] \in MoveOps, aim[r] # None, NEW amount \in Int,
           NEW status, Move(r, amount, status), UNCHANGED <<approvalsVars, loansVars>>
    PROVE  Locks' /\ Exact
<1>1. /\ want[r] = None /\ Finish(r)
      /\ balance' = [balance EXCEPT ![who[r]] = view[r][who[r]] - amount]
      /\ pot' = [pot EXCEPT ![aim[r]].saved = @ + amount, ![aim[r]].status = status]
  BY DEF Move
<1>2. UNCHANGED <<tx, work, read>> /\ RowsKept
  BY DEF approvalsVars, loansVars, RowsKept
<1>3. who[r] \in Users /\ view[r][who[r]] \in Nat /\ lock[who[r]] = r
  BY <1>1 DEF LocksInv, Holds, BankInv, Sessions, Session, MoveOps
<1>4. aim[r] \in Pots /\ pot[aim[r]] \in PotRow /\ pot[aim[r]].saved \in Int
  BY DEF LocksInv, BankInv, PotsInv, PotsTypeOK, PotRow
<1>5. pot' = [pot EXCEPT ![aim[r]] = Changed(pot[aim[r]], amount, status)]
  BY <1>1, <1>4 DEF Changed, LocksInv, BankInv, PotsInv, PotsTypeOK
<1>6. pot'[aim[r]].saved = pot[aim[r]].saved + amount
  <2>1. pot'[aim[r]] = Changed(pot[aim[r]], amount, status)
    BY <1>4, <1>5 DEF LocksInv, BankInv, PotsInv, PotsTypeOK
  <2> QED
    BY <1>4, <2>1 DEF Changed, PotRow
<1>7. Recorded(r, who[r]) = 0 - amount
  <2>1. Recorded(r, who[r]) = pot[aim[r]].saved - pot'[aim[r]].saved
    BY DEF Recorded, MoveOps
  <2> QED
    BY <1>4, <1>6, <2>1
<1>8. view[r][who[r]] - amount = view[r][who[r]] + (0 - amount) /\ 0 - amount \in Int
  BY <1>3
<1>9. balance' = [balance EXCEPT ![who[r]] = view[r][who[r]] + (0 - amount)]
  BY <1>1, <1>8, Zenon
<1> QED
  BY <1>1, <1>2, <1>3, <1>7, <1>8, <1>9, HeldWrite

LEMMA SavingsKeepLocks ==
    ASSUME LocksInv, BankSavings
    PROVE  Locks' /\ Exact
<1>1. UNCHANGED <<approvalsVars, loansVars>>
  BY DEF BankSavings
<1>2. UNCHANGED <<tx, work, read>> /\ RowsKept
  BY <1>1 DEF approvalsVars, loansVars, RowsKept
<1>3. ASSUME NEW r \in Threads, PutIn(r) \/ TakeOut(r) \/ ClosePot(r)
      PROVE  Locks' /\ Exact
  <2>1. op[r] \in MoveOps /\ aim[r] # None /\ aim[r] \in Pots
    BY <1>3 DEF PutIn, TakeOut, ClosePot, MoveOps, LocksInv, BankInv, PotsInv, PotsTypeOK
  <2>2. pot[aim[r]].saved \in Int
    BY <2>1 DEF LocksInv, BankInv, PotsInv, PotsTypeOK, PotRow
  <2>3. CASE PutIn(r)
    <3>1. PICK a \in PotAmounts : Move(r, a, "active")
      BY <2>3 DEF PutIn
    <3>2. a \in Int
      BY SavingsAssumption
    <3> QED
      BY <1>1, <2>1, <3>1, <3>2, MoveKeepsLocks
  <2>4. CASE TakeOut(r)
    <3>1. PICK a \in PotAmounts : Move(r, 0 - a, "active")
      BY <2>4 DEF TakeOut
    <3>2. 0 - a \in Int
      BY SavingsAssumption
    <3> QED
      BY <1>1, <2>1, <3>1, <3>2, MoveKeepsLocks
  <2>5. CASE ClosePot(r)
    <3>1. Move(r, 0 - pot[aim[r]].saved, "closed")
      BY <2>5 DEF ClosePot
    <3>2. 0 - pot[aim[r]].saved \in Int
      BY <2>2
    <3> QED
      BY <1>1, <2>1, <3>1, <3>2, MoveKeepsLocks
  <2> QED
    BY <1>3, <2>3, <2>4, <2>5
<1>4. ASSUME NEW r \in Threads, InsertPot(r) \/ AbortSaving(r)
      PROVE  Locks' /\ Exact
  <2>1. Finish(r) /\ UNCHANGED balance
    BY <1>4 DEF InsertPot, AbortSaving, RollBack
  <2> QED
    BY <1>2, <2>1, EndKeepsLocks, UnchangedExact
<1>5. ASSUME NEW r \in Threads, CountPots(r)
      PROVE  Locks' /\ Exact
  <2>1. /\ op[r] = "pot_count" /\ op' = [op EXCEPT ![r] = "pot_insert"]
        /\ UNCHANGED <<balance, lock, who, view, want>>
    BY <1>5 DEF CountPots
  <2>2. "pot_insert" \notin LockingOps /\ "pot_count" \notin LockingOps
    BY DEF LockingOps, MoveOps
  <2> QED
    BY <1>2, <2>1, <2>2, GoOnKeepsLocks, UnchangedExact
<1>6. ASSUME NEW r \in Threads, LockPot(r)
      PROVE  Locks' /\ Exact
  <2>1. UNCHANGED <<balance, lock, op, who, view, want>>
    BY <1>6 DEF LockPot, accountsVars
  <2> QED
    BY <1>2, <2>1, NobodyMovesLocks, UnchangedExact
<1>7. ASSUME NEW r \in Threads, LockSaver(r)
      PROVE  Locks' /\ Exact
  BY <1>2, <1>7, LockLastKeepsLocks, UnchangedExact DEF LockSaver, LockRow
<1>8. ASSUME NEW r \in Threads, NEW u \in Users, BeginCreatePot(r, u)
      PROVE  Locks' /\ Exact
  <2>1. Begin(r, u, "pot_count") /\ UNCHANGED <<balance, lock, want>>
    BY <1>8 DEF BeginCreatePot
  <2>2. "pot_count" \in BankOps \ {"settle"} /\ "pot_count" \notin MoveOps
    BY DEF BankOps, SavingsOps, MoveOps
  <2>3. want[r] \in Users \cup {None} /\ want' = [want EXCEPT ![r] = want[r]]
    BY <2>1 DEF LocksInv, BankInv, Sessions
  <2> QED
    BY <1>2, <2>1, <2>2, <2>3, BeginKeepsLocks, UnchangedExact
<1>9. ASSUME NEW r \in Threads, NEW u \in Users, NEW p \in Pots, NEW o \in MoveOps,
             BeginMove(r, u, p, o)
      PROVE  Locks' /\ Exact
  <2>1. Begin(r, u, o) /\ want' = [want EXCEPT ![r] = u] /\ UNCHANGED <<balance, lock>>
    BY <1>9 DEF BeginMove
  <2>2. o \in BankOps \ {"settle"}
    BY DEF BankOps, SavingsOps, MoveOps
  <2> QED
    BY <1>2, <2>1, <2>2, BeginKeepsLocks, UnchangedExact
<1> QED
  BY <1>3, <1>4, <1>5, <1>6, <1>7, <1>8, <1>9 DEF BankSavings, SavingsActivity, SavingStep

LEMMA LoansKeepLocks ==
    ASSUME LocksInv, BankLoans
    PROVE  Locks' /\ Exact
<1>1. UNCHANGED <<tx, work>> /\ RowsKept
  BY DEF BankLoans, approvalsVars, RowsKept
<1>2. ASSUME NEW r \in Threads, CommitRepay(r)
      PROVE  Locks' /\ Exact
  <2>1. /\ lock[who[r]] = None /\ Finish(r) /\ CloseFile(r)
        /\ \E a \in Repayments : balance' = [balance EXCEPT ![who[r]] = Less(view[r][who[r]], a)]
    BY <1>2 DEF CommitRepay
  <2>2. who[r] \in Users
    BY <1>2 DEF CommitRepay, LocksInv, BankInv, Sessions, Session
  <2> QED
    BY <1>1, <2>1, <2>2, UnheldWrite
<1>3. ASSUME NEW r \in Threads, CommitLoan(r)
      PROVE  Locks' /\ Exact
  <2> DEFINE u == read[r].owner
  <2>1. /\ op[r] = "loan_approve" /\ read[r] # NoLoan /\ want[r] = None
        /\ balance' = [balance EXCEPT ![u] = view[r][u] + read[r].principal]
        /\ Finish(r) /\ CloseFile(r)
    BY <1>3 DEF CommitLoan
  <2>2. u \in Users /\ lock[u] = r /\ read[r] \in LoanRow
    BY <2>1 DEF LocksInv, Holds, BankInv, Papers, LoansInv, LoanTablesTypeOK
  <2>3. read[r].principal \in Int
    BY <2>2 DEF LoanRow
  <2>4. Recorded(r, u) = read[r].principal
    BY <2>1 DEF Recorded, MoveOps
  <2> HIDE DEF u
  <2> QED
    BY <1>1, <2>1, <2>2, <2>3, <2>4, HeldWrite
<1>4. ASSUME NEW r \in Threads, CommitRejection(r) \/ AbortLoan(r)
      PROVE  Locks' /\ Exact
  <2>1. Finish(r) /\ CloseFile(r) /\ UNCHANGED balance
    BY <1>4 DEF CommitRejection, AbortLoan, RollBack
  <2> QED
    BY <1>1, <2>1, EndKeepsLocks, UnchangedExact
<1>5. ASSUME NEW r \in Threads, ReadLoan(r)
      PROVE  Locks' /\ Exact
  <2> DEFINE x == loan[file[r]]
             wanted == IF op[r] = "loan_approve" THEN x.owner ELSE None
  <2>1. /\ op[r] \in LoanOps /\ file[r] # None /\ Readable(op[r], x, who[r])
        /\ read' = [read EXCEPT ![r] = x]
        /\ want' = [want EXCEPT ![r] = wanted]
        /\ UNCHANGED <<balance, lock, op, who, view>>
    BY <1>5 DEF ReadLoan, LoanOps
  <2>2. file[r] \in LoanIds /\ x.owner \in Users
    BY <2>1 DEF Readable, LocksInv, BankInv, LoansInv, LoanTablesTypeOK, Papers
  <2>3. op[r] = "loan_approve" => wanted # None
    BY <2>2, AccountsAssumption
  <2>4. op[r] \notin MoveOps /\ op[r] # "settle"
    BY <2>1 DEF LoanOps, DecideOps, MoveOps
  <2> HIDE DEF wanted
  <2>5. want'[r] = wanted /\ op'[r] = op[r]
    BY <2>1 DEF LocksInv, BankInv, Sessions
  <2>6. Holds(r)'
    BY <2>1, <2>3, <2>4, <2>5 DEF LocksInv, Holds, Reloads
  <2>7. Alone(r) /\ Apart(r)
    BY <1>1, <2>1 DEF Alone, Apart, LocksInv, BankInv, Sessions, LoansInv, LoanTablesTypeOK
  <2> QED
    BY <1>1, <2>1, <2>6, <2>7, LockStepOfOne, UnchangedExact DEF LocksInv
<1>6. ASSUME NEW r \in Threads, LockBorrower(r)
      PROVE  Locks' /\ Exact
  BY <1>1, <1>6, LockLastKeepsLocks, UnchangedExact DEF LockBorrower, LockRow, loansVars
<1>7. ASSUME NEW r \in Threads, NEW u \in Users, NEW l \in LoanIds,
             BeginRepay(r, u, l) \/ \E o \in DecideOps : BeginDecide(r, u, l, o)
      PROVE  Locks' /\ Exact
  <2>1. PICK o \in LoanOps : Begin(r, u, o)
    BY <1>7 DEF BeginRepay, BeginDecide, LoanOps
  <2>2. o \in BankOps \ {"settle"} /\ o \notin MoveOps
    BY DEF BankOps, LoanOps, DecideOps, MoveOps
  <2>3. UNCHANGED <<balance, lock, want, read>>
    BY <1>7 DEF BeginRepay, BeginDecide
  <2>4. want[r] \in Users \cup {None} /\ want' = [want EXCEPT ![r] = want[r]]
    BY <2>3 DEF LocksInv, BankInv, Sessions
  <2> QED
    BY <1>1, <2>1, <2>2, <2>3, <2>4, BeginKeepsLocks, UnchangedExact
<1>8. ASSUME NEW u \in Users, ApplyForLoan(u)
      PROVE  Locks' /\ Exact
  <2>1. UNCHANGED <<balance, lock, op, who, view, want, read>>
    BY <1>8 DEF ApplyForLoan, accountsVars
  <2> QED
    BY <1>1, <2>1, NobodyMovesLocks, UnchangedExact
<1> QED
  BY <1>2, <1>3, <1>4, <1>5, <1>6, <1>7, <1>8 DEF BankLoans, LoansActivity, LoanStep

\* The payout added to a session is written later: the row is not held.
LEMMA ClaimKeepsLocks ==
    ASSUME LocksInv, RowsKept, NEW r \in Threads, ClaimNext(r), UNCHANGED <<work, read>>
    PROVE  Locks'
<1>1. PICK f \in todo[r] : view' = view \/ view' = [view EXCEPT ![r][who[r]] = @ + fd[f].payout]
  BY DEF ClaimNext
<1>2. UNCHANGED <<balance, lock, op, who, want>>
  BY DEF ClaimNext
<1>3. op[r] = "fd_payout" /\ op[r] \notin LockingOps
  BY <1>1 DEF LocksInv, LockingOps, MoveOps
<1>4. who[r] \in Users /\ view \in [Threads -> [Users -> Known]]
  BY <1>3 DEF LocksInv, BankInv, Sessions, Session
<1>5. \A u \in Users \ {who[r]} : view'[r][u] = view[r][u]
  BY <1>1, <1>4
<1>6. Holds(r)'
  BY <1>2, <1>3, <1>5 DEF LocksInv, Holds, LockingOps
<1>7. Alone(r) /\ Apart(r)
  BY <1>1, <1>2 DEF Alone, Apart, LocksInv, BankInv, Sessions
<1> QED
  BY <1>2, <1>6, <1>7, LockStepOfOne DEF LocksInv

LEMMA FixedDepositsKeepLocks ==
    ASSUME LocksInv, BankFixedDeposits
    PROVE  Locks' /\ Exact
<1>1. UNCHANGED <<tx, work, read>> /\ RowsKept
  BY DEF BankFixedDeposits, approvalsVars, loansVars, RowsKept
<1>2. ASSUME NEW r \in Threads, CommitOpen(r)
      PROVE  Locks' /\ Exact
  <2>1. who[r] \in Users /\ lock[who[r]] = None /\ Finish(r)
    BY <1>2 DEF CommitOpen, LocksInv, BankInv, Sessions, Session
  <2>2. PICK p \in FdPrincipals :
           balance' = [balance EXCEPT ![who[r]] = Less(view[r][who[r]], p)]
    BY <1>2, Zenon DEF CommitOpen
  <2> QED
    BY <1>1, <2>1, <2>2, UnheldWrite
<1>3. ASSUME NEW r \in Threads, CommitPayout(r)
      PROVE  Locks' /\ Exact
  <2>1. /\ op[r] = "fd_payout" /\ lock[who[r]] = None /\ Finish(r)
        /\ balance' = [balance EXCEPT ![who[r]] = view[r][who[r]]]
    BY <1>3 DEF CommitPayout
  <2>2. who[r] \in Users
    BY <2>1 DEF LocksInv, BankInv, Sessions, Session
  <2> QED
    BY <1>1, <2>1, <2>2, UnheldWrite
<1>4. ASSUME NEW r \in Threads, NothingMatured(r) \/ AbortFd(r)
      PROVE  Locks' /\ Exact
  <2>1. Finish(r) /\ UNCHANGED balance
    BY <1>4 DEF NothingMatured, AbortFd, RollBack
  <2> QED
    BY <1>1, <2>1, EndKeepsLocks, UnchangedExact
<1>5. ASSUME NEW r \in Threads, SelectMatured(r)
      PROVE  Locks' /\ Exact
  <2>1. /\ op[r] = "fd_profile" /\ op' = [op EXCEPT ![r] = "fd_payout"]
        /\ UNCHANGED <<balance, lock, who, view, want>>
    BY <1>5 DEF SelectMatured
  <2>2. "fd_profile" \notin LockingOps /\ "fd_payout" \notin LockingOps
    BY DEF LockingOps, MoveOps
  <2> QED
    BY <1>1, <2>1, <2>2, GoOnKeepsLocks, UnchangedExact
<1>6. ASSUME NEW r \in Threads, ClaimNext(r)
      PROVE  Locks' /\ Exact
  BY <1>1, <1>6, ClaimKeepsLocks, UnchangedExact DEF ClaimNext
<1>7. ASSUME NEW f \in FdIds, Mature(f)
      PROVE  Locks' /\ Exact
  <2>1. UNCHANGED <<balance, lock, op, who, view, want>>
    BY <1>7 DEF Mature, accountsVars
  <2> QED
    BY <1>1, <2>1, NobodyMovesLocks, UnchangedExact
<1>8. ASSUME NEW r \in Threads, NEW u \in Users, BeginOpen(r, u) \/ BeginProfile(r, u)
      PROVE  Locks' /\ Exact
  <2>1. PICK o \in FdOps : Begin(r, u, o)
    BY <1>8 DEF BeginOpen, BeginProfile, FdOps
  <2>2. o \in BankOps \ {"settle"} /\ o \notin MoveOps
    BY DEF BankOps, FdOps, MoveOps
  <2>3. UNCHANGED <<balance, lock, want>>
    BY <1>8 DEF BeginOpen, BeginProfile
  <2>4. want[r] \in Users \cup {None} /\ want' = [want EXCEPT ![r] = want[r]]
    BY <2>3 DEF LocksInv, BankInv, Sessions
  <2> QED
    BY <1>1, <2>1, <2>2, <2>3, <2>4, BeginKeepsLocks, UnchangedExact
<1> QED
  BY <1>2, <1>3, <1>4, <1>5, <1>6, <1>7, <1>8
     DEF BankFixedDeposits, FixedDepositsActivity, FdStep

\* Only a payout has deposits left to lock.
Selected == \A r \in Threads : todo[r] # {} => op[r] = "fd_payout"

LEMMA SelectedKept ==
    ASSUME BankInv, Selected, [BankNext]_bankVars
    PROVE  Selected'
<1>1. RequestsTyped /\ FdTypeOK
  BY DEF BankInv, PotsInv, FdInv
<1>2. CASE UNCHANGED bankVars
  BY <1>2 DEF bankVars, accountsVars, fdVars, Selected
<1>3. CASE BankApprovals \/ BankSavings \/ BankLoans
  <2>1. UNCHANGED todo
    BY <1>3 DEF BankApprovals, BankSavings, BankLoans, fdVars
  <2>2. Serves(ApprovalOps) \/ Serves(SavingsOps) \/ Serves(LoanOps)
    BY <1>3, ApprovalsServe, SavingsServe, LoansServe DEF BankSavings, BankLoans
  <2>3. "fd_payout" \notin (ApprovalOps \cup SavingsOps \cup LoanOps) \cup {"idle"}
    BY DEF ApprovalOps, SavingsOps, LoanOps, DecideOps, MoveOps
  <2>4. ASSUME NEW r \in Threads, op[r] = "fd_payout"
        PROVE  op'[r] = "fd_payout"
    BY <1>1, <2>2, <2>3, <2>4, ServesLeavesOthers
  <2> QED
    BY <2>1, <2>4 DEF Selected
<1>4. CASE BankFixedDeposits
  <2>1. ASSUME NEW r \in Threads, SelectMatured(r)
        PROVE  Selected'
    BY <1>1, <2>1 DEF SelectMatured, Selected, RequestsTyped
  <2>2. ASSUME NEW r \in Threads, ClaimNext(r)
        PROVE  Selected'
    <3>1. UNCHANGED op /\ \A s \in Threads : todo'[s] \subseteq todo[s]
      BY <1>1, <2>2 DEF ClaimNext, FdTypeOK
    <3> QED
      BY <3>1 DEF Selected
  <2>3. ASSUME NEW r \in Threads,
               \/ AbortFd(r)
               \/ todo[r] = {} /\ UNCHANGED todo /\ \E o : op' = [op EXCEPT ![r] = o]
        PROVE  Selected'
    <3>1. \A s \in Threads \ {r} : op'[s] = op[s] /\ todo'[s] = todo[s]
      BY <1>1, <2>3 DEF AbortFd, RollBack, Finish, RequestsTyped, FdTypeOK
    <3>2. todo'[r] = {}
      BY <1>1, <2>3 DEF AbortFd, FdTypeOK
    <3> QED
      BY <3>1, <3>2 DEF Selected
  <2>4. ASSUME NEW r \in Threads, NothingMatured(r) \/ CommitPayout(r) \/ CommitOpen(r)
        PROVE  Selected'
    <3>1. todo[r] = {}
      BY <2>4 DEF NothingMatured, CommitPayout, CommitOpen, Selected
    <3>2. UNCHANGED todo /\ \E o : op' = [op EXCEPT ![r] = o]
      BY <2>4 DEF NothingMatured, CommitPayout, CommitOpen, Finish, fdVars
    <3> QED
      BY <2>3, <3>1, <3>2
  <2>5. ASSUME NEW r \in Threads, NEW u \in Users, BeginOpen(r, u) \/ BeginProfile(r, u)
        PROVE  Selected'
    <3>1. todo[r] = {}
      BY <2>5 DEF BeginOpen, BeginProfile, Begin, Selected
    <3>2. UNCHANGED todo /\ \E o : op' = [op EXCEPT ![r] = o]
      BY <2>5 DEF BeginOpen, BeginProfile, Begin, fdVars
    <3> QED
      BY <2>3, <3>1, <3>2
  <2>6. ASSUME NEW f \in FdIds, Mature(f)
        PROVE  Selected'
    BY <2>6 DEF Mature, accountsVars, Selected
  <2> QED
    BY <1>4, <2>1, <2>2, <2>3, <2>4, <2>5, <2>6
       DEF BankFixedDeposits, FixedDepositsActivity, FdStep
<1> QED
  BY <1>2, <1>3, <1>4 DEF BankNext

LEMMA LocksInvInit == BankInit => LocksInv
<1> SUFFICES ASSUME BankInit
             PROVE  LocksInv
  OBVIOUS
<1>1. /\ lock = [u \in Users |-> None]
      /\ op = [r \in Threads |-> "idle"]
      /\ view = [r \in Threads |-> EmptyView]
      /\ todo = [r \in Threads |-> {}]
  BY DEF BankInit, AccountsInit, ApprovalsInit, FixedDepositsInit
<1>2. ASSUME NEW r \in Threads
      PROVE  Holds(r)
  BY <1>1, AccountsAssumption DEF Holds, EmptyView, MoveOps
<1> QED
  BY <1>1, <1>2, BankInvInit DEF LocksInv

LEMMA LocksStep ==
    ASSUME LocksInv, [BankNext]_bankVars
    PROVE  LocksInv' /\ Exact
<1>1. BankInv'
  BY BankInvStep DEF LocksInv
<1>2. Selected'
  BY SelectedKept DEF LocksInv, Selected
<1>3. Locks' /\ Exact
  <2>1. CASE UNCHANGED bankVars
    <3>1. UNCHANGED <<balance, lock, op, who, view, want, tx, work, read>>
      BY <2>1 DEF bankVars, accountsVars, approvalsVars, loansVars
    <3>2. RowsKept
      BY <3>1 DEF RowsKept
    <3> QED
      BY <3>1, <3>2, NobodyMovesLocks, UnchangedExact
  <2> QED
    BY <2>1, ApprovalsKeepLocks, SavingsKeepLocks, LoansKeepLocks, FixedDepositsKeepLocks
       DEF BankNext
<1> QED
  BY <1>1, <1>2, <1>3 DEF LocksInv, Locks, Selected

\* No handler, locking or not, slips a write under a row lock: while a thread
\* holds a row that its session has fresh, the balance changes by exactly what
\* that thread records, at the commit that releases the row.  For any number of
\* people, threads and rows.
THEOREM LockedRowsWrittenExactly == BankSpec => LockedWritesExact
<1>1. BankInit => LocksInv
  BY LocksInvInit
<1>2. LocksInv /\ [BankNext]_bankVars => LocksInv'
  BY LocksStep
<1>3. LocksInv /\ [BankNext]_bankVars =>
          [\A u \in Users : \A r \in Threads :
              lock[u] = r /\ Reloads(r, u) /\ balance'[u] # balance[u] =>
                 /\ balance'[u] = balance[u] + Recorded(r, u)
                 /\ lock'[u] = None]_bankVars
  BY LocksStep DEF Exact
<1> QED
  BY <1>1, <1>2, <1>3, PTL DEF BankSpec, LockedWritesExact

-----------------------------------------------------------------------------
(* Types. *)

\* What no invariant above says anything of: the locks of transactions and pots,
\* the ledger and the backfills.
BooksTyped ==
    /\ txLock \in [Txs -> Threads \cup {None}]
    /\ posted \in [Txs -> Nat]
    /\ scan \in [Threads -> SUBSET Txs]
    /\ batch \in [Threads -> SUBSET Txs]
    /\ potLock \in [Pots -> Threads \cup {None}]

LEMMA BooksStep ==
    ASSUME BooksTyped, [BankNext]_bankVars
    PROVE  BooksTyped'
<1> USE DEF BooksTyped
<1>1. CASE UNCHANGED <<txLock, posted, scan, batch>>
  <2>1. CASE UNCHANGED potLock
    BY <1>1, <2>1
  <2>2. CASE SavingsActivity
    <3>1. ASSUME NEW r \in Threads, PutIn(r) \/ TakeOut(r) \/ ClosePot(r)
          PROVE  potLock' = [potLock EXCEPT ![aim[r]] = None]
      BY <3>1 DEF PutIn, TakeOut, ClosePot, Move
    <3>2. ASSUME NEW r \in Threads, LockPot(r)
          PROVE  potLock' = [potLock EXCEPT ![aim[r]] = r]
      BY <3>2 DEF LockPot
    <3>3. ASSUME NEW r \in Threads, AbortSaving(r)
          PROVE  potLock' = [p \in Pots |-> IF potLock[p] = r THEN None ELSE potLock[p]]
      BY <3>3 DEF AbortSaving
    <3>4. ASSUME NEW r \in Threads,
                 \/ CountPots(r) \/ InsertPot(r) \/ LockSaver(r)
                 \/ \E u \in Users :
                       \/ BeginCreatePot(r, u)
                       \/ \E p \in Pots, o \in MoveOps : BeginMove(r, u, p, o)
          PROVE  UNCHANGED potLock
      BY <3>4 DEF CountPots, InsertPot, LockSaver, BeginCreatePot, BeginMove, savingsVars
    <3> QED
      BY <1>1, <2>1, <2>2, <3>1, <3>2, <3>3, <3>4 DEF SavingsActivity, SavingStep
  <2> QED
    BY <2>1, <2>2 DEF BankNext, BankApprovals, BankSavings, BankLoans, BankFixedDeposits,
                      bankVars, savingsVars
<1>2. CASE BankApprovals
  <2>1. UNCHANGED potLock
    BY <1>2 DEF BankApprovals, savingsVars
  <2>2. ASSUME NEW r \in Threads,
               \/ SubmitDeposit(r) \/ SubmitWithdrawal(r) \/ SubmitTransfer(r)
               \/ RefuseDecided(r) \/ LockParty(r) \/ SkipBonus(r)
               \/ \E u \in Users : BeginSubmit(r, u) \/ \E t \in Txs : BeginApprove(r, u, t)
        PROVE  UNCHANGED <<txLock, posted, scan, batch>>
    BY <2>2 DEF SubmitDeposit, SubmitWithdrawal, SubmitTransfer, Insert, RefuseDecided,
                LockParty, SkipBonus, BeginSubmit, BeginApprove, approvalsVars
  <2>3. ASSUME NEW r \in Threads, RefuseSubmit(r) \/ Abort(r) \/ AbortVictim(r)
        PROVE  BooksTyped'
    <3>1. Forget(r)
      BY <2>3 DEF RefuseSubmit, Abort, AbortVictim
    <3> QED
      BY <2>1, <3>1 DEF Forget
  <2>4. ASSUME NEW r \in Threads, LockPending(r) \/ RefuseUncovered(r)
        PROVE  BooksTyped'
    <3>1. /\ UNCHANGED <<posted, scan, batch>>
          /\ txLock' \in {[txLock EXCEPT ![work[r]] = r], [txLock EXCEPT ![work[r]] = None]}
      BY <2>4 DEF LockPending, RefuseUncovered
    <3> QED
      BY <2>1, <3>1
  <2>5. ASSUME NEW r \in Threads, CommitApproval(r)
        PROVE  BooksTyped'
    <3>1. /\ UNCHANGED <<scan, batch>> /\ txLock' = [txLock EXCEPT ![work[r]] = None]
          /\ posted' = [posted EXCEPT ![work[r]] =
                IF tx[work[r]].kind \in LedgerKinds /\ ~AlreadyRecorded(work[r]) THEN @ + 1 ELSE @]
      BY <2>5 DEF CommitApproval
    <3>2. posted' \in [Txs -> Nat]
      <4>1. CASE work[r] \in Txs
        <5>1. posted' \in {posted, [posted EXCEPT ![work[r]] = @ + 1]}
          BY <3>1
        <5>2. posted[work[r]] + 1 \in Nat
          BY <4>1
        <5> QED
          BY <5>1, <5>2
      <4>2. CASE work[r] \notin Txs
        BY <3>1, <4>2
      <4> QED
        BY <4>1, <4>2
    <3> QED
      BY <2>1, <3>1, <3>2
  <2>6. ASSUME NEW r \in Threads, CheckRecorded(r)
        PROVE  BooksTyped'
    BY <2>1, <2>6 DEF CheckRecorded
  <2>7. ASSUME NEW r \in Threads, CommitBackfill(r)
        PROVE  BooksTyped'
    BY <2>1, <2>7 DEF CommitBackfill
  <2>8. ASSUME NEW r \in Threads, NEW u \in Users, BeginBackfill(r, u)
        PROVE  BooksTyped'
    BY <2>1, <2>8 DEF BeginBackfill, ApprovedDeposits
  <2>9. ASSUME NEW t \in Txs, Reject(t)
        PROVE  UNCHANGED <<txLock, posted, scan, batch>>
    BY <2>9 DEF Reject
  <2> QED
    BY <1>1, <1>2, <2>2, <2>3, <2>4, <2>5, <2>6, <2>7, <2>8, <2>9
       DEF BankApprovals, ApprovalActivity, ApprovalStep
<1> QED
  BY <1>1, <1>2 DEF BankNext, BankSavings, BankLoans, BankFixedDeposits, bankVars, approvalsVars

\* Every variable of the four products together keeps its type: no product
\* writes what another could not read.
THEOREM BankTypeCorrect == BankSpec => []BankTypeOK
<1>1. BankInit => LocksInv /\ BooksTyped
  BY LocksInvInit DEF BankInit, ApprovalsInit, SavingsInit, BooksTyped
<1>2. LocksInv /\ BooksTyped /\ [BankNext]_bankVars => LocksInv' /\ BooksTyped'
  BY LocksStep, BooksStep
<1>3. LocksInv /\ BooksTyped => BankTypeOK
  <2> SUFFICES ASSUME LocksInv, BooksTyped
               PROVE  BankTypeOK
    OBVIOUS
  <2>1. AccountsTypeOK(BankOps)
    <3>1. Solvent /\ Sessions /\ RequestsTyped
      BY DEF LocksInv, BankInv, PotsInv
    <3>2. balance \in [Users -> Int] /\ view \in [Threads -> [Users -> Int]]
      BY <3>1 DEF Solvent, Sessions, Known, NotLoaded
    <3> QED
      BY <3>1, <3>2 DEF AccountsTypeOK, LocksInv, RequestsTyped, Sessions
  <2>2. TransactionsTypeOK /\ PotsTypeOK /\ LoanTablesTypeOK /\ FdTypeOK
    BY DEF LocksInv, BankInv, Papers, PotsInv, LoansInv, FdInv, BooksTyped,
           TransactionsTypeOK, PotsTypeOK
  <2> QED
    BY <2>1, <2>2 DEF BankTypeOK
<1> QED
  BY <1>1, <1>2, <1>3, PTL DEF BankSpec

-----------------------------------------------------------------------------
(* The balances.  A handler that locks writes from what is committed;         *)
(* one that does not does so only while nobody else writes its row.            *)

\* Only admins decide, a settling thread has its pending transaction locked, and
\* the old deposits are decided.
Deciding ==
    /\ \A r \in Threads :
          /\ op[r] \in {"approve", "settle"} => who[r] \in Admins
          /\ op[r] = "settle" => txLock[work[r]] = r /\ tx[work[r]].status = "pending"
    /\ \A t \in Legacy : tx[t].status = "approved"

\* A locked pot is an active one of the saver whose request holds it.
Aimed ==
    \A p \in Pots, r \in Threads :
        potLock[p] = r => /\ op[r] \in MoveOps /\ aim[r] = p
                          /\ pot[p].status = "active" /\ pot[p].owner = who[r]

LEMMA NobodyIsNone == None \notin Threads /\ None \notin Users /\ None \notin Pots
BY AccountsAssumption, SavingsAssumption

\* A step of thread r, which may lock free transactions and end or begin what
\* it decides itself.
LEMMA DecidingKept ==
    ASSUME Deciding, LocksInv, NEW r \in Threads,
           \A s \in Threads \ {r} : op'[s] = op[s] /\ who'[s] = who[s] /\ work'[s] = work[s],
           \A t \in Txs : txLock[t] \notin {None, r} => txLock'[t] = txLock[t] /\ tx'[t] = tx[t],
           \A t \in Legacy : tx'[t].status = "approved",
           op'[r] \in {"approve", "settle"} => who'[r] \in Admins,
           op'[r] = "settle" => txLock'[work'[r]] = r /\ tx'[work'[r]].status = "pending"
    PROVE  Deciding'
<1>1. ASSUME NEW s \in Threads \ {r}, op[s] = "settle"
      PROVE  txLock'[work[s]] = s /\ tx'[work[s]].status = "pending"
  <2>1. work[s] \in Txs
    BY <1>1 DEF LocksInv, BankInv, Sessions, Session
  <2> QED
    BY <1>1, <2>1, NobodyIsNone DEF Deciding
<1> QED
  BY <1>1 DEF Deciding

LEMMA DecidingStep ==
    ASSUME Deciding, LocksInv, BooksTyped, [BankNext]_bankVars
    PROVE  Deciding'
<1>0. /\ op \in [Threads -> BankOps \cup {"idle"}] /\ who \in [Threads -> Users \cup {None}]
      /\ tx \in [Txs -> TxRow] /\ work \in [Threads -> Txs \cup {None}]
      /\ txLock \in [Txs -> Threads \cup {None}] /\ Legacy \subseteq Txs
  BY ApprovalsAssumption DEF LocksInv, BankInv, PotsInv, RequestsTyped, Papers, BooksTyped
<1>1. CASE UNCHANGED bankVars
  BY <1>1 DEF bankVars, accountsVars, approvalsVars, Deciding
<1>2. CASE BankSavings \/ BankLoans \/ BankFixedDeposits
  <2>1. UNCHANGED <<tx, txLock, work>>
    BY <1>2 DEF BankSavings, BankLoans, BankFixedDeposits, approvalsVars
  <2>2. Serves(SavingsOps) \/ Serves(LoanOps) \/ Serves(FdOps)
    BY <1>2, SavingsServe, LoansServe, FixedDepositsServe
       DEF BankSavings, BankLoans, BankFixedDeposits
  <2>3. {"approve", "settle"} \cap (SavingsOps \cup LoanOps \cup FdOps \cup {"idle"}) = {}
    BY DEF SavingsOps, LoanOps, FdOps, DecideOps, MoveOps
  <2>4. \A r \in Threads : op'[r] \in {"approve", "settle"} => op'[r] = op[r] /\ who'[r] = who[r]
    BY <1>0, <2>2, <2>3 DEF Serves
  <2> QED
    BY <2>1, <2>4 DEF Deciding
<1>3. CASE BankApprovals
  <2>1. ASSUME NEW r \in Threads,
               \/ SubmitDeposit(r) \/ SubmitWithdrawal(r) \/ SubmitTransfer(r)
        PROVE  Deciding'
    <3>1. PICK x : Insert(r, x)
      BY <2>1 DEF SubmitDeposit, SubmitWithdrawal, SubmitTransfer
    <3>2. PICK t \in Txs : tx[t].status = "absent" /\ tx' = [tx EXCEPT ![t] = x]
      BY <3>1 DEF Insert, Fresh
    <3>3. op'[r] = "idle" /\ UNCHANGED <<txLock, work>>
          /\ \A s \in Threads \ {r} : op'[s] = op[s] /\ who'[s] = who[s]
      BY <1>0, <3>1 DEF Insert, Finish
    <3>4. \A s \in Threads : op[s] = "settle" => work[s] # t
      BY <3>2 DEF Deciding
    <3> QED
      BY <1>0, <3>2, <3>3, <3>4 DEF Deciding
  <2>2. ASSUME NEW r \in Threads,
               \/ RefuseDecided(r) \/ RefuseUncovered(r) \/ CommitBackfill(r)
               \/ RefuseSubmit(r) \/ Abort(r) \/ AbortVictim(r) \/ SkipBonus(r)
        PROVE  Deciding'
    <3>1. /\ Finish(r) /\ UNCHANGED tx
          /\ work' = work \/ work' = [work EXCEPT ![r] = None]
          /\ \/ txLock' = txLock
             \/ op[r] = "settle" /\ txLock' = [txLock EXCEPT ![work[r]] = None]
             \/ txLock' = [t \in Txs |-> IF txLock[t] = r THEN None ELSE txLock[t]]
      BY <2>2 DEF RefuseDecided, RefuseUncovered, CommitBackfill, RefuseSubmit, Abort,
         AbortVictim, DeadlockVictim, RollBack, Forget, SkipBonus
    <3>2. op'[r] = "idle" /\ \A s \in Threads \ {r} :
                                op'[s] = op[s] /\ who'[s] = who[s] /\ work'[s] = work[s]
      BY <1>0, <3>1 DEF Finish
    <3>3. \A t \in Txs : txLock[t] \notin {None, r} => txLock'[t] = txLock[t]
      <4>1. op[r] = "settle" => txLock[work[r]] = r
        BY DEF Deciding
      <4>2. CASE txLock' = txLock
        BY <4>2
      <4>3. CASE op[r] = "settle" /\ txLock' = [txLock EXCEPT ![work[r]] = None]
        BY <1>0, <4>1, <4>3
      <4>4. CASE txLock' = [t \in Txs |-> IF txLock[t] = r THEN None ELSE txLock[t]]
        BY <4>4
      <4> QED
        BY <3>1, <4>2, <4>3, <4>4
    <3>4. op'[r] \notin {"approve", "settle"} /\ \A t \in Legacy : tx'[t].status = "approved"
      BY <3>1, <3>2 DEF Deciding
    <3>5. \A t \in Txs : txLock[t] \notin {None, r} => txLock'[t] = txLock[t] /\ tx'[t] = tx[t]
      BY <3>1, <3>3
    <3> QED
      BY <3>2, <3>4, <3>5, DecidingKept
  <2>3. ASSUME NEW r \in Threads, LockPending(r)
        PROVE  Deciding'
    <3>1. /\ op[r] = "approve" /\ txLock[work[r]] = None /\ tx[work[r]].status = "pending"
          /\ txLock' = [txLock EXCEPT ![work[r]] = r] /\ op' = [op EXCEPT ![r] = "settle"]
          /\ UNCHANGED <<who, tx, work>>
      BY <2>3 DEF LockPending, Pending
    <3> QED
      <4>1. work[r] \in Txs
        BY <3>1 DEF LocksInv, BankInv, Sessions, Session
      <4>2. txLock'[work[r]] = r
        BY <1>0, <3>1, <4>1
      <4>3. \A s \in Threads \ {r} : op'[s] = op[s] /\ who'[s] = who[s] /\ work'[s] = work[s]
        BY <1>0, <3>1
      <4>4. \A t \in Txs : txLock[t] \notin {None, r} => txLock'[t] = txLock[t] /\ tx'[t] = tx[t]
        BY <1>0, <3>1
      <4>5. who'[r] \in Admins /\ tx'[work'[r]].status = "pending" /\ txLock'[work'[r]] = r
        BY <3>1, <4>2 DEF Deciding
      <4>6. \A t \in Legacy : tx'[t].status = "approved"
        BY <3>1 DEF Deciding
      <4> QED
        BY <4>3, <4>4, <4>5, <4>6, DecidingKept
  <2>4. ASSUME NEW r \in Threads, LockParty(r) \/ CheckRecorded(r)
        PROVE  Deciding'
    BY <2>4 DEF LockParty, LockRow, CheckRecorded, approvalsVars, accountsVars, Deciding
  <2>5. ASSUME NEW r \in Threads, CommitApproval(r)
        PROVE  Deciding'
    <3>1. /\ op[r] = "settle" /\ txLock' = [txLock EXCEPT ![work[r]] = None]
          /\ op' = [op EXCEPT ![r] = "bonus"]
          /\ tx' = [tx EXCEPT ![work[r]].status = "approved"]
          /\ UNCHANGED <<who, work>>
      BY <2>5 DEF CommitApproval
    <3>2. txLock[work[r]] = r /\ work[r] \in Txs
      BY <3>1 DEF Deciding, LocksInv, BankInv, Sessions, Session
    <3>3. \A t \in Txs : t # work[r] => txLock'[t] = txLock[t] /\ tx'[t] = tx[t]
      BY <1>0, <3>1
    <3>4. tx'[work[r]].status = "approved"
      BY <1>0, <3>1, <3>2 DEF TxRow
    <3>5. op'[r] = "bonus" /\ \A s \in Threads \ {r} :
                                 op'[s] = op[s] /\ who'[s] = who[s] /\ work'[s] = work[s]
      BY <1>0, <3>1
    <3>6. \A t \in Legacy : tx'[t].status = "approved"
      BY <1>0, <3>3, <3>4 DEF Deciding
    <3>7. op'[r] \notin {"approve", "settle"}
      BY <3>5
    <3> QED
      BY <3>2, <3>3, <3>5, <3>6, <3>7, DecidingKept
  <2>6. ASSUME NEW r \in Threads, NEW u \in Users,
               BeginSubmit(r, u) \/ BeginBackfill(r, u) \/ \E t \in Txs : BeginApprove(r, u, t)
        PROVE  Deciding'
    <3>1. \E o \in {"submit", "backfill", "approve"} :
             op' = [op EXCEPT ![r] = o] /\ (o = "approve" => u \in Admins)
      BY <2>6 DEF BeginSubmit, BeginBackfill, BeginApprove, Begin
    <3>2. /\ who' = [who EXCEPT ![r] = u] /\ UNCHANGED <<tx, txLock>>
          /\ work' = work \/ \E t \in Txs : work' = [work EXCEPT ![r] = t]
      BY <2>6 DEF BeginSubmit, BeginBackfill, BeginApprove, Begin, approvalsVars
    <3>3. \A s \in Threads \ {r} : op'[s] = op[s] /\ who'[s] = who[s] /\ work'[s] = work[s]
      BY <1>0, <3>1, <3>2
    <3>4. op'[r] # "settle" /\ (op'[r] = "approve" => who'[r] \in Admins)
      BY <1>0, <3>1, <3>2
    <3>5. \A t \in Legacy : tx'[t].status = "approved"
      BY <3>2 DEF Deciding
    <3>6. op'[r] \in {"approve", "settle"} => who'[r] \in Admins
      BY <3>4
    <3> QED
      BY <3>2, <3>3, <3>4, <3>5, <3>6, DecidingKept
  <2>7. ASSUME NEW t \in Txs, Reject(t)
        PROVE  Deciding'
    <3>1. /\ txLock[t] = None /\ tx' = [tx EXCEPT ![t].status = "rejected"]
          /\ UNCHANGED <<op, who, txLock, work>>
      BY <2>7 DEF Reject, accountsVars
    <3>2. \A s \in Threads : op[s] = "settle" => work[s] # t
      BY <3>1, NobodyIsNone DEF Deciding
    <3>3. \A q \in Txs : q # t => tx'[q] = tx[q]
      BY <1>0, <3>1
    <3>4. t \notin Legacy
      BY <2>7 DEF Reject, Pending, Deciding
    <3>5. ASSUME NEW s \in Threads, op[s] = "settle"
          PROVE  work[s] \in Txs /\ tx'[work[s]] = tx[work[s]]
      <4>1. work[s] \in Txs
        BY <3>5 DEF LocksInv, BankInv, Sessions, Session
      <4> QED
        BY <3>2, <3>3, <3>5, <4>1
    <3>6. \A q \in Legacy : tx'[q] = tx[q]
      BY <1>0, <3>3, <3>4
    <3>7. UNCHANGED <<op, who, txLock, work>>
      BY <3>1
    <3> QED
      BY <3>5, <3>6, <3>7 DEF Deciding
  <2> QED
    BY <1>3, <2>1, <2>2, <2>3, <2>4, <2>5, <2>6, <2>7
       DEF BankApprovals, ApprovalActivity, ApprovalStep
<1> QED
  BY <1>1, <1>2, <1>3 DEF BankNext

LEMMA AimedStep ==
    ASSUME Aimed, LocksInv, BooksTyped, [BankNext]_bankVars
    PROVE  Aimed'
<1>0. /\ op \in [Threads -> BankOps \cup {"idle"}] /\ who \in [Threads -> Users \cup {None}]
      /\ pot \in [Pots -> PotRow] /\ aim \in [Threads -> Pots \cup {None}]
      /\ potLock \in [Pots -> Threads \cup {None}]
  BY DEF LocksInv, BankInv, PotsInv, RequestsTyped, BooksTyped
<1>1. CASE UNCHANGED bankVars
  BY <1>1 DEF bankVars, accountsVars, savingsVars, Aimed
<1>2. CASE BankApprovals \/ BankLoans \/ BankFixedDeposits
  <2>1. UNCHANGED <<pot, potLock, aim>>
    BY <1>2 DEF BankApprovals, BankLoans, BankFixedDeposits, savingsVars
  <2>2. Serves(ApprovalOps) \/ Serves(LoanOps) \/ Serves(FdOps)
    BY <1>2, ApprovalsServe, LoansServe, FixedDepositsServe
       DEF BankLoans, BankFixedDeposits
  <2>3. MoveOps \cap (ApprovalOps \cup LoanOps \cup FdOps \cup {"idle"}) = {}
    BY DEF ApprovalOps, LoanOps, FdOps, DecideOps, MoveOps
  <2>4. \A r \in Threads : op[r] \in MoveOps => op'[r] = op[r] /\ who'[r] = who[r]
    BY <1>0, <2>2, <2>3 DEF Serves
  <2> QED
    BY <2>1, <2>4 DEF Aimed
<1>3. CASE BankSavings
  <2>1. ASSUME NEW r \in Threads, PutIn(r) \/ TakeOut(r) \/ ClosePot(r)
        PROVE  Aimed'
    <3>1. PICK amount, status : Move(r, amount, status)
      BY <2>1 DEF PutIn, TakeOut, ClosePot
    <3>2. /\ potLock[aim[r]] = r
          /\ potLock' = [potLock EXCEPT ![aim[r]] = None]
          /\ pot' = [pot EXCEPT ![aim[r]].saved = @ + amount, ![aim[r]].status = status]
          /\ \A s \in Threads \ {r} : op'[s] = op[s] /\ who'[s] = who[s] /\ aim'[s] = aim[s]
      BY <1>0, <3>1 DEF Move, Finish
    <3>3. \A p \in Pots : p # aim[r] => potLock'[p] = potLock[p] /\ pot'[p] = pot[p]
      BY <1>0, <3>2
    <3>4. \A p \in Pots : p # aim[r] => potLock[p] # r
      BY DEF Aimed
    <3>5. \A p \in Pots : p = aim[r] => potLock'[p] = None
      BY <1>0, <3>2
    <3>6. \A p \in Pots, s \in Threads :
             potLock'[p] = s => p # aim[r] /\ s # r /\ potLock[p] = s
      BY <3>3, <3>4, <3>5, NobodyIsNone
    <3>7. ASSUME NEW p \in Pots, NEW s \in Threads, potLock'[p] = s
          PROVE  /\ op'[s] \in MoveOps /\ aim'[s] = p
                 /\ pot'[p].status = "active" /\ pot'[p].owner = who'[s]
      <4>1. p # aim[r] /\ s # r /\ potLock[p] = s
        BY <3>6, <3>7
      <4>2. /\ op'[s] = op[s] /\ who'[s] = who[s] /\ aim'[s] = aim[s]
            /\ pot'[p] = pot[p]
        BY <3>2, <3>3, <4>1
      <4> QED
        BY <4>1, <4>2 DEF Aimed
    <3> QED
      BY <3>7 DEF Aimed
  <2>2. ASSUME NEW r \in Threads, CountPots(r) \/ InsertPot(r)
        PROVE  Aimed'
    <3>1. op[r] \in {"pot_count", "pot_insert"} /\ UNCHANGED <<potLock, aim>>
      BY <2>2 DEF CountPots, InsertPot, savingsVars
    <3>2. op[r] \notin MoveOps
      BY <3>1 DEF MoveOps
    <3>3. \A s \in Threads \ {r} : op'[s] = op[s] /\ who'[s] = who[s]
      BY <1>0, <2>2 DEF CountPots, InsertPot, Finish
    <3>4. \A p \in Pots : pot[p].status # "absent" => pot'[p] = pot[p]
      BY <1>0, <2>2 DEF CountPots, InsertPot, FreshPot, savingsVars
    <3> QED
      BY <3>1, <3>2, <3>3, <3>4 DEF Aimed
  <2>3. ASSUME NEW r \in Threads, LockPot(r)
        PROVE  Aimed'
    <3>1. /\ op[r] \in MoveOps /\ aim[r] \in Pots
          /\ pot[aim[r]].status = "active" /\ pot[aim[r]].owner = who[r]
          /\ potLock' = [potLock EXCEPT ![aim[r]] = r]
          /\ UNCHANGED <<op, who, pot, aim>>
      BY <2>3 DEF LockPot, ActivePots, accountsVars
    <3> QED
      BY <3>1 DEF Aimed
  <2>4. ASSUME NEW r \in Threads, LockSaver(r)
        PROVE  Aimed'
    BY <2>4 DEF LockSaver, LockRow, savingsVars, Aimed
  <2>5. ASSUME NEW r \in Threads, AbortSaving(r)
        PROVE  Aimed'
    <3>1. /\ potLock' = [p \in Pots |-> IF potLock[p] = r THEN None ELSE potLock[p]]
          /\ UNCHANGED pot
          /\ \A s \in Threads \ {r} : op'[s] = op[s] /\ who'[s] = who[s] /\ aim'[s] = aim[s]
      BY <1>0, <2>5 DEF AbortSaving, RollBack, Finish
    <3>2. \A p \in Pots, s \in Threads : potLock'[p] = s => s # r /\ potLock[p] = s
      BY <3>1, NobodyIsNone
    <3> QED
      BY <3>1, <3>2 DEF Aimed
  <2>6. ASSUME NEW r \in Threads, NEW u \in Users,
               \/ BeginCreatePot(r, u)
               \/ \E p \in Pots, o \in MoveOps : BeginMove(r, u, p, o)
        PROVE  Aimed'
    <3>1. /\ op[r] = "idle" /\ UNCHANGED <<pot, potLock>>
          /\ \A s \in Threads \ {r} : op'[s] = op[s] /\ who'[s] = who[s] /\ aim'[s] = aim[s]
      BY <1>0, <2>6 DEF BeginCreatePot, BeginMove, Begin, savingsVars
    <3>2. \A p \in Pots : potLock[p] # r
      BY <3>1 DEF Aimed, MoveOps
    <3> QED
      BY <3>1, <3>2 DEF Aimed
  <2> QED
    BY <1>3, <2>1, <2>2, <2>3, <2>4, <2>5, <2>6 DEF BankSavings, SavingsActivity, SavingStep
<1> QED
  BY <1>1, <1>2, <1>3 DEF BankNext

-----------------------------------------------------------------------------
(* What requests about loans and fixed deposits have read.                   *)

ProductOps == LoanOps \cup FdOps

\* What the deposits that a session has credited pay out.
Payable(r) == SumFunctionOnSet([f \in FdIds |-> fd[f].payout], paying[r])

\* What a request about a loan or a fixed deposit has read is what is
\* committed; an admin decides, and a payout is of the requester's deposits.
Current(r) ==
    /\ op[r] # "fd_payout" => paying[r] = {}
    /\ op[r] \in Unlocking => view[r][who[r]] = balance[who[r]] + Payable(r)
    /\ \A f \in todo[r] \cup paying[r] : fd[f].status # "absent" /\ fd[f].owner = who[r]
    /\ read[r] # NoLoan => read[r] = loan[file[r]] /\ Readable(op[r], read[r], who[r])
    /\ op[r] \in DecideOps => who[r] \in Admins

AllCurrent == \A r \in Threads : Current(r)

LEMMA ProductOpsAre ==
    /\ ProductOps = {"loan_approve", "loan_reject", "loan_repay",
                     "fd_open", "fd_profile", "fd_payout"}
    /\ "idle" \notin ProductOps
    /\ ProductOps \cap (ApprovalOps \cup SavingsOps) = {}
BY DEF ProductOps, LoanOps, FdOps, DecideOps, ApprovalOps, SavingsOps, MoveOps

\* A request about something else has read none of it.
LEMMA NothingRead ==
    ASSUME LocksInv, NEW r \in Threads, Current(r), op[r] \notin ProductOps
    PROVE  paying[r] = {} /\ todo[r] = {} /\ read[r] = NoLoan
BY ProductOpsAre DEF Current, LocksInv, BankInv, LoansInv, Reading, ProductOps

LEMMA NothingReadIsCurrent ==
    ASSUME NEW r \in Threads,
           paying'[r] = {}, todo'[r] = {}, read'[r] = NoLoan, op'[r] \notin ProductOps
    PROVE  Current(r)'
BY DEF Current, ProductOps, Unlocking, LoanOps

\* What a step leaves of another thread's request.
Stays(s) ==
    /\ op'[s] = op[s] /\ who'[s] = who[s] /\ view'[s] = view[s]
    /\ paying'[s] = paying[s] /\ todo'[s] = todo[s]
    /\ read'[s] = read[s] /\ file'[s] = file[s]

\* What no step changes of a deposit.
FdsKept ==
    \A f \in FdIds :
        fd[f].status # "absent" => /\ fd'[f].status # "absent"
                                   /\ fd'[f].owner = fd[f].owner /\ fd'[f].payout = fd[f].payout

LEMMA TablesFinite ==
    IsFiniteSet(Txs) /\ IsFiniteSet(Pots) /\ IsFiniteSet(LoanIds) /\ IsFiniteSet(FdIds)
BY ApprovalsAssumption, SavingsAssumption, LoansAssumption, FixedDepositsAssumption, FS_Interval
   DEF Txs, Pots, LoanIds, FdIds

LEMMA CurrentKept ==
    ASSUME LocksInv, NEW s \in Threads, Current(s), Stays(s), FdsKept,
           op[s] \in Unlocking => balance'[who[s]] = balance[who[s]],
           read[s] # NoLoan => loan'[file[s]] = loan[file[s]]
    PROVE  Current(s)'
<1> DEFINE pays == [f \in FdIds |-> fd[f].payout]
           after == [f \in FdIds |-> fd'[f].payout]
<1>1. /\ paying[s] \subseteq FdIds /\ todo[s] \subseteq FdIds
      /\ \A f \in FdIds : pays[f] \in Int
  BY DEF LocksInv, BankInv, FdInv, FdTypeOK, FdRow
<1>2. \A f \in todo[s] \cup paying[s] : fd'[f].status # "absent" /\ fd'[f].owner = who[s]
  BY <1>1 DEF Current, FdsKept
<1>3. \A f \in paying[s] : after[f] = pays[f]
  BY <1>1 DEF Current, FdsKept
<1>4. IsFiniteSet(paying[s])
  BY <1>1, TablesFinite, FS_Subset
<1>5. Payable(s) = SumFunctionOnSet(pays, paying[s])
      /\ Payable(s)' = SumFunctionOnSet(after, paying[s])
  BY DEF Payable, Stays
<1> HIDE DEF pays, after
<1>6. Payable(s)' = Payable(s)
  BY <1>1, <1>3, <1>4, <1>5, SumSame
<1> QED
  BY <1>2, <1>6 DEF Current, Stays

LEMMA WritesAre ==
    ASSUME NEW r \in Threads
    PROVE  /\ op[r] = "settle" => Writes(r) = Parties(tx[work[r]])
           /\ op[r] = "loan_approve" => Writes(r) = {loan[file[r]].owner}
           /\ op[r] \in MoveOps \cup Unlocking => Writes(r) = {who[r]}
BY DEF Writes, MoveOps, Unlocking, FdOps

\* What a thread writes is no other's whose request does not lock it.
LEMMA CurrentIfApart ==
    ASSUME LocksInv, AllCurrent, UnlockedApart, NEW r \in Threads, FdsKept,
           \A u \in Users : balance'[u] = balance[u] \/ u \in Writes(r),
           \A l \in LoanIds : loan'[l] = loan[l] \/ (op[r] \in LoanOps /\ l = file[r]),
           \A s \in Threads \ {r} : Stays(s),
           Current(r)'
    PROVE  AllCurrent'
<1>1. ASSUME NEW s \in Threads \ {r}
      PROVE  Current(s)'
  <2>1. op[s] \in Unlocking => who[s] \in Users
    BY DEF Unlocking, FdOps, LocksInv, BankInv, Sessions, Session
  <2>2. op[s] \in Unlocking => balance'[who[s]] = balance[who[s]]
    BY <2>1 DEF UnlockedApart
  <2>3. read[s] # NoLoan => op[s] \in LoanOps /\ file[s] \in LoanIds
    BY DEF LocksInv, BankInv, LoansInv, Reading
  <2>4. read[s] # NoLoan => loan'[file[s]] = loan[file[s]]
    BY <2>3 DEF UnlockedApart
  <2> QED
    BY <2>2, <2>4, CurrentKept DEF AllCurrent
<1> QED
  BY <1>1 DEF AllCurrent

\* A step of approvals or savings.
LEMMA CurrentBeside ==
    ASSUME LocksInv, AllCurrent, UnlockedApart, NEW r \in Threads,
           op[r] \notin ProductOps, op'[r] \notin ProductOps,
           \A u \in Users : balance'[u] = balance[u] \/ u \in Writes(r),
           \A s \in Threads \ {r} : op'[s] = op[s] /\ who'[s] = who[s] /\ view'[s] = view[s],
           UNCHANGED <<loansVars, fdVars>>
    PROVE  AllCurrent'
<1>1. Current(r)'
  BY NothingRead, NothingReadIsCurrent DEF AllCurrent, loansVars, fdVars
<1>2. \A s \in Threads \ {r} : Stays(s)
  BY DEF Stays, loansVars, fdVars
<1> QED
  BY <1>1, <1>2, CurrentIfApart DEF FdsKept, loansVars, fdVars

LEMMA ApprovalsKeepCurrent ==
    ASSUME LocksInv, AllCurrent, UnlockedApart, BankApprovals
    PROVE  AllCurrent'
<1>0. /\ op \in [Threads -> BankOps \cup {"idle"}] /\ who \in [Threads -> Users \cup {None}]
      /\ view \in [Threads -> [Users -> Known]]
      /\ UNCHANGED <<loansVars, fdVars>>
  BY DEF LocksInv, BankInv, PotsInv, RequestsTyped, Sessions, BankApprovals
<1>1. ASSUME NEW r \in Threads, NEW o \in ApprovalOps \cup {"idle"}, op' = [op EXCEPT ![r] = o],
             op[r] \in ApprovalOps \cup {"idle"},
             \A u \in Users : balance'[u] = balance[u] \/ u \in Writes(r),
             who' = who \/ \E u : who' = [who EXCEPT ![r] = u],
             view' = view \/ \E v : view' = [view EXCEPT ![r] = v]
      PROVE  AllCurrent'
  <2>1. op[r] \notin ProductOps /\ op'[r] \notin ProductOps
    BY <1>0, <1>1, ProductOpsAre
  <2>2. \A s \in Threads \ {r} : op'[s] = op[s] /\ who'[s] = who[s] /\ view'[s] = view[s]
    BY <1>0, <1>1
  <2> QED
    BY <1>0, <1>1, <2>1, <2>2, CurrentBeside
<1>2. ASSUME NEW r \in Threads,
             \/ SubmitDeposit(r) \/ SubmitWithdrawal(r) \/ SubmitTransfer(r) \/ RefuseSubmit(r)
             \/ RefuseDecided(r) \/ RefuseUncovered(r) \/ CommitBackfill(r)
             \/ Abort(r) \/ AbortVictim(r) \/ SkipBonus(r)
      PROVE  AllCurrent'
  <2>1. Finish(r) /\ op[r] \in ApprovalOps /\ UNCHANGED balance
    BY <1>2 DEF SubmitDeposit, SubmitWithdrawal, SubmitTransfer, Insert, RefuseSubmit,
       RefuseDecided, RefuseUncovered, CommitBackfill, Abort, AbortVictim, DeadlockVictim,
       RollBack, SkipBonus, ApprovalOps
  <2>2. /\ op' = [op EXCEPT ![r] = "idle"] /\ who' = [who EXCEPT ![r] = None]
        /\ view' = [view EXCEPT ![r] = EmptyView]
    BY <2>1 DEF Finish
  <2> QED
    BY <1>1, <2>1, <2>2
<1>3. ASSUME NEW r \in Threads, LockPending(r)
      PROVE  AllCurrent'
  <2>1. op[r] = "approve" /\ op' = [op EXCEPT ![r] = "settle"]
        /\ UNCHANGED <<balance, who, view>>
    BY <1>3 DEF LockPending
  <2> QED
    BY <1>1, <2>1 DEF ApprovalOps
<1>4. ASSUME NEW r \in Threads, CommitApproval(r)
      PROVE  AllCurrent'
  <2>1. op[r] = "settle" /\ op' = [op EXCEPT ![r] = "bonus"] /\ who' = who
        /\ \E v : view' = [view EXCEPT ![r] = v]
        /\ \A u \in Users : balance'[u] = balance[u] \/ u \in Parties(tx[work[r]])
    BY <1>4 DEF CommitApproval
  <2>2. \A u \in Users : balance'[u] = balance[u] \/ u \in Writes(r)
    BY <2>1, WritesAre
  <2>3. op[r] \in ApprovalOps /\ "bonus" \in ApprovalOps
    BY <2>1 DEF ApprovalOps
  <2> QED
    BY <1>1, <2>1, <2>2, <2>3
<1>5. ASSUME NEW r \in Threads, LockParty(r)
      PROVE  AllCurrent'
  <2>1. /\ op[r] = "settle" /\ UNCHANGED <<balance, op, who>>
        /\ view' = view \/ view' = [view EXCEPT ![r][want[r]] = balance[want[r]]]
    BY <1>5 DEF LockParty, LockRow
  <2>2. op' = [op EXCEPT ![r] = "settle"]
    BY <1>0, <2>1
  <2>3. view' = view \/ \E v : view' = [view EXCEPT ![r] = v]
    BY <2>1
  <2> QED
    BY <1>1, <2>1, <2>2, <2>3 DEF ApprovalOps
<1>6. ASSUME NEW r \in Threads, CheckRecorded(r)
      PROVE  AllCurrent'
  <2>1. op[r] = "backfill" /\ UNCHANGED <<balance, op, who, view>>
    BY <1>6 DEF CheckRecorded, accountsVars
  <2>2. op' = [op EXCEPT ![r] = "backfill"]
    BY <1>0, <2>1
  <2> QED
    BY <1>1, <2>1, <2>2 DEF ApprovalOps
<1>7. ASSUME NEW r \in Threads, NEW u \in Users,
             BeginSubmit(r, u) \/ BeginBackfill(r, u) \/ \E t \in Txs : BeginApprove(r, u, t)
      PROVE  AllCurrent'
  <2>1. PICK o \in {"submit", "backfill", "approve"} : Begin(r, u, o)
    BY <1>7 DEF BeginSubmit, BeginBackfill, BeginApprove
  <2>2. UNCHANGED balance
    BY <1>7 DEF BeginSubmit, BeginBackfill, BeginApprove
  <2>3. /\ op[r] = "idle" /\ op' = [op EXCEPT ![r] = o] /\ o \in ApprovalOps
        /\ who' = [who EXCEPT ![r] = u] /\ \E v : view' = [view EXCEPT ![r] = v]
    BY <2>1 DEF Begin, ApprovalOps
  <2> QED
    BY <1>1, <2>2, <2>3
<1>8. ASSUME NEW t \in Txs, Reject(t)
      PROVE  AllCurrent'
  <2>1. UNCHANGED <<accountsVars, loansVars, fdVars>>
    BY <1>0, <1>8 DEF Reject
  <2>2. \A s \in Threads : Stays(s)
    BY <2>1 DEF Stays, accountsVars, loansVars, fdVars
  <2> QED
    BY <2>1, <2>2, CurrentKept DEF AllCurrent, FdsKept, accountsVars, loansVars, fdVars
<1> QED
  BY <1>2, <1>3, <1>4, <1>5, <1>6, <1>7, <1>8 DEF BankApprovals, ApprovalActivity, ApprovalStep

LEMMA SavingsKeepCurrent ==
    ASSUME LocksInv, AllCurrent, UnlockedApart, BankSavings
    PROVE  AllCurrent'
<1>0. /\ op \in [Threads -> BankOps \cup {"idle"}] /\ who \in [Threads -> Users \cup {None}]
      /\ view \in [Threads -> [Users -> Known]]
      /\ UNCHANGED <<loansVars, fdVars>>
  BY DEF LocksInv, BankInv, PotsInv, RequestsTyped, Sessions, BankSavings
<1>1. ASSUME NEW r \in Threads, NEW o \in SavingsOps \cup {"idle"}, op' = [op EXCEPT ![r] = o],
             op[r] \in SavingsOps \cup {"idle"},
             \A u \in Users : balance'[u] = balance[u] \/ u \in Writes(r),
             who' = who \/ \E u : who' = [who EXCEPT ![r] = u],
             view' = view \/ \E v : view' = [view EXCEPT ![r] = v]
      PROVE  AllCurrent'
  <2>1. op[r] \notin ProductOps /\ op'[r] \notin ProductOps
    BY <1>0, <1>1, ProductOpsAre
  <2>2. \A s \in Threads \ {r} : op'[s] = op[s] /\ who'[s] = who[s] /\ view'[s] = view[s]
    BY <1>0, <1>1
  <2> QED
    BY <1>0, <1>1, <2>1, <2>2, CurrentBeside
<1>2. ASSUME NEW r \in Threads,
             PutIn(r) \/ TakeOut(r) \/ ClosePot(r) \/ InsertPot(r) \/ AbortSaving(r)
      PROVE  AllCurrent'
  <2>1. /\ Finish(r) /\ op[r] \in SavingsOps
        /\ \A u \in Users : balance'[u] = balance[u] \/ (op[r] \in MoveOps /\ u = who[r])
    <3>1. CASE PutIn(r) \/ TakeOut(r) \/ ClosePot(r)
      <4>1. PICK amount, status : Move(r, amount, status)
        BY <3>1 DEF PutIn, TakeOut, ClosePot
      <4>2. op[r] \in MoveOps /\ op[r] \in SavingsOps
        BY <3>1 DEF PutIn, TakeOut, ClosePot, MoveOps, SavingsOps
      <4>3. Finish(r) /\ balance' = [balance EXCEPT ![who[r]] = view[r][who[r]] - amount]
        BY <4>1 DEF Move
      <4> QED
        BY <4>2, <4>3 DEF LocksInv, BankInv, Solvent
    <3>2. CASE InsertPot(r) \/ AbortSaving(r)
      BY <3>2 DEF InsertPot, AbortSaving, RollBack, SavingsOps
    <3> QED
      BY <1>2, <3>1, <3>2
  <2>2. /\ op' = [op EXCEPT ![r] = "idle"] /\ who' = [who EXCEPT ![r] = None]
        /\ view' = [view EXCEPT ![r] = EmptyView]
    BY <2>1 DEF Finish
  <2> QED
    BY <1>1, <2>1, <2>2, WritesAre
<1>3. ASSUME NEW r \in Threads, CountPots(r)
      PROVE  AllCurrent'
  <2>1. op[r] = "pot_count" /\ op' = [op EXCEPT ![r] = "pot_insert"]
        /\ UNCHANGED <<balance, who, view>>
    BY <1>3 DEF CountPots
  <2> QED
    BY <1>1, <2>1 DEF SavingsOps
<1>4. ASSUME NEW r \in Threads, LockPot(r) \/ LockSaver(r)
      PROVE  AllCurrent'
  <2>1. /\ op[r] \in SavingsOps /\ UNCHANGED <<balance, op, who>>
        /\ view' = view \/ view' = [view EXCEPT ![r][want[r]] = balance[want[r]]]
    BY <1>4 DEF LockPot, LockSaver, LockRow, accountsVars, SavingsOps
  <2>2. op' = [op EXCEPT ![r] = op[r]]
    BY <1>0, <2>1
  <2>3. view' = view \/ \E v : view' = [view EXCEPT ![r] = v]
    BY <2>1
  <2> QED
    BY <1>1, <2>1, <2>2, <2>3
<1>5. ASSUME NEW r \in Threads, NEW u \in Users,
             \/ BeginCreatePot(r, u)
             \/ \E p \in Pots, o \in MoveOps : BeginMove(r, u, p, o)
      PROVE  AllCurrent'
  <2>1. PICK o \in SavingsOps : Begin(r, u, o)
    BY <1>5 DEF BeginCreatePot, BeginMove, SavingsOps
  <2>2. UNCHANGED balance
    BY <1>5 DEF BeginCreatePot, BeginMove
  <2>3. /\ op[r] = "idle" /\ op' = [op EXCEPT ![r] = o]
        /\ who' = [who EXCEPT ![r] = u] /\ \E v : view' = [view EXCEPT ![r] = v]
    BY <2>1 DEF Begin
  <2> QED
    BY <1>1, <2>2, <2>3
<1> QED
  BY <1>2, <1>3, <1>4, <1>5 DEF BankSavings, SavingsActivity, SavingStep

LEMMA LoansKeepCurrent ==
    ASSUME LocksInv, AllCurrent, UnlockedApart, BankLoans
    PROVE  AllCurrent'
<1>0. /\ op \in [Threads -> BankOps \cup {"idle"}] /\ who \in [Threads -> Users \cup {None}]
      /\ view \in [Threads -> [Users -> Known]]
      /\ loan \in [LoanIds -> LoanRow] /\ file \in [Threads -> LoanIds \cup {None}]
      /\ read \in [Threads -> LoanRow]
      /\ UNCHANGED <<fd, paying, todo>>
  BY DEF LocksInv, BankInv, PotsInv, RequestsTyped, Sessions, LoansInv, LoanTablesTypeOK,
     BankLoans, fdVars
<1>1. ASSUME NEW r \in Threads,
             CommitRepay(r) \/ CommitLoan(r) \/ CommitRejection(r) \/ AbortLoan(r)
      PROVE  AllCurrent'
  <2>1. Finish(r) /\ CloseFile(r) /\ op[r] \in {"loan_approve", "loan_reject", "loan_repay"}
    BY <1>1 DEF CommitRepay, CommitLoan, CommitRejection, AbortLoan, RollBack, DecideOps
  <2>2. \A s \in Threads \ {r} : Stays(s)
    BY <1>0, <2>1 DEF Stays, Finish, CloseFile
  <2>3. paying[r] = {} /\ todo[r] = {}
    BY <2>1 DEF AllCurrent, Current, LocksInv
  <2>4. read'[r] = NoLoan /\ op'[r] = "idle"
    BY <1>0, <2>1 DEF Finish, CloseFile
  <2>5. Current(r)'
    BY <1>0, <2>3, <2>4, NothingReadIsCurrent, ProductOpsAre
  <2>6. \A u \in Users : balance'[u] = balance[u] \/ u \in Writes(r)
    <3>1. CASE CommitRepay(r)
      <4>1. \A u \in Users : balance'[u] = balance[u] \/ u = who[r]
        BY <3>1 DEF CommitRepay, LocksInv, BankInv, Solvent
      <4>2. op[r] \in Unlocking
        BY <3>1 DEF CommitRepay, Unlocking
      <4> QED
        BY <4>1, <4>2, WritesAre
    <3>2. CASE CommitLoan(r)
      <4>1. /\ op[r] = "loan_approve" /\ read[r] # NoLoan
            /\ \A u \in Users : balance'[u] = balance[u] \/ u = read[r].owner
        BY <3>2 DEF CommitLoan, LocksInv, BankInv, Solvent
      <4>2. read[r] = loan[file[r]]
        BY <4>1 DEF AllCurrent, Current
      <4> QED
        BY <4>1, <4>2, WritesAre
    <3>3. CASE CommitRejection(r) \/ AbortLoan(r)
      BY <3>3 DEF CommitRejection, AbortLoan, RollBack
    <3> QED
      BY <1>1, <3>1, <3>2, <3>3
  <2>7. \A l \in LoanIds : loan'[l] = loan[l] \/ l = file[r]
    BY <1>0, <1>1 DEF CommitRepay, CommitLoan, CommitRejection, AbortLoan
  <2>8. op[r] \in LoanOps
    BY <2>1 DEF LoanOps, DecideOps
  <2> QED
    BY <1>0, <2>2, <2>5, <2>6, <2>7, <2>8, CurrentIfApart DEF FdsKept
<1>2. ASSUME NEW r \in Threads, ReadLoan(r)
      PROVE  AllCurrent'
  <2>1. /\ op[r] \in {"loan_approve", "loan_reject", "loan_repay"}
        /\ Readable(op[r], loan[file[r]], who[r])
        /\ read' = [read EXCEPT ![r] = loan[file[r]]]
        /\ UNCHANGED <<balance, op, who, view, loan, file>>
    BY <1>2 DEF ReadLoan, DecideOps
  <2>2. \A s \in Threads \ {r} : Stays(s)
    BY <1>0, <2>1 DEF Stays
  <2>3. read'[r] = loan[file[r]]
    BY <1>0, <2>1
  <2>4. Payable(r)' = Payable(r)
    BY <1>0 DEF Payable
  <2>5. Current(r)'
    BY <1>0, <2>1, <2>3, <2>4 DEF AllCurrent, Current
  <2> QED
    BY <1>0, <2>1, <2>2, <2>5, CurrentIfApart DEF FdsKept
<1>3. ASSUME NEW r \in Threads, LockBorrower(r)
      PROVE  AllCurrent'
  <2>1. /\ op[r] = "loan_approve"
        /\ UNCHANGED <<balance, op, who, loan, file, read>>
        /\ view' = view \/ view' = [view EXCEPT ![r][want[r]] = balance[want[r]]]
    BY <1>3 DEF LockBorrower, LockRow, loansVars
  <2>2. \A s \in Threads \ {r} : Stays(s)
    BY <1>0, <2>1 DEF Stays
  <2>3. Current(r)'
    BY <1>0, <2>1 DEF AllCurrent, Current, Unlocking, FdOps
  <2> QED
    BY <1>0, <2>1, <2>2, <2>3, CurrentIfApart DEF FdsKept
<1>4. ASSUME NEW r \in Threads, NEW u \in Users, NEW l \in LoanIds,
             BeginRepay(r, u, l) \/ \E o \in DecideOps : BeginDecide(r, u, l, o)
      PROVE  AllCurrent'
  <2>1. PICK o \in DecideOps \cup {"loan_repay"} :
           Begin(r, u, o) /\ (o \in DecideOps => u \in Admins)
    BY <1>4 DEF BeginRepay, BeginDecide, DecideOps
  <2>2. file' = [file EXCEPT ![r] = l] /\ UNCHANGED <<balance, loan, read>>
    BY <1>4 DEF BeginRepay, BeginDecide
  <2>3. /\ op[r] = "idle" /\ op' = [op EXCEPT ![r] = o] /\ who' = [who EXCEPT ![r] = u]
        /\ view' = [view EXCEPT ![r] = [EmptyView EXCEPT ![u] = balance[u]]]
    BY <2>1 DEF Begin
  <2>4. \A s \in Threads \ {r} : Stays(s)
    BY <1>0, <2>2, <2>3 DEF Stays
  <2>5. paying[r] = {} /\ todo[r] = {} /\ read[r] = NoLoan
    BY <2>3, NothingRead, ProductOpsAre DEF AllCurrent
  <2>6. op'[r] = o /\ who'[r] = u /\ view'[r][u] = balance[u]
    BY <1>0, <2>3, EmptyViewKnown
  <2>7. Payable(r)' = 0
    BY <1>0, <2>5, SumOfNone DEF Payable
  <2>8. balance[u] = balance[u] + 0
    BY DEF LocksInv, BankInv, Solvent
  <2>9. Current(r)'
    BY <1>0, <2>1, <2>2, <2>5, <2>6, <2>7, <2>8 DEF Current
  <2> QED
    BY <1>0, <2>2, <2>4, <2>9, CurrentIfApart DEF FdsKept
<1>5. ASSUME NEW u \in Users, ApplyForLoan(u)
      PROVE  AllCurrent'
  <2>1. PICK l \in LoanIds : loan[l].status = "absent" /\ \E row : loan' = [loan EXCEPT ![l] = row]
    BY <1>5 DEF ApplyForLoan, FreshLoan
  <2>2. UNCHANGED <<balance, op, who, view, file, read>>
    BY <1>5 DEF ApplyForLoan, accountsVars
  <2>3. ASSUME NEW s \in Threads, read[s] # NoLoan
        PROVE  loan'[file[s]] = loan[file[s]]
    <3>1. file[s] \in LoanIds /\ loan[file[s]].status # "absent"
      BY <2>3 DEF LocksInv, BankInv, LoansInv, Reading
    <3> QED
      BY <1>0, <2>1, <3>1
  <2>4. \A s \in Threads : Stays(s)
    BY <1>0, <2>2 DEF Stays
  <2> QED
    BY <1>0, <2>2, <2>3, <2>4, CurrentKept DEF AllCurrent, FdsKept
<1> QED
  BY <1>1, <1>2, <1>3, <1>4, <1>5 DEF BankLoans, LoansActivity, LoanStep

\* Another matured deposit is locked and credited.
LEMMA ClaimKeepsCurrent ==
    ASSUME LocksInv, AllCurrent, UnlockedApart, NEW r \in Threads, ClaimNext(r),
           UNCHANGED loansVars
    PROVE  AllCurrent'
<1>0. /\ view \in [Threads -> [Users -> Known]] /\ who \in [Threads -> Users \cup {None}]
      /\ fd \in [FdIds -> FdRow]
      /\ paying \in [Threads -> SUBSET FdIds] /\ todo \in [Threads -> SUBSET FdIds]
  BY DEF LocksInv, BankInv, PotsInv, RequestsTyped, Sessions, FdInv, FdTypeOK
<1>1. PICK f \in todo[r] :
         /\ fdLock[f] = None
         /\ todo' = [todo EXCEPT ![r] = @ \ {f}]
         /\ \/ /\ paying' = [paying EXCEPT ![r] = @ \cup {f}]
               /\ view' = [view EXCEPT ![r][who[r]] = @ + fd[f].payout]
            \/ UNCHANGED <<paying, view>>
         /\ UNCHANGED <<balance, op, who, fd>>
  BY DEF ClaimNext, FdFree
<1>2. op[r] = "fd_payout"
  BY <1>1 DEF LocksInv
<1>3. who[r] \in Users /\ view[r][who[r]] \in Nat
  BY <1>2 DEF LocksInv, BankInv, Sessions, Session
<1>4. \A s \in Threads \ {r} : Stays(s)
  BY <1>0, <1>1 DEF Stays, loansVars
<1>5. f \in FdIds /\ f \notin paying[r]
  BY <1>0, <1>1, NobodyIsNone DEF LocksInv, BankInv, FdInv
<1>6. \A g \in todo'[r] \cup paying'[r] : fd'[g].status # "absent" /\ fd'[g].owner = who'[r]
  BY <1>0, <1>1 DEF AllCurrent, Current
<1>7. view[r][who[r]] = balance[who[r]] + Payable(r)
  BY <1>2 DEF AllCurrent, Current, Unlocking, FdOps
<1>8. view'[r][who[r]] = balance[who[r]] + Payable(r)'
  <2>1. CASE UNCHANGED <<paying, view>>
    BY <1>1, <1>7, <2>1 DEF Payable
  <2>2. CASE /\ paying' = [paying EXCEPT ![r] = @ \cup {f}]
             /\ view' = [view EXCEPT ![r][who[r]] = @ + fd[f].payout]
    <3> DEFINE pays == [g \in FdIds |-> fd[g].payout]
    <3>1. \A g \in FdIds : pays[g] \in Int
      BY <1>0 DEF FdRow
    <3>2. paying'[r] = paying[r] \cup {f} /\ paying[r] \subseteq FdIds
      BY <1>0, <2>2
    <3>3. IsFiniteSet(paying[r])
      BY <3>2, TablesFinite, FS_Subset
    <3>4. Payable(r) = SumFunctionOnSet(pays, paying[r])
          /\ Payable(r)' = SumFunctionOnSet(pays, paying[r] \cup {f})
      BY <1>1, <3>2 DEF Payable
    <3>5. view'[r][who[r]] = view[r][who[r]] + pays[f]
      BY <1>0, <1>3, <1>5, <2>2
    <3> HIDE DEF pays
    <3>6. Payable(r)' = Payable(r) + pays[f]
      BY <1>5, <3>1, <3>2, <3>3, <3>4, SumAdd
    <3>7. Payable(r) \in Int /\ pays[f] \in Int /\ balance[who[r]] \in Int
      <4>1. SumFunctionOnSet(pays, paying[r]) \in Int
        BY <3>1, <3>2, <3>3, SumTakeOut
      <4> QED
        BY <1>3, <1>5, <3>1, <3>4, <4>1 DEF LocksInv, BankInv, Solvent
    <3> QED
      BY <1>7, <3>5, <3>6, <3>7
  <2> QED
    BY <1>1, <2>1, <2>2
<1>9. Current(r)'
  BY <1>1, <1>2, <1>6, <1>8 DEF AllCurrent, Current, DecideOps, loansVars
<1> QED
  BY <1>1, <1>4, <1>9, CurrentIfApart DEF FdsKept, loansVars

LEMMA FixedDepositsKeepCurrent ==
    ASSUME LocksInv, AllCurrent, UnlockedApart, BankFixedDeposits
    PROVE  AllCurrent'
<1>0. /\ op \in [Threads -> BankOps \cup {"idle"}] /\ who \in [Threads -> Users \cup {None}]
      /\ view \in [Threads -> [Users -> Known]]
      /\ paying \in [Threads -> SUBSET FdIds] /\ todo \in [Threads -> SUBSET FdIds]
      /\ UNCHANGED loansVars
  BY DEF LocksInv, BankInv, PotsInv, RequestsTyped, Sessions, FdInv, FdTypeOK, BankFixedDeposits
<1>1. ASSUME NEW r \in Threads, op[r] \in FdOps
      PROVE  op[r] # "idle" /\ read[r] = NoLoan
  BY <1>1 DEF FdOps, LocksInv, BankInv, LoansInv, Reading, LoanOps, DecideOps
<1>2. ASSUME NEW r \in Threads,
             CommitOpen(r) \/ NothingMatured(r) \/ CommitPayout(r) \/ AbortFd(r)
      PROVE  AllCurrent'
  <2>1. Finish(r) /\ op[r] \in FdOps
    BY <1>2 DEF CommitOpen, NothingMatured, CommitPayout, AbortFd, RollBack, FdOps
  <2>2. /\ todo' = todo \/ todo' = [todo EXCEPT ![r] = {}]
        /\ paying' = paying \/ paying' = [paying EXCEPT ![r] = {}]
    BY <1>2 DEF CommitOpen, NothingMatured, CommitPayout, AbortFd, fdVars
  <2>3. todo'[r] = {} /\ paying'[r] = {}
    <3>1. op[r] = "fd_open" => todo[r] = {} /\ paying[r] = {}
      BY DEF AllCurrent, Current, LocksInv
    <3> QED
      BY <1>0, <1>2, <3>1 DEF CommitOpen, NothingMatured, CommitPayout, AbortFd, fdVars
  <2>4. \A s \in Threads \ {r} : Stays(s)
    BY <1>0, <2>1, <2>2 DEF Stays, Finish, loansVars
  <2>5. op'[r] = "idle" /\ read'[r] = NoLoan
    BY <1>0, <1>1, <2>1 DEF Finish, loansVars
  <2>6. Current(r)'
    BY <2>3, <2>5, NothingReadIsCurrent, ProductOpsAre
  <2>7. \A u \in Users : balance'[u] = balance[u] \/ u = who[r]
    BY <1>2 DEF CommitOpen, NothingMatured, CommitPayout, AbortFd, RollBack, LocksInv, BankInv,
       Solvent
  <2>8. op[r] \in Unlocking
    BY <2>1 DEF Unlocking
  <2>9. FdsKept
    <3>1. CASE CommitOpen(r)
      BY <3>1 DEF CommitOpen, FreshFd, FdsKept, LocksInv, BankInv, FdInv, FdTypeOK
    <3>2. CASE CommitPayout(r)
      BY <3>2 DEF CommitPayout, FdsKept, LocksInv, BankInv, FdInv, FdTypeOK, FdRow
    <3>3. CASE NothingMatured(r) \/ AbortFd(r)
      BY <3>3 DEF NothingMatured, AbortFd, FdsKept, fdVars
    <3> QED
      BY <1>2, <3>1, <3>2, <3>3
  <2> QED
    BY <1>0, <2>4, <2>6, <2>7, <2>8, <2>9, CurrentIfApart, WritesAre DEF loansVars
<1>3. ASSUME NEW r \in Threads, SelectMatured(r)
      PROVE  AllCurrent'
  <2>1. /\ op[r] = "fd_profile" /\ op' = [op EXCEPT ![r] = "fd_payout"]
        /\ todo' = [todo EXCEPT ![r] =
                       {f \in due : fd[f].owner = who[r] /\ fd[f].status = "active"}]
        /\ UNCHANGED <<balance, who, view, fd, paying>>
    BY <1>3 DEF SelectMatured
  <2>2. \A s \in Threads \ {r} : Stays(s)
    BY <1>0, <2>1 DEF Stays, loansVars
  <2>3. op[r] \in Unlocking /\ op[r] # "fd_payout" /\ op[r] \in FdOps
    BY <2>1 DEF Unlocking, FdOps
  <2>4. paying[r] = {} /\ read[r] = NoLoan
        /\ view[r][who[r]] = balance[who[r]] + Payable(r)
    BY <1>1, <2>3 DEF AllCurrent, Current
  <2>5. Payable(r)' = Payable(r)
    BY <2>1 DEF Payable
  <2>6. /\ op'[r] = "fd_payout"
        /\ \A f \in todo'[r] : fd[f].status # "absent" /\ fd[f].owner = who[r]
    BY <1>0, <2>1
  <2>7. op'[r] \notin DecideOps
    BY <2>6 DEF DecideOps
  <2>8. Current(r)'
    BY <1>0, <2>1, <2>4, <2>5, <2>6, <2>7 DEF Current, loansVars
  <2> QED
    BY <1>0, <2>1, <2>2, <2>8, CurrentIfApart DEF FdsKept, loansVars
<1>4. ASSUME NEW r \in Threads, ClaimNext(r)
      PROVE  AllCurrent'
  BY <1>0, <1>4, ClaimKeepsCurrent
<1>5. ASSUME NEW r \in Threads, NEW u \in Users, BeginOpen(r, u) \/ BeginProfile(r, u)
      PROVE  AllCurrent'
  <2>1. PICK o \in {"fd_open", "fd_profile"} : Begin(r, u, o)
    BY <1>5 DEF BeginOpen, BeginProfile
  <2>2. UNCHANGED <<balance, fd, paying, todo, loan, read, file>>
    BY <1>0, <1>5 DEF BeginOpen, BeginProfile, fdVars, loansVars
  <2>3. /\ op[r] = "idle" /\ op' = [op EXCEPT ![r] = o] /\ who' = [who EXCEPT ![r] = u]
        /\ view' = [view EXCEPT ![r] = [EmptyView EXCEPT ![u] = balance[u]]]
    BY <2>1 DEF Begin
  <2>4. \A s \in Threads \ {r} : Stays(s)
    BY <1>0, <2>2, <2>3 DEF Stays
  <2>5. paying[r] = {} /\ todo[r] = {} /\ read[r] = NoLoan
    BY <2>3, NothingRead, ProductOpsAre DEF AllCurrent
  <2>6. op'[r] = o /\ who'[r] = u /\ view'[r][u] = balance[u]
    BY <1>0, <2>3, EmptyViewKnown
  <2>7. Payable(r)' = 0
    BY <2>2, <2>5, SumOfNone DEF Payable
  <2>8. balance[u] = balance[u] + 0
    BY DEF LocksInv, BankInv, Solvent
  <2>9. o \notin DecideOps
    BY DEF DecideOps
  <2>10. Current(r)'
    BY <2>2, <2>5, <2>6, <2>7, <2>8, <2>9 DEF Current
  <2> QED
    BY <2>2, <2>4, <2>10, CurrentIfApart DEF FdsKept
<1>6. ASSUME NEW f \in FdIds, Mature(f)
      PROVE  AllCurrent'
  <2>1. UNCHANGED <<balance, op, who, view, loan, read, file, fd, todo, paying>>
    BY <1>0, <1>6 DEF Mature, accountsVars, loansVars
  <2>2. \A s \in Threads : Stays(s)
    BY <2>1 DEF Stays
  <2> QED
    BY <2>1, <2>2, CurrentKept DEF AllCurrent, FdsKept
<1> QED
  BY <1>2, <1>3, <1>4, <1>5, <1>6 DEF BankFixedDeposits, FixedDepositsActivity, FdStep

LEMMA CurrentStep ==
    ASSUME LocksInv, AllCurrent, UnlockedApart, [BankNext]_bankVars
    PROVE  AllCurrent'
<1>1. CASE UNCHANGED bankVars
  <2>1. UNCHANGED <<balance, op, who, view, loan, read, file, fd, todo, paying>>
    BY <1>1 DEF bankVars, accountsVars, loansVars, fdVars
  <2>2. \A s \in Threads : Stays(s)
    BY <2>1 DEF Stays
  <2> QED
    BY <2>1, <2>2, CurrentKept DEF AllCurrent, FdsKept
<1> QED
  BY <1>1, ApprovalsKeepCurrent, SavingsKeepCurrent, LoansKeepCurrent, FixedDepositsKeepCurrent
     DEF BankNext

-----------------------------------------------------------------------------
(* What the tables say of a balance, as one sum over each of them.           *)

Done(u) == [t \in Txs |-> IF t \in Approved THEN Effect(tx[t], u) ELSE 0]
Saved(u) == [p \in Pots |-> IF pot[p].owner = u THEN pot[p].saved ELSE 0]
Borrowed(u) == [l \in LoanIds |-> IF l \in LentTo(u) THEN Lent[l] ELSE 0]
Deposited(u) == [f \in FdIds |-> IF f \in FdsOf(u) THEN Locked[f] ELSE 0]

Products(u) ==
    SumFunctionOnSet(Borrowed(u), LoanIds) + SumFunctionOnSet(Deposited(u), FdIds)

Account(u) ==
    Opening[u] + SumFunctionOnSet(Done(u), Txs) - SumFunctionOnSet(Saved(u), Pots)
               + Products(u)

\* A balance is what the tables say, and at most one kobo more for each of the
\* fixed deposits.
Accounted(u) == balance[u] - Account(u) \in 0..Cardinality(FdsOf(u))

Explained == \A u \in Customers : Accounted(u)

\* A row of the fixed deposits that is not in use is blank.
Blank == \A f \in FdIds : fd[f].status = "absent" => fd[f] = NoFd

LEMMA SumsTyped ==
    ASSUME LocksInv, NEW u \in Customers
    PROVE  /\ u \in Users /\ balance[u] \in Int /\ Opening[u] \in Int
           /\ \A t \in Txs : Done(u)[t] \in Int
           /\ \A p \in Pots : Saved(u)[p] \in Int
           /\ \A l \in LoanIds : Borrowed(u)[l] \in Int
           /\ \A f \in FdIds : Deposited(u)[f] \in Int
           /\ SumFunctionOnSet(Done(u), Txs) \in Int
           /\ SumFunctionOnSet(Saved(u), Pots) \in Int
           /\ SumFunctionOnSet(Borrowed(u), LoanIds) \in Int
           /\ SumFunctionOnSet(Deposited(u), FdIds) \in Int
           /\ Products(u) \in Int
           /\ Account(u) \in Int
           /\ Cardinality(FdsOf(u)) \in Nat
<1>1. u \in Users /\ balance[u] \in Int /\ Opening[u] \in Int
  <2>1. u \in Users /\ Opening \in [Users -> Nat]
    BY AccountsAssumption DEF Customers
  <2>2. balance \in [Users -> Nat]
    BY DEF LocksInv, BankInv, Solvent
  <2> QED
    BY <2>1, <2>2
<1>2. \A t \in Txs : Done(u)[t] \in Int
  BY DEF LocksInv, BankInv, Papers, TxRow, Done, Effect
<1>3. \A p \in Pots : Saved(u)[p] \in Int
  BY DEF LocksInv, BankInv, PotsInv, PotRow, Saved
<1>4. \A l \in LoanIds : Borrowed(u)[l] \in Int
  BY RepayableNat DEF LocksInv, BankInv, LoansInv, LoanTablesTypeOK, LoanRow, Borrowed, Lent
<1>5. \A f \in FdIds : Deposited(u)[f] \in Int
  BY DEF LocksInv, BankInv, FdInv, FdTypeOK, FdRow, Deposited, Locked
<1>6. /\ SumFunctionOnSet(Done(u), Txs) \in Int
      /\ SumFunctionOnSet(Saved(u), Pots) \in Int
      /\ SumFunctionOnSet(Borrowed(u), LoanIds) \in Int
      /\ SumFunctionOnSet(Deposited(u), FdIds) \in Int
  BY <1>2, <1>3, <1>4, <1>5, TablesFinite, SumTakeOut
<1>7. Products(u) \in Int
  BY <1>6 DEF Products
<1>8. Account(u) \in Int
  BY <1>1, <1>6, <1>7 DEF Account
<1>9. Cardinality(FdsOf(u)) \in Nat
  BY TablesFinite, FS_Subset, FS_CardinalityType DEF FdsOf
<1> QED
  BY <1>1, <1>2, <1>3, <1>4, <1>5, <1>6, <1>7, <1>8, <1>9

\* A balance and its account that change alike stay explained.
LEMMA AccountedStays ==
    ASSUME Explained, LocksInv, NEW u \in Customers, NEW gain \in Int,
           balance'[u] = balance[u] + gain, Account(u)' = Account(u) + gain,
           FdsOf(u)' = FdsOf(u)
    PROVE  Accounted(u)'
<1> DEFINE opened == Cardinality(FdsOf(u))
           account == Account(u)
<1>1. balance[u] \in Int /\ account \in Int /\ opened \in Nat
  BY SumsTyped
<1>2. balance[u] - account \in 0..opened
  BY DEF Explained, Accounted
<1>3. Account(u)' = account + gain /\ Cardinality(FdsOf(u))' = opened
  OBVIOUS
<1> HIDE DEF opened, account
<1>4. (balance[u] + gain) - (account + gain) \in 0..opened
  BY <1>1, <1>2
<1> QED
  BY <1>3, <1>4 DEF Accounted

LEMMA ExplainedKept ==
    ASSUME Explained, UNCHANGED balance,
           \A t \in Txs : tx'[t] = tx[t] \/ (tx[t].status # "approved" /\ tx'[t].status # "approved"),
           \A p \in Pots : pot'[p] = pot[p] \/ (pot[p].saved = 0 /\ pot'[p].saved = 0),
           \A l \in LoanIds : \/ loan'[l] = loan[l]
                              \/ /\ loan[l].status \notin {"approved", "repaid"}
                                 /\ loan'[l].status \notin {"approved", "repaid"},
           UNCHANGED fd
    PROVE  Explained'
<1>1. ASSUME NEW u \in Customers
      PROVE  Account(u)' = Account(u) /\ FdsOf(u)' = FdsOf(u)
  <2>1. Done(u)' = Done(u)
    BY DEF Done, Approved
  <2>2. Saved(u)' = Saved(u)
    BY DEF Saved
  <2>3. Borrowed(u)' = Borrowed(u)
    BY DEF Borrowed, LentTo, Lent
  <2>4. Deposited(u)' = Deposited(u)
    BY DEF Deposited, FdsOf, Locked
  <2> QED
    BY <2>1, <2>2, <2>3, <2>4 DEF Products, Account, FdsOf
<1> QED
  BY <1>1 DEF Explained, Accounted

\* The commit of an approval: the parties' rows are held, and the admin who
\* decides is none of the customers, so what is written is computed from the
\* committed balances.
LEMMA ApprovalExplained ==
    ASSUME Explained, Deciding, LocksInv, NEW r \in Threads, CommitApproval(r),
           UNCHANGED <<pot, loan, fd>>
    PROVE  Explained'
<1>1. PICK t \in Txs, x \in TxRow :
         /\ work[r] = t /\ tx[t] = x /\ x.status = "pending"
         /\ op[r] = "settle" /\ want[r] = None
         /\ balance' = [u \in Users |->
               IF u \in Parties(x) THEN view[r][u] + Effect(x, u) ELSE balance[u]]
         /\ tx' = [tx EXCEPT ![t].status = "approved"]
  <2>1. op[r] = "settle" /\ want[r] = None
    BY DEF CommitApproval
  <2>2. work[r] \in Txs /\ tx[work[r]].status = "pending"
    BY <2>1 DEF Deciding, LocksInv, BankInv, Sessions, Session
  <2>3. tx[work[r]] \in TxRow
    BY <2>2 DEF LocksInv, BankInv, Papers
  <2> QED
    BY <2>1, <2>2, <2>3 DEF CommitApproval
<1>2. tx'[t].status = "approved" /\ \A u \in Users : Effect(tx'[t], u) = Effect(x, u)
  BY <1>1 DEF LocksInv, BankInv, Papers, TxRow, Effect
<1>3. \A q \in Txs : q # t => tx'[q] = tx[q]
  BY <1>1 DEF LocksInv, BankInv, Papers
<1>4. t \notin Legacy
  BY <1>1 DEF Deciding
<1> SUFFICES ASSUME NEW u \in Customers
             PROVE  Accounted(u)'
  BY DEF Explained
<1> DEFINE before == Done(u)
           after == Done(u)'
<1>5. /\ u \in Users /\ balance[u] \in Int /\ Opening[u] \in Int
      /\ \A q \in Txs : before[q] \in Int
      /\ SumFunctionOnSet(before, Txs) \in Int
      /\ SumFunctionOnSet(Saved(u), Pots) \in Int /\ Products(u) \in Int
  BY SumsTyped
<1>6. Effect(x, u) \in Int
  BY <1>1 DEF TxRow, Effect
<1>7. balance'[u] = balance[u] + Effect(x, u)
  <2>1. CASE u \in Parties(x)
    <3>1. lock[u] = r
      BY <1>1, <1>5, <2>1 DEF LocksInv, Holds
    <3>2. who[r] # u
      BY <1>1 DEF Deciding, Customers
    <3>3. view[r][u] = balance[u]
      BY <1>5, <3>1, <3>2 DEF LocksInv, Holds, Reloads
    <3> QED
      BY <1>1, <1>5, <2>1, <3>3
  <2>2. CASE u \notin Parties(x)
    <3>1. Effect(x, u) = 0
      BY <1>5, <2>2, NobodyIsNone DEF Parties, Effect
    <3> QED
      BY <1>1, <1>5, <2>2, <3>1
  <2> QED
    BY <2>1, <2>2
<1>8. before[t] = 0 /\ after[t] = Effect(x, u)
  BY <1>1, <1>2, <1>4, <1>5 DEF Done, Approved
<1>9. \A q \in Txs \ {t} : after[q] = before[q]
  BY <1>3 DEF Done, Approved
<1>10. Saved(u)' = Saved(u) /\ Products(u)' = Products(u)
  BY DEF Saved, Products, Borrowed, LentTo, Lent, Deposited, FdsOf, Locked
<1> HIDE DEF before, after
<1>11. \A q \in Txs : before[q] \in Int /\ after[q] \in Int
  BY <1>5, <1>6, <1>8, <1>9
<1>12. IsFiniteSet(Txs)
  BY TablesFinite
<1>13. SumFunctionOnSet(after, Txs) = SumFunctionOnSet(before, Txs) + (after[t] - before[t])
  BY <1>9, <1>11, <1>12, SumChange
<1>14. SumFunctionOnSet(after, Txs) = SumFunctionOnSet(before, Txs) + Effect(x, u)
  BY <1>6, <1>8, <1>13
<1>15. Account(u) = Opening[u] + SumFunctionOnSet(before, Txs) - SumFunctionOnSet(Saved(u), Pots)
                       + Products(u)
  BY DEF Account, before
<1>16. Account(u)' = Opening[u] + SumFunctionOnSet(after, Txs) - SumFunctionOnSet(Saved(u), Pots)
                       + Products(u)
  BY <1>10 DEF Account, after
<1>17. Account(u)' = Account(u) + Effect(x, u)
  BY <1>5, <1>6, <1>14, <1>15, <1>16
<1>18. FdsOf(u)' = FdsOf(u)
  BY DEF FdsOf
<1> QED
  BY <1>6, <1>7, <1>17, <1>18, AccountedStays

\* The commit of a savings move: the saver's row is held and was reloaded, and
\* the pot is the saver's.
LEMMA MoveExplained ==
    ASSUME Explained, Aimed, LocksInv, BooksTyped, UNCHANGED <<tx, loan, fd>>,
           NEW r \in Threads, NEW amount \in Int, NEW status, op[r] \in MoveOps, aim[r] # None,
           Move(r, amount, status)
    PROVE  Explained'
<1>1. PICK p \in Pots, w \in Users :
         /\ aim[r] = p /\ who[r] = w /\ pot[p].owner = w
         /\ lock[w] = r /\ view[r][w] = balance[w]
  <2>1. aim[r] \in Pots /\ potLock[aim[r]] = r /\ want[r] = None
    BY DEF Move, LocksInv, BankInv, PotsInv
  <2>2. pot[aim[r]].owner = who[r]
    BY <2>1 DEF Aimed
  <2>3. op[r] \notin {"idle", "bonus"}
    BY DEF MoveOps
  <2>4. who[r] \in Users
    BY <2>3 DEF LocksInv, BankInv, Sessions, Session
  <2>5. lock[who[r]] = r
    BY <2>1 DEF LocksInv, Holds
  <2>6. view[r][who[r]] = balance[who[r]]
    BY <2>4, <2>5 DEF LocksInv, Holds, Reloads
  <2> QED
    BY <2>1, <2>2, <2>4, <2>5, <2>6
<1>2. /\ balance' = [balance EXCEPT ![w] = balance[w] - amount]
      /\ pot' = [pot EXCEPT ![p] = Changed(pot[p], amount, status)]
  BY <1>1 DEF Move, Changed
<1>3. pot'[p].owner = w /\ pot'[p].saved = pot[p].saved + amount
  BY <1>1, <1>2 DEF LocksInv, BankInv, PotsInv, PotRow, Changed
<1>4. \A q \in Pots : q # p => pot'[q] = pot[q]
  BY <1>2 DEF LocksInv, BankInv, PotsInv
<1> SUFFICES ASSUME NEW u \in Customers
             PROVE  Accounted(u)'
  BY DEF Explained
<1> DEFINE before == Saved(u)
           after == Saved(u)'
           gain == IF u = w THEN amount ELSE 0
<1>5. /\ u \in Users /\ balance[u] \in Int /\ Opening[u] \in Int
      /\ \A q \in Pots : before[q] \in Int
      /\ SumFunctionOnSet(Done(u), Txs) \in Int
      /\ SumFunctionOnSet(before, Pots) \in Int /\ Products(u) \in Int
  BY SumsTyped
<1>6. gain \in Int
  OBVIOUS
<1>7. balance'[u] = balance[u] - gain
  BY <1>2, <1>5 DEF LocksInv, BankInv, Solvent
<1>8. after[p] = before[p] + gain
  BY <1>1, <1>3 DEF Saved, LocksInv, BankInv, PotsInv, PotRow
<1>9. \A q \in Pots \ {p} : after[q] = before[q]
  BY <1>4 DEF Saved
<1>10. Done(u)' = Done(u) /\ Products(u)' = Products(u)
  BY DEF Done, Approved, Products, Borrowed, LentTo, Lent, Deposited, FdsOf, Locked
<1> HIDE DEF before, after, gain
<1>11. \A q \in Pots : before[q] \in Int /\ after[q] \in Int
  <2>1. before[p] \in Int
    BY <1>5
  <2>2. after[p] \in Int
    BY <1>6, <1>8, <2>1
  <2> QED
    BY <1>5, <1>9, <2>2
<1>12. IsFiniteSet(Pots)
  BY TablesFinite
<1>13. SumFunctionOnSet(after, Pots) = SumFunctionOnSet(before, Pots) + (after[p] - before[p])
  BY <1>9, <1>11, <1>12, SumChange
<1>14. SumFunctionOnSet(after, Pots) = SumFunctionOnSet(before, Pots) + gain
  BY <1>5, <1>6, <1>8, <1>11, <1>13
<1>15. Account(u) = Opening[u] + SumFunctionOnSet(Done(u), Txs) - SumFunctionOnSet(before, Pots)
                       + Products(u)
  BY DEF Account, before
<1>16. Account(u)' = Opening[u] + SumFunctionOnSet(Done(u), Txs) - SumFunctionOnSet(after, Pots)
                       + Products(u)
  BY <1>10 DEF Account, after
<1>17. Account(u)' = Account(u) + (0 - gain)
  BY <1>5, <1>6, <1>14, <1>15, <1>16
<1>18. FdsOf(u)' = FdsOf(u)
  BY DEF FdsOf
<1>19. 0 - gain \in Int /\ balance'[u] = balance[u] + (0 - gain)
  BY <1>5, <1>6, <1>7
<1> QED
  BY <1>17, <1>18, <1>19, AccountedStays

LEMMA ApprovalsKeepExplained ==
    ASSUME Explained, Deciding, LocksInv, BankApprovals
    PROVE  Explained'
<1>0. tx \in [Txs -> TxRow] /\ UNCHANGED <<pot, loan, fd>>
  BY DEF LocksInv, BankInv, Papers, BankApprovals, savingsVars, loansVars, fdVars
<1>1. ASSUME NEW r \in Threads, CommitApproval(r)
      PROVE  Explained'
  BY <1>0, <1>1, ApprovalExplained
<1>2. ASSUME NEW r \in Threads, SubmitDeposit(r) \/ SubmitWithdrawal(r) \/ SubmitTransfer(r)
      PROVE  Explained'
  <2>1. PICK x : Insert(r, x) /\ x.status = "pending"
    <3>1. \A kind, amount, sender, receiver :
             NewTx(kind, amount, sender, receiver).status = "pending"
      BY DEF NewTx
    <3>2. \E kind, amount, sender, receiver : Insert(r, NewTx(kind, amount, sender, receiver))
      BY <1>2 DEF SubmitDeposit, SubmitWithdrawal, SubmitTransfer
    <3> QED
      BY <3>1, <3>2
  <2>2. PICK t \in Txs : tx[t].status = "absent" /\ tx' = [tx EXCEPT ![t] = x]
    BY <2>1 DEF Insert, Fresh
  <2>3. UNCHANGED balance
    BY <2>1 DEF Insert
  <2>4. \A q \in Txs : tx'[q] = tx[q] \/ (tx[q].status # "approved" /\ tx'[q].status # "approved")
    BY <1>0, <2>1, <2>2
  <2> QED
    BY <1>0, <2>3, <2>4, ExplainedKept
<1>3. ASSUME NEW t \in Txs, Reject(t)
      PROVE  Explained'
  <2>1. /\ UNCHANGED balance /\ tx[t].status = "pending"
        /\ tx' = [tx EXCEPT ![t].status = "rejected"]
    BY <1>3 DEF Reject, Pending, accountsVars
  <2>2. \A q \in Txs : tx'[q] = tx[q] \/ (tx[q].status # "approved" /\ tx'[q].status # "approved")
    BY <1>0, <2>1 DEF TxRow
  <2> QED
    BY <1>0, <2>1, <2>2, ExplainedKept
<1>4. ASSUME NEW r \in Threads,
             \/ RefuseSubmit(r) \/ LockPending(r) \/ RefuseDecided(r) \/ RefuseUncovered(r)
             \/ CheckRecorded(r) \/ CommitBackfill(r) \/ LockParty(r)
             \/ Abort(r) \/ AbortVictim(r) \/ SkipBonus(r)
             \/ \E u \in Users : \/ BeginSubmit(r, u) \/ BeginBackfill(r, u)
                                 \/ \E t \in Txs : BeginApprove(r, u, t)
      PROVE  Explained'
  <2>1. UNCHANGED <<balance, tx>>
    BY <1>4 DEF RefuseSubmit, LockPending, RefuseDecided, RefuseUncovered, CheckRecorded,
       CommitBackfill, LockParty, LockRow, Abort, AbortVictim, DeadlockVictim, RollBack, Forget,
       SkipBonus, BeginSubmit, BeginBackfill, BeginApprove, accountsVars, approvalsVars
  <2> QED
    BY <1>0, <2>1, ExplainedKept
<1> QED
  BY <1>1, <1>2, <1>3, <1>4 DEF BankApprovals, ApprovalActivity, ApprovalStep

LEMMA SavingsKeepExplained ==
    ASSUME Explained, Aimed, LocksInv, BooksTyped, BankSavings
    PROVE  Explained'
<1>0. /\ pot \in [Pots -> PotRow] /\ UNCHANGED <<tx, loan, fd>>
      /\ PotsSound
  BY DEF LocksInv, BankInv, PotsInv, BankSavings, approvalsVars, loansVars, fdVars
<1>1. ASSUME NEW r \in Threads, PutIn(r) \/ TakeOut(r) \/ ClosePot(r)
      PROVE  Explained'
  <2>1. op[r] \in MoveOps /\ aim[r] # None
    BY <1>1 DEF PutIn, TakeOut, ClosePot, MoveOps
  <2>2. aim[r] \in Pots
    BY <2>1 DEF LocksInv, BankInv, PotsInv
  <2>3. pot[aim[r]].saved \in Int
    BY <1>0, <2>2 DEF PotRow
  <2>4. PICK amount \in Int : \E status : Move(r, amount, status)
    <3>1. CASE PutIn(r)
      BY <3>1, SavingsAssumption DEF PutIn
    <3>2. CASE TakeOut(r)
      <4>1. PICK a \in PotAmounts : Move(r, 0 - a, "active")
        BY <3>2 DEF TakeOut
      <4>2. 0 - a \in Int
        BY SavingsAssumption
      <4> QED
        BY <4>1, <4>2
    <3>3. CASE ClosePot(r)
      <4>1. 0 - pot[aim[r]].saved \in Int
        BY <2>3
      <4> QED
        BY <3>3, <4>1 DEF ClosePot
    <3> QED
      BY <1>1, <3>1, <3>2, <3>3
  <2> QED
    BY <1>0, <2>1, <2>4, MoveExplained
<1>2. ASSUME NEW r \in Threads, InsertPot(r)
      PROVE  Explained'
  <2>1. PICK p \in Pots : FreshPot(p) /\ pot' = [pot EXCEPT ![p] = NewPot(who[r])]
    BY <1>2 DEF InsertPot
  <2>2. pot[p].saved = 0
    BY <1>0, <2>1 DEF FreshPot, PotsSound
  <2>3. \A q \in Pots : pot'[q] = pot[q] \/ (pot[q].saved = 0 /\ pot'[q].saved = 0)
    BY <1>0, <2>1, <2>2 DEF NewPot
  <2>4. UNCHANGED balance
    BY <1>2 DEF InsertPot
  <2> QED
    BY <1>0, <2>3, <2>4, ExplainedKept
<1>3. ASSUME NEW r \in Threads,
             \/ CountPots(r) \/ LockPot(r) \/ LockSaver(r) \/ AbortSaving(r)
             \/ \E u \in Users : \/ BeginCreatePot(r, u)
                                 \/ \E p \in Pots, o \in MoveOps : BeginMove(r, u, p, o)
      PROVE  Explained'
  <2>1. UNCHANGED <<balance, pot>>
    BY <1>3 DEF CountPots, LockPot, LockSaver, LockRow, AbortSaving, RollBack, BeginCreatePot,
       BeginMove, accountsVars, savingsVars
  <2> QED
    BY <1>0, <2>1, ExplainedKept
<1> QED
  BY <1>1, <1>2, <1>3 DEF BankSavings, SavingsActivity, SavingStep

-----------------------------------------------------------------------------
(* Loans and fixed deposits.                                                 *)

LEMMA LoanMoves ==
    ASSUME LocksInv, NEW u \in Customers, NEW l \in LoanIds, NEW row \in LoanRow, NEW gain \in Int,
           loan' = [loan EXCEPT ![l] = row], UNCHANGED fd,
           Borrowed(u)'[l] = Borrowed(u)[l] + gain
    PROVE  Products(u)' = Products(u) + gain
<1> DEFINE before == Borrowed(u)
           after == Borrowed(u)'
<1>1. /\ \A k \in LoanIds : before[k] \in Int
      /\ SumFunctionOnSet(before, LoanIds) \in Int
      /\ SumFunctionOnSet(Deposited(u), FdIds) \in Int
  BY SumsTyped
<1>2. \A k \in LoanIds \ {l} : loan'[k] = loan[k]
  BY DEF LocksInv, BankInv, LoansInv, LoanTablesTypeOK
<1>3. \A k \in LoanIds \ {l} : after[k] = before[k]
  BY <1>2 DEF Borrowed, LentTo, Lent
<1>4. Deposited(u)' = Deposited(u)
  BY DEF Deposited, FdsOf, Locked
<1>5. Products(u) = SumFunctionOnSet(before, LoanIds) + SumFunctionOnSet(Deposited(u), FdIds)
      /\ Products(u)' = SumFunctionOnSet(after, LoanIds) + SumFunctionOnSet(Deposited(u)', FdIds)
  BY DEF Products
<1>6. after[l] = before[l] + gain
  OBVIOUS
<1> HIDE DEF before, after
<1>7. \A k \in LoanIds : before[k] \in Int /\ after[k] \in Int
  <2>1. before[l] \in Int /\ after[l] \in Int
    BY <1>1, <1>6
  <2> QED
    BY <1>1, <1>3, <2>1
<1>8. SumFunctionOnSet(after, LoanIds)
         = SumFunctionOnSet(before, LoanIds) + (after[l] - before[l])
  BY <1>3, <1>7, TablesFinite, SumChange
<1> QED
  BY <1>1, <1>4, <1>5, <1>6, <1>7, <1>8

LEMMA AccountMoves ==
    ASSUME LocksInv, UNCHANGED <<tx, pot>>, NEW u \in Customers, NEW gain \in Int,
           Products(u)' = Products(u) + gain
    PROVE  Account(u)' = Account(u) + gain
<1>1. Done(u)' = Done(u) /\ Saved(u)' = Saved(u)
  BY DEF Done, Approved, Saved
<1>2. /\ Opening[u] \in Int /\ Products(u) \in Int
      /\ SumFunctionOnSet(Done(u), Txs) \in Int
      /\ SumFunctionOnSet(Saved(u), Pots) \in Int
  BY SumsTyped
<1>3. Account(u)' = Opening[u] + SumFunctionOnSet(Done(u), Txs)
                               - SumFunctionOnSet(Saved(u), Pots) + (Products(u) + gain)
  BY <1>1 DEF Account
<1> QED
  BY <1>2, <1>3 DEF Account

LEMMA ProductExplained ==
    ASSUME Explained, LocksInv, UNCHANGED <<tx, pot>>,
           \A u \in Customers : FdsOf(u)' = FdsOf(u),
           \A u \in Customers : \E gain \in Int : /\ balance'[u] = balance[u] + gain
                                                  /\ Products(u)' = Products(u) + gain
    PROVE  Explained'
<1> SUFFICES ASSUME NEW u \in Customers
             PROVE  Accounted(u)'
  BY DEF Explained
<1>1. PICK gain \in Int : balance'[u] = balance[u] + gain /\ Products(u)' = Products(u) + gain
  OBVIOUS
<1> QED
  BY <1>1, AccountMoves, AccountedStays

\* The commit of a repayment: of the requester's loan as it was read, from the
\* balance it was loaded with.
LEMMA RepaymentExplained ==
    ASSUME Explained, LocksInv, AllCurrent, UNCHANGED <<tx, pot, fd>>,
           NEW r \in Threads, CommitRepay(r)
    PROVE  Explained'
<1> DEFINE w == who[r]
           l == file[r]
<1>1. op[r] = "loan_repay" /\ read[r] # NoLoan
  BY DEF CommitRepay
<1>2. PICK a \in Repayments :
         /\ Within(a, view[r][w]) /\ Within(a, read[r].outstanding)
         /\ balance' = [balance EXCEPT ![w] = Less(view[r][w], a)]
         /\ loan' = [loan EXCEPT ![l].outstanding = Less(read[r].outstanding, a),
               ![l].status = IF read[r].outstanding * Parts <= a THEN "repaid" ELSE @]
  BY DEF CommitRepay, WithinDebt
<1>3. /\ l \in LoanIds /\ loan[l] \in LoanRow /\ loan[l] = read[r]
      /\ loan[l].status = "approved" /\ loan[l].owner = w
  <2>1. l \in LoanIds /\ loan[l] \in LoanRow
    BY <1>1 DEF LocksInv, BankInv, LoansInv, LoanTablesTypeOK, Reading
  <2>2. loan[l] = read[r] /\ Readable(op[r], read[r], w)
    BY <1>1 DEF AllCurrent, Current
  <2> QED
    BY <1>1, <2>1, <2>2 DEF Readable
<1>4. view[r][w] = balance[w]
  <2>1. view[r][w] = balance[w] + Payable(r)
    BY <1>1 DEF AllCurrent, Current, Unlocking
  <2>2. Payable(r) = 0
    BY <1>1, SumOfNone DEF AllCurrent, Current, Payable
  <2>3. balance[w] \in Int
    BY <1>1 DEF LocksInv, BankInv, Sessions, Session, Solvent
  <2> QED
    BY <2>1, <2>2, <2>3
<1> DEFINE c == Charge(a)
           rest == Less(loan[l].outstanding, a)
           status == IF loan[l].outstanding * Parts <= a THEN "repaid" ELSE loan[l].status
           row == Settled(loan[l], rest, status)
<1>6. loan' = [loan EXCEPT ![l] = row]
  BY <1>2, <1>3 DEF Settled
<1>5. a \in Nat /\ c \in Int
  BY LoansAssumption, StoredAmount
<1>8. rest = loan[l].outstanding - c
  <2>1. read[r].outstanding \in Nat
    BY <1>1 DEF Reading, LocksInv, BankInv, LoansInv
  <2> QED
    BY <1>2, <1>3, <1>5, <2>1, LessAmount
<1>12. Less(view[r][w], a) = balance[w] - c
  <2>1. balance[w] \in Nat
    BY <1>1 DEF LocksInv, BankInv, Sessions, Session, Solvent
  <2> QED
    BY <1>2, <1>4, <1>5, <2>1, LessAmount
<1> HIDE DEF c
<1>7. rest \in Int /\ status \in {"approved", "repaid"} /\ status \in LoanStatuses
  <2>1. loan[l].outstanding \in Int
    BY <1>3 DEF LoanRow
  <2>2. rest \in Int
    BY <1>5, <1>8, <2>1
  <2> QED
    BY <1>3, <2>2 DEF LoanStatuses
<1> HIDE DEF rest, status
<1>9. /\ row \in LoanRow /\ row.principal = loan[l].principal
      /\ row.outstanding = rest /\ row.status = status /\ row.owner = w
  <2>1. row.owner = loan[l].owner
    BY <1>3 DEF Settled, LoanRow
  <2> QED
    BY <1>3, <1>7, <2>1, SettledLoan
<1> HIDE DEF row
<1>10. loan'[l] = row
  BY <1>3, <1>6 DEF LocksInv, BankInv, LoansInv, LoanTablesTypeOK
<1>11. ASSUME NEW u \in Customers
       PROVE  \E gain \in Int : balance'[u] = balance[u] + gain
                                /\ Products(u)' = Products(u) + gain
  <2> DEFINE gain == IF u = w THEN 0 - c ELSE 0
  <2>1. u \in Users /\ balance[u] \in Int /\ Borrowed(u)[l] \in Int
    BY <1>3, SumsTyped
  <2>2. gain \in Int
    BY <1>5
  <2>3. balance'[u] = balance[u] + gain
    BY <1>2, <1>5, <1>12, <2>1 DEF LocksInv, BankInv, Solvent
  <2>4. Borrowed(u)'[l] = Borrowed(u)[l] + gain
    <3>1. CASE u # w
      BY <1>3, <1>9, <1>10, <3>1 DEF Borrowed, LentTo
    <3>2. CASE u = w
      <4>1. Borrowed(u)[l] = loan[l].principal - Repayable(loan[l].principal) + loan[l].outstanding
        BY <1>3, <3>2 DEF Borrowed, LentTo, Lent
      <4>2. Borrowed(u)'[l] = row.principal - Repayable(row.principal) + row.outstanding
        BY <1>3, <1>7, <1>9, <1>10, <3>2 DEF Borrowed, LentTo, Lent
      <4>3. /\ loan[l].principal \in Int /\ loan[l].outstanding \in Int
            /\ Repayable(loan[l].principal) \in Int
        BY <1>3, RepayableNat DEF LoanRow
      <4> QED
        BY <1>5, <1>8, <1>9, <3>2, <4>1, <4>2, <4>3
    <3> QED
      BY <3>1, <3>2
  <2> HIDE DEF gain
  <2>5. Products(u)' = Products(u) + gain
    BY <1>3, <1>6, <1>9, <2>2, <2>4, LoanMoves
  <2> QED
    BY <2>2, <2>3, <2>5
<1>13. \A u \in Customers : FdsOf(u)' = FdsOf(u)
  BY DEF FdsOf
<1> QED
  BY <1>11, <1>13, ProductExplained

\* The commit of a loan: the borrower's row is held, and the admin who decides
\* is none of the customers.
LEMMA LoanExplained ==
    ASSUME Explained, LocksInv, AllCurrent, UNCHANGED <<tx, pot, fd>>,
           NEW r \in Threads, CommitLoan(r)
    PROVE  Explained'
<1> DEFINE w == read[r].owner
           l == file[r]
           p == read[r].principal
<1>1. /\ op[r] = "loan_approve" /\ read[r] # NoLoan /\ want[r] = None
      /\ balance' = [balance EXCEPT ![w] = view[r][w] + p]
      /\ loan' = [loan EXCEPT ![l].outstanding = Repayable(p), ![l].status = "approved"]
  BY DEF CommitLoan
<1>2. l \in LoanIds /\ loan[l] \in LoanRow /\ loan[l] = read[r] /\ loan[l].status = "pending"
  <2>1. l \in LoanIds /\ loan[l] \in LoanRow
    BY <1>1 DEF LocksInv, BankInv, LoansInv, LoanTablesTypeOK, Reading
  <2>2. loan[l] = read[r] /\ Readable(op[r], read[r], who[r])
    BY <1>1 DEF AllCurrent, Current
  <2> QED
    BY <1>1, <2>1, <2>2 DEF Readable
<1>3. w \in Users /\ lock[w] = r /\ who[r] \in Admins
  BY <1>1 DEF LocksInv, BankInv, Papers, Holds, AllCurrent, Current, DecideOps
<1>4. w \in Customers => view[r][w] = balance[w]
  BY <1>3 DEF LocksInv, Holds, Reloads, Customers
<1>5. p \in Int /\ Repayable(p) \in Int
  BY <1>2, RepayableNat DEF LoanRow
<1> DEFINE row == Settled(loan[l], Repayable(p), "approved")
<1>6. loan' = [loan EXCEPT ![l] = row]
  BY <1>1, <1>2 DEF Settled
<1>7. /\ row \in LoanRow /\ row.principal = p /\ row.outstanding = Repayable(p)
      /\ row.status = "approved" /\ row.owner = w
  <2>1. row.owner = loan[l].owner
    BY <1>2 DEF Settled, LoanRow
  <2>2. "approved" \in LoanStatuses
    BY DEF LoanStatuses
  <2> QED
    BY <1>2, <1>5, <2>1, <2>2, SettledLoan
<1> HIDE DEF row
<1>8. loan'[l] = row
  BY <1>2, <1>6 DEF LocksInv, BankInv, LoansInv, LoanTablesTypeOK
<1>9. ASSUME NEW u \in Customers
      PROVE  \E gain \in Int : balance'[u] = balance[u] + gain
                               /\ Products(u)' = Products(u) + gain
  <2> DEFINE gain == IF u = w THEN p ELSE 0
  <2>1. u \in Users /\ balance[u] \in Int
    BY SumsTyped
  <2>2. gain \in Int
    BY <1>5
  <2>3. balance'[u] = balance[u] + gain
    BY <1>1, <1>4, <1>5, <2>1 DEF LocksInv, BankInv, Solvent
  <2>4. Borrowed(u)[l] = 0
    BY <1>2 DEF Borrowed, LentTo
  <2>5. Borrowed(u)'[l] = gain
    <3>1. CASE u # w
      BY <1>2, <1>7, <1>8, <3>1 DEF Borrowed, LentTo
    <3>2. CASE u = w
      <4>1. Borrowed(u)'[l] = row.principal - Repayable(row.principal) + row.outstanding
        BY <1>2, <1>7, <1>8, <3>2 DEF Borrowed, LentTo, Lent
      <4> QED
        BY <1>5, <1>7, <3>2, <4>1
    <3> QED
      BY <3>1, <3>2
  <2> HIDE DEF gain
  <2>6. Borrowed(u)'[l] = Borrowed(u)[l] + gain
    BY <2>2, <2>4, <2>5
  <2>7. Products(u)' = Products(u) + gain
    BY <1>2, <1>6, <1>7, <2>2, <2>6, LoanMoves
  <2> QED
    BY <2>2, <2>3, <2>7
<1>10. \A u \in Customers : FdsOf(u)' = FdsOf(u)
  BY DEF FdsOf
<1> QED
  BY <1>9, <1>10, ProductExplained

LEMMA LoansKeepExplained ==
    ASSUME Explained, LocksInv, AllCurrent, BankLoans
    PROVE  Explained'
<1>0. UNCHANGED <<tx, pot, fd>> /\ loan \in [LoanIds -> LoanRow]
  BY DEF BankLoans, approvalsVars, savingsVars, fdVars, LocksInv, BankInv, LoansInv,
     LoanTablesTypeOK
<1>1. ASSUME NEW r \in Threads, CommitRepay(r) \/ CommitLoan(r)
      PROVE  Explained'
  BY <1>0, <1>1, RepaymentExplained, LoanExplained
<1>2. ASSUME NEW r \in Threads, CommitRejection(r)
      PROVE  Explained'
  <2>1. /\ op[r] = "loan_reject" /\ read[r] # NoLoan /\ UNCHANGED balance
        /\ loan' = [loan EXCEPT ![file[r]].status = "rejected"]
    BY <1>2 DEF CommitRejection
  <2>2. loan[file[r]].status = "pending"
    BY <2>1 DEF AllCurrent, Current, Readable
  <2>3. \A l \in LoanIds : \/ loan'[l] = loan[l]
                           \/ /\ loan[l].status \notin {"approved", "repaid"}
                              /\ loan'[l].status \notin {"approved", "repaid"}
    BY <1>0, <2>1, <2>2 DEF LoanRow
  <2> QED
    BY <1>0, <2>1, <2>3, ExplainedKept
<1>3. ASSUME NEW u \in Users, ApplyForLoan(u)
      PROVE  Explained'
  <2>1. PICK l \in LoanIds : /\ loan[l].status = "absent"
                             /\ \E row : row.status = "pending" /\ loan' = [loan EXCEPT ![l] = row]
    BY <1>3 DEF ApplyForLoan, FreshLoan, NoLoan
  <2>2. \A k \in LoanIds : \/ loan'[k] = loan[k]
                           \/ /\ loan[k].status \notin {"approved", "repaid"}
                              /\ loan'[k].status \notin {"approved", "repaid"}
    BY <1>0, <2>1
  <2>3. UNCHANGED balance
    BY <1>3 DEF ApplyForLoan, accountsVars
  <2> QED
    BY <1>0, <2>2, <2>3, ExplainedKept
<1>4. ASSUME NEW r \in Threads,
             \/ ReadLoan(r) \/ LockBorrower(r) \/ AbortLoan(r)
             \/ \E u \in Users, l \in LoanIds :
                   BeginRepay(r, u, l) \/ \E o \in DecideOps : BeginDecide(r, u, l, o)
      PROVE  Explained'
  <2>1. UNCHANGED <<balance, loan>>
    BY <1>4 DEF ReadLoan, LockBorrower, LockRow, AbortLoan, RollBack, BeginRepay, BeginDecide,
       loansVars
  <2> QED
    BY <1>0, <2>1, ExplainedKept
<1> QED
  BY <1>1, <1>2, <1>3, <1>4 DEF BankLoans, LoansActivity, LoanStep

LEMMA DepositMoves ==
    ASSUME LocksInv, NEW u \in Customers, NEW gains \in [FdIds -> Int], UNCHANGED loan,
           \A f \in FdIds : Deposited(u)'[f] = Deposited(u)[f] + gains[f]
    PROVE  /\ SumFunctionOnSet(gains, FdIds) \in Int
           /\ Products(u)' = Products(u) + SumFunctionOnSet(gains, FdIds)
<1> DEFINE before == Deposited(u)
           after == Deposited(u)'
           gain == SumFunctionOnSet(gains, FdIds)
<1>1. /\ \A f \in FdIds : before[f] \in Int
      /\ SumFunctionOnSet(before, FdIds) \in Int
      /\ SumFunctionOnSet(Borrowed(u), LoanIds) \in Int
  BY SumsTyped
<1>2. Borrowed(u)' = Borrowed(u)
  BY DEF Borrowed, LentTo, Lent
<1>3. Products(u) = SumFunctionOnSet(Borrowed(u), LoanIds) + SumFunctionOnSet(before, FdIds)
      /\ Products(u)' = SumFunctionOnSet(Borrowed(u)', LoanIds) + SumFunctionOnSet(after, FdIds)
  BY DEF Products
<1>4. \A f \in FdIds : after[f] = before[f] + gains[f] /\ gains[f] \in Int
  OBVIOUS
<1> HIDE DEF before, after
<1>5. SumFunctionOnSet(after, FdIds) = SumFunctionOnSet(before, FdIds) + gain
  BY <1>1, <1>4, TablesFinite, SumPlus
<1>6. gain \in Int
  BY <1>4, TablesFinite, SumTakeOut
<1> HIDE DEF gain
<1>7. Products(u)' = Products(u) + gain
  BY <1>1, <1>2, <1>3, <1>5, <1>6
<1> QED
  BY <1>6, <1>7 DEF gain

\* Opening a deposit takes its principal from the balance the request loaded,
\* or one kobo less than the principal that is written.
LEMMA OpeningExplained ==
    ASSUME Explained, LocksInv, AllCurrent, Blank, UNCHANGED <<tx, pot, loan>>,
           NEW r \in Threads, CommitOpen(r)
    PROVE  Explained' /\ Blank'
<1> DEFINE w == who[r]
<1>1. PICK f \in FdIds, p \in FdPrincipals, rate \in FdRates :
         /\ FreshFd(f)
         /\ Within(p, view[r][w])
         /\ balance' = [balance EXCEPT ![w] = Less(view[r][w], p)]
         /\ fd' = [fd EXCEPT ![f] = [owner |-> w, principal |-> Stored(p),
                         payout |-> Payout(p, rate), status |-> "active"]]
  BY Zenon DEF CommitOpen
<1>2. op[r] = "fd_open"
  BY DEF CommitOpen
<1>3. fd \in [FdIds -> FdRow] /\ w \in Users /\ p \in Nat
  BY <1>2, FixedDepositsAssumption
     DEF LocksInv, BankInv, FdInv, FdTypeOK, Sessions, Session
<1>4. view[r][w] = balance[w]
  <2>1. view[r][w] = balance[w] + Payable(r)
    BY <1>2 DEF AllCurrent, Current, Unlocking, FdOps
  <2>2. Payable(r) = 0
    BY <1>2, SumOfNone DEF AllCurrent, Current, Payable
  <2>3. balance[w] \in Int
    BY <1>3 DEF LocksInv, BankInv, Solvent
  <2> QED
    BY <2>1, <2>2, <2>3
<1>5. fd[f] = NoFd
  BY <1>1 DEF FreshFd, Blank
<1> DEFINE c == Charge(p)
           kept == Stored(p)
<1>9. c \in Nat /\ kept \in Nat /\ kept - c \in 0..1
  BY <1>3, StoredAmount
<1>10. Less(view[r][w], p) = balance[w] - c
  <2>1. balance[w] \in Nat
    BY <1>3 DEF LocksInv, BankInv, Solvent
  <2> QED
    BY <1>1, <1>3, <1>4, <2>1, LessAmount
<1>6. /\ fd'[f].owner = w /\ fd'[f].principal = kept /\ fd'[f].status = "active"
      /\ \A g \in FdIds \ {f} : fd'[g] = fd[g]
  BY <1>1, <1>3
<1>7. Blank'
  BY <1>6 DEF Blank
<1> HIDE DEF c, kept
<1>8. ASSUME NEW u \in Customers
      PROVE  Accounted(u)'
  <2> DEFINE gain == IF u = w THEN 0 - kept ELSE 0
             gains == [g \in FdIds |-> IF g = f THEN gain ELSE 0]
  <2>1. u \in Users /\ balance[u] \in Int /\ u # None /\ \A g \in FdIds : Deposited(u)[g] \in Int
    BY SumsTyped, NobodyIsNone
  <2>2. gain \in Int
    BY <1>9
  <2>3. balance'[u] = IF u = w THEN balance[u] - c ELSE balance[u]
    BY <1>1, <1>3, <1>10, <2>1 DEF LocksInv, BankInv, Solvent
  <2>12. u = w => gain = 0 - kept
    OBVIOUS
  <2>13. u # w => gain = 0
    OBVIOUS
  <2>4. Deposited(u)[f] = 0
    BY <1>5, <2>1 DEF Deposited, FdsOf, NoFd
  <2>5. Deposited(u)'[f] = gain
    <3>1. CASE u # w
      BY <1>6, <3>1 DEF Deposited, FdsOf
    <3>2. CASE u = w
      <4>1. Deposited(u)'[f] = 0 - kept
        BY <1>6, <3>2 DEF Deposited, FdsOf, Locked
      <4> QED
        BY <3>2, <4>1
    <3> QED
      BY <3>1, <3>2
  <2>6. \A g \in FdIds \ {f} : Deposited(u)'[g] = Deposited(u)[g]
    BY <1>6 DEF Deposited, FdsOf, Locked
  <2> HIDE DEF gain
  <2>7. gains \in [FdIds -> Int] /\ gains[f] = gain
    BY <2>2
  <2>8. \A g \in FdIds \ {f} : gains[g] = 0
    OBVIOUS
  <2> HIDE DEF gains
  <2>9. \A g \in FdIds : Deposited(u)'[g] = Deposited(u)[g] + gains[g]
    BY <2>1, <2>2, <2>4, <2>5, <2>6, <2>7, <2>8
  <2>10. Products(u)' = Products(u) + SumFunctionOnSet(gains, FdIds)
    BY <2>7, <2>9, DepositMoves
  <2>11. SumFunctionOnSet(gains, FdIds) = gain
    <3> DEFINE none == [g \in FdIds |-> 0]
    <3>1. \A g \in FdIds : none[g] = 0
      OBVIOUS
    <3> HIDE DEF none
    <3>2. SumFunctionOnSet(none, FdIds) = 0
      BY <3>1, TablesFinite, SumZero
    <3>3. SumFunctionOnSet(gains, FdIds) = SumFunctionOnSet(none, FdIds) + (gains[f] - none[f])
      <4>1. \A g \in FdIds : gains[g] \in Int /\ none[g] \in Int
        BY <2>7, <3>1
      <4>2. \A g \in FdIds \ {f} : gains[g] = none[g]
        BY <2>8, <3>1
      <4> QED
        BY <4>1, <4>2, TablesFinite, SumChange
    <3> QED
      BY <2>2, <2>7, <3>1, <3>2, <3>3
  <2>14. Account(u)' = Account(u) + gain
    BY <2>2, <2>10, <2>11, AccountMoves
  <2>15. CASE u # w
    <3>1. FdsOf(u)' = FdsOf(u)
      BY <1>5, <1>6, <2>1, <2>15 DEF FdsOf, NoFd
    <3>2. balance'[u] = balance[u] + gain
      BY <2>1, <2>3, <2>13, <2>15
    <3> QED
      BY <2>2, <2>14, <3>1, <3>2, AccountedStays
  <2>16. CASE u = w
    <3> DEFINE opened == Cardinality(FdsOf(u))
               account == Account(u)
    <3>1. FdsOf(u)' = FdsOf(u) \cup {f} /\ f \notin FdsOf(u)
      BY <1>5, <1>6, <2>1, <2>16 DEF FdsOf, NoFd
    <3>2. IsFiniteSet(FdsOf(u))
      BY TablesFinite, FS_Subset DEF FdsOf
    <3>3. Cardinality(FdsOf(u))' = opened + 1
      BY <3>1, <3>2, FS_AddElement
    <3>4. opened \in Nat /\ account \in Int
      BY SumsTyped
    <3>5. balance[u] - account \in 0..opened
      BY DEF Explained, Accounted
    <3>6. Account(u)' = account - kept
      BY <1>9, <2>12, <2>14, <2>16, <3>4
    <3> HIDE DEF opened, account
    <3>7. (balance[u] - c) - (account - kept) \in 0..(opened + 1)
      BY <1>9, <2>1, <3>4, <3>5
    <3> QED
      BY <2>3, <2>16, <3>3, <3>6, <3>7 DEF Accounted
  <2> QED
    BY <2>15, <2>16
<1> QED
  BY <1>7, <1>8 DEF Explained

\* A payout writes the balance the request loaded and all it has credited.
LEMMA PayoutExplained ==
    ASSUME Explained, LocksInv, AllCurrent, Blank, UNCHANGED <<tx, pot, loan>>,
           NEW r \in Threads, CommitPayout(r)
    PROVE  Explained' /\ Blank'
<1> DEFINE w == who[r]
           pays == [f \in FdIds |-> fd[f].payout]
<1>1. /\ op[r] = "fd_payout"
      /\ balance' = [balance EXCEPT ![w] = view[r][w]]
      /\ fd' = [f \in FdIds |-> IF f \in paying[r]
                                THEN [fd[f] EXCEPT !.status = "matured"] ELSE fd[f]]
  BY DEF CommitPayout
<1>2. /\ fd \in [FdIds -> FdRow] /\ w \in Users /\ paying[r] \in SUBSET FdIds
      /\ \A f \in paying[r] : fd[f].status = "active" /\ fd[f].owner = w
  BY <1>1 DEF LocksInv, BankInv, FdInv, FdTypeOK, Sessions, Session, AllCurrent, Current
<1>3. view[r][w] = balance[w] + SumFunctionOnSet(pays, paying[r])
  BY <1>1 DEF AllCurrent, Current, Unlocking, FdOps, Payable
<1>4. \A f \in FdIds :
         IF f \in paying[r]
         THEN /\ fd'[f].owner = fd[f].owner /\ fd'[f].principal = fd[f].principal
              /\ fd'[f].payout = fd[f].payout /\ fd'[f].status = "matured"
         ELSE fd'[f] = fd[f]
  BY <1>1, <1>2 DEF FdRow
<1>5. Blank'
  BY <1>4 DEF Blank
<1>6. \A f \in FdIds : pays[f] \in Int
  BY <1>2 DEF FdRow
<1>7. IsFiniteSet(paying[r])
  BY <1>2, TablesFinite, FS_Subset
<1>8. SumFunctionOnSet(pays, paying[r]) \in Int
  <2> HIDE DEF pays
  <2> QED
    BY <1>2, <1>6, <1>7, SumTakeOut
<1>9. ASSUME NEW u \in Customers
      PROVE  \E gain \in Int : balance'[u] = balance[u] + gain
                               /\ Products(u)' = Products(u) + gain
  <2> DEFINE gains == [f \in FdIds |-> IF u = w /\ f \in paying[r] THEN pays[f] ELSE 0]
             gain == SumFunctionOnSet(gains, FdIds)
  <2>1. u \in Users /\ balance[u] \in Int /\ \A f \in FdIds : Deposited(u)[f] \in Int
    BY SumsTyped
  <2>2. gains \in [FdIds -> Int]
    BY <1>6
  <2>3. \A f \in FdIds : Deposited(u)'[f] = Deposited(u)[f] + gains[f]
    <3> TAKE f \in FdIds
    <3>1. CASE f \notin paying[r]
      <4>1. Deposited(u)'[f] = Deposited(u)[f]
        BY <1>4, <3>1 DEF Deposited, FdsOf, Locked
      <4> QED
        BY <2>1, <3>1, <4>1
    <3>2. CASE f \in paying[r] /\ u # w
      <4>1. Deposited(u)'[f] = 0 /\ Deposited(u)[f] = 0
        BY <1>2, <1>4, <3>2 DEF Deposited, FdsOf
      <4> QED
        BY <3>2, <4>1
    <3>3. CASE f \in paying[r] /\ u = w
      <4>1. Deposited(u)[f] = 0 - fd[f].principal
        BY <1>2, <3>3 DEF Deposited, FdsOf, Locked
      <4>2. Deposited(u)'[f] = fd[f].payout - fd[f].principal
        BY <1>2, <1>4, <3>3 DEF Deposited, FdsOf, Locked
      <4>3. fd[f].principal \in Int /\ fd[f].payout \in Int
        BY <1>2 DEF FdRow
      <4>4. gains[f] = fd[f].payout
        BY <3>3
      <4> QED
        BY <4>1, <4>2, <4>3, <4>4
    <3> QED
      BY <3>1, <3>2, <3>3
  <2>4. u = w => \A f \in FdIds : gains[f] = IF f \in paying[r] THEN pays[f] ELSE 0
    OBVIOUS
  <2>5. u # w => \A f \in FdIds : gains[f] = 0
    OBVIOUS
  <2> HIDE DEF gains, pays
  <2>6. gain \in Int /\ Products(u)' = Products(u) + gain
    BY <2>2, <2>3, DepositMoves
  <2>7. balance'[u] = balance[u] + gain
    <3>1. CASE u = w
      <4>1. gain = SumFunctionOnSet(pays, paying[r])
        BY <1>2, <1>6, <2>4, <3>1, TablesFinite, SumFilter
      <4>2. balance'[u] = view[r][w]
        BY <1>1, <1>2, <3>1 DEF LocksInv, BankInv, Solvent
      <4> QED
        BY <1>3, <3>1, <4>1, <4>2
    <3>2. CASE u # w
      <4>1. gain = 0
        BY <2>5, <3>2, TablesFinite, SumZero
      <4>2. balance'[u] = balance[u]
        BY <1>1, <2>1, <3>2 DEF LocksInv, BankInv, Solvent
      <4> QED
        BY <2>1, <4>1, <4>2
    <3> QED
      BY <3>1, <3>2
  <2> QED
    BY <2>6, <2>7
<1>10. \A u \in Customers : FdsOf(u)' = FdsOf(u)
  BY <1>4 DEF FdsOf
<1> QED
  BY <1>5, <1>9, <1>10, ProductExplained

LEMMA FixedDepositsKeepExplained ==
    ASSUME Explained, LocksInv, AllCurrent, Blank, BankFixedDeposits
    PROVE  Explained' /\ Blank'
<1>0. UNCHANGED <<tx, pot, loan>>
  BY DEF BankFixedDeposits, approvalsVars, savingsVars, loansVars
<1>1. ASSUME NEW r \in Threads, CommitOpen(r) \/ CommitPayout(r)
      PROVE  Explained' /\ Blank'
  BY <1>0, <1>1, OpeningExplained, PayoutExplained
<1>2. ASSUME UNCHANGED <<balance, fd>>
      PROVE  Explained' /\ Blank'
  BY <1>0, <1>2, ExplainedKept DEF Blank
<1>3. ASSUME NEW r \in Threads,
             \/ SelectMatured(r) \/ ClaimNext(r) \/ NothingMatured(r) \/ AbortFd(r)
             \/ \E u \in Users : BeginOpen(r, u) \/ BeginProfile(r, u)
      PROVE  UNCHANGED <<balance, fd>>
  BY <1>3 DEF SelectMatured, ClaimNext, NothingMatured, AbortFd, RollBack, BeginOpen,
     BeginProfile, fdVars
<1>4. ASSUME NEW f \in FdIds, Mature(f)
      PROVE  UNCHANGED <<balance, fd>>
  BY <1>4 DEF Mature, accountsVars
<1> QED
  BY <1>1, <1>2, <1>3, <1>4 DEF BankFixedDeposits, FixedDepositsActivity, FdStep

-----------------------------------------------------------------------------
LEMMA ExplainedStep ==
    ASSUME Explained, Deciding, Aimed, Blank, AllCurrent, LocksInv, BooksTyped,
           [BankNext]_bankVars
    PROVE  Explained' /\ Blank'
<1>1. CASE UNCHANGED bankVars
  <2>1. UNCHANGED <<balance, tx, pot, loan, fd>>
    BY <1>1 DEF bankVars, accountsVars, approvalsVars, savingsVars, loansVars, fdVars
  <2>2. Explained'
    BY <2>1, ExplainedKept
  <2> QED
    BY <2>1, <2>2 DEF Blank
<1>2. CASE BankApprovals
  BY <1>2, ApprovalsKeepExplained DEF BankApprovals, fdVars, Blank
<1>3. CASE BankSavings
  BY <1>3, SavingsKeepExplained DEF BankSavings, fdVars, Blank
<1>4. CASE BankLoans
  BY <1>4, LoansKeepExplained DEF BankLoans, fdVars, Blank
<1>5. CASE BankFixedDeposits
  BY <1>5, FixedDepositsKeepExplained
<1> QED
  BY <1>1, <1>2, <1>3, <1>4, <1>5 DEF BankNext

LEMMA ExplainedInit == BankInit => Explained /\ Deciding /\ Aimed /\ Blank /\ AllCurrent
<1> SUFFICES ASSUME BankInit
             PROVE  Explained /\ Deciding /\ Aimed /\ Blank /\ AllCurrent
  OBVIOUS
<1>1. /\ balance = Opening /\ op = [r \in Threads |-> "idle"]
      /\ pot = [p \in Pots |-> NoPot] /\ potLock = [p \in Pots |-> None]
      /\ loan = [l \in LoanIds |-> NoLoan] /\ read = [r \in Threads |-> NoLoan]
      /\ fd = [f \in FdIds |-> NoFd]
      /\ todo = [r \in Threads |-> {}] /\ paying = [r \in Threads |-> {}]
  BY DEF BankInit, ApprovalsInit, AccountsInit, SavingsInit, LoansInit, FixedDepositsInit
<1>2. \A t \in Txs : tx[t].status = IF t \in Legacy THEN "approved" ELSE "absent"
  BY DEF BankInit, ApprovalsInit, LegacyTx, NewTx, NoTx
<1>3. ASSUME NEW u \in Customers
      PROVE  Accounted(u)
  <2>1. \A t \in Txs : Done(u)[t] = 0
    BY <1>2 DEF Done, Approved
  <2>2. \A p \in Pots : Saved(u)[p] = 0
    BY <1>1 DEF Saved, NoPot
  <2>3. \A l \in LoanIds : Borrowed(u)[l] = 0
    BY <1>1 DEF Borrowed, LentTo, NoLoan
  <2>4. \A f \in FdIds : Deposited(u)[f] = 0
    BY <1>1, NobodyIsNone DEF Deposited, FdsOf, NoFd, Customers
  <2>5. /\ SumFunctionOnSet(Done(u), Txs) = 0 /\ SumFunctionOnSet(Saved(u), Pots) = 0
        /\ Products(u) = 0 + 0
    BY <2>1, <2>2, <2>3, <2>4, TablesFinite, SumZero DEF Products
  <2>6. Opening[u] \in Nat
    BY AccountsAssumption DEF Customers
  <2>7. FdsOf(u) = {}
    BY <1>1, NobodyIsNone DEF FdsOf, NoFd, Customers
  <2>8. Account(u) = Opening[u]
    BY <2>5, <2>6 DEF Account
  <2>9. balance[u] - Account(u) = 0
    BY <1>1, <2>6, <2>8
  <2> QED
    BY <2>7, <2>9, FS_EmptySet DEF Accounted
<1>4. Deciding
  BY <1>1, <1>2, ApprovalsAssumption DEF Deciding
<1>5. Aimed
  BY <1>1, NobodyIsNone DEF Aimed
<1>6. Blank
  BY <1>1 DEF Blank
<1>7. AllCurrent
  BY <1>1, ProductOpsAre DEF AllCurrent, Current, Unlocking, ProductOps, LoanOps
<1> QED
  BY <1>3, <1>4, <1>5, <1>6, <1>7 DEF Explained

LEMMA ExplainedMeans ==
    ASSUME Explained, LocksInv
    PROVE  BalancesExplained
<1> SUFFICES ASSUME NEW u \in Customers
             PROVE  OnRecord(u) = Account(u)
  BY DEF BalancesExplained, Explained, Accounted
<1> DEFINE effects == [t \in Txs |-> Effect(tx[t], u)]
           savings == [p \in Pots |-> pot[p].saved]
<1>1. /\ Approved \in SUBSET Txs /\ PotsOf(u) \in SUBSET Pots
      /\ LentTo(u) \in SUBSET LoanIds /\ FdsOf(u) \in SUBSET FdIds
  BY DEF Approved, PotsOf, LentTo, FdsOf
<1>2. /\ \A t \in Txs : effects[t] \in Int
      /\ \A t \in Txs : Done(u)[t] = IF t \in Approved THEN effects[t] ELSE 0
  BY DEF LocksInv, BankInv, Papers, TxRow, Done, Effect
<1>3. /\ \A p \in Pots : savings[p] \in Int
      /\ \A p \in Pots : Saved(u)[p] = IF p \in PotsOf(u) THEN savings[p] ELSE 0
  BY DEF LocksInv, BankInv, PotsInv, PotRow, Saved, PotsOf
<1>4. /\ \A l \in LoanIds : Borrowed(u)[l] = IF l \in LentTo(u) THEN Lent[l] ELSE 0
      /\ \A l \in LentTo(u) : Lent[l] \in Int
  <2>1. \A l \in LoanIds : Borrowed(u)[l] = IF l \in LentTo(u) THEN Lent[l] ELSE 0
    BY DEF Borrowed
  <2>2. \A l \in LoanIds : Borrowed(u)[l] \in Int
    BY SumsTyped
  <2> QED
    BY <1>1, <2>1, <2>2
<1>5. /\ \A f \in FdIds : Deposited(u)[f] = IF f \in FdsOf(u) THEN Locked[f] ELSE 0
      /\ \A f \in FdsOf(u) : Locked[f] \in Int
  <2>1. \A f \in FdIds : Deposited(u)[f] = IF f \in FdsOf(u) THEN Locked[f] ELSE 0
    BY DEF Deposited
  <2>2. \A f \in FdIds : Deposited(u)[f] \in Int
    BY SumsTyped
  <2> QED
    BY <1>1, <2>1, <2>2
<1> HIDE DEF effects, savings
<1>6. SumFunctionOnSet(Done(u), Txs) = SumFunctionOnSet(effects, Approved)
  BY <1>1, <1>2, TablesFinite, SumFilter
<1>7. SumFunctionOnSet(Saved(u), Pots) = SumFunctionOnSet(savings, PotsOf(u))
  BY <1>1, <1>3, TablesFinite, SumFilter
<1>8. SumFunctionOnSet(Borrowed(u), LoanIds) = SumFunctionOnSet(Lent, LentTo(u))
  BY <1>1, <1>4, TablesFinite, SumFilter
<1>9. SumFunctionOnSet(Deposited(u), FdIds) = SumFunctionOnSet(Locked, FdsOf(u))
  BY <1>1, <1>5, TablesFinite, SumFilter
<1>10. Account(u) = Opening[u] + SumFunctionOnSet(Done(u), Txs)
                      - SumFunctionOnSet(Saved(u), Pots)
                      + (SumFunctionOnSet(Borrowed(u), LoanIds)
                           + SumFunctionOnSet(Deposited(u), FdIds))
  BY DEF Account, Products
<1>11. Account(u) = Opening[u] + SumFunctionOnSet(Done(u), Txs)
                      - SumFunctionOnSet(Saved(u), Pots)
                      + SumFunctionOnSet(Borrowed(u), LoanIds)
                      + SumFunctionOnSet(Deposited(u), FdIds)
  <2>1. /\ Opening[u] \in Int
        /\ SumFunctionOnSet(Done(u), Txs) \in Int
        /\ SumFunctionOnSet(Saved(u), Pots) \in Int
        /\ SumFunctionOnSet(Borrowed(u), LoanIds) \in Int
        /\ SumFunctionOnSet(Deposited(u), FdIds) \in Int
    BY SumsTyped
  <2> QED
    BY <1>10, <2>1
<1> QED
  BY <1>6, <1>7, <1>8, <1>9, <1>11 DEF OnRecord, effects, savings

\* No update is lost but by a request that writes its own row without a lock
\* while another writes it too, or by two requests about one loan: as long as
\* those keep apart, every customer's balance is what transactions, pots, loans
\* and fixed deposits say, and at most one kobo more for each fixed deposit
\* opened, with any number of threads, rows and people and whatever parts of a
\* kobo the requests name.
THEOREM BalancesExact == BankSpec /\ []UnlockedApart => []BalancesExplained
<1> DEFINE I == /\ LocksInv /\ BooksTyped
                /\ Explained /\ Deciding /\ Aimed /\ Blank /\ AllCurrent
<1>1. BankInit => I
  BY LocksInvInit, ExplainedInit DEF BankInit, ApprovalsInit, SavingsInit, BooksTyped
<1>2. I /\ UnlockedApart /\ [BankNext]_bankVars => I'
  BY LocksStep, BooksStep, DecidingStep, AimedStep, ExplainedStep, CurrentStep
<1>3. I => BalancesExplained
  BY ExplainedMeans
<1> QED
  BY <1>1, <1>2, <1>3, PTL DEF BankSpec
=============================================================================
