# Summit Bank in TLA+

Specifications, model-checking runs and machine-checked proofs for the backend
in `src/backend/app`: a FastAPI application on SQLAlchemy and Postgres that
keeps the wallets of a small Nigerian bank. One server process runs; its
synchronous endpoints execute in a pool of worker threads, each with a database
session of its own, beside a timer and background tasks. Everything that can go
wrong with money goes wrong between those threads, their sessions, the rows they
share and the two payment providers, and that is what is modelled.

The reference is the code as it runs on Postgres at its default isolation level,
READ COMMITTED. The test suite runs on SQLite, where `SELECT ... FOR UPDATE`
takes no lock; nothing here is about that mode.

## The system

| Component | State | Operations | Talks to |
|---|---|---|---|
| **Accounts and sessions** (`models/user.py`, `dependencies.py`, `database.py`) | `users.balance`, row locks, the ORM identity map of each request | authenticate (loads the requester's own row), lock a row, commit, roll back | every writer of a balance goes through it |
| **Transactions and approval** (`transaction_service`, `admin_service`) | `transactions` (kind, amount, parties, status) | submit, approve, reject | users rows, ledger, referrals |
| **Double-entry ledger** (`ledger_service`) | `ledger_accounts`, `ledger_entries` | post a deposit or a transfer, backfill, reconcile | posted inside the commit of an approval or a QR payment |
| **Referrals** (`referral_service`) | `referral_rewards` | bonus step after an approval | inserts pending transactions |
| **Savings pots** (`savings_service`) | `savings_pots`, `savings_movements` | create, put in, take out, close | users rows |
| **Loans** (`loan_service`) | `loans` | apply, approve, reject, repay | users rows |
| **Fixed deposits** (`fixed_deposit_service`) | `fixed_deposits` | open, pay out on a profile or balance load | users rows |
| **QR transfers** (`qr_service`) | payment requests, `qr_transfers`, `users.is_active` | request, cancel, pay, hold | users rows, ledger; a held payment is a pending transaction |
| **Scheduled transfers** (`scheduled_transfer_service`, the timer in `main.py`) | `scheduled_transfers`, `scheduled_transfer_runs` | create, pause, resume, cancel, run what is due | submits pending transactions |
| **Saved payments** (`saved_payment_service`) | `saved_payments` with a last-paid stamp | save, delete, pay with one tap | submits pending transactions |
| **StroWallet** (`strowallet_service`, `_webhook`, `_verification`, `_deposit_service`) | provider accounts, webhook events | get an account number, receive, verify with retries, deposit | the provider; submits pending deposits |
| **Paystack** (`paystack_service`) | `paystack_payments` | initialize, credit by webhook or by browser | the provider; submits pending deposits |
| **BTC wallets and rates** (`wallet_transaction_service`, `exchange_rate_service`) | `wallets`, BTC rows of `transactions`, `exchange_rates` | quote, submit, approve, reject | users rows, for withdrawals |
| **Review desks** (`wallet_service`, `card_service`, `kyc_service`, `support_service`) | applications, tickets, `users.kyc_status` | apply, review, freeze, reply, close | opens a BTC wallet |
| PIN, rate limiter, fraud rules, authentication, email, statements, beneficiaries, migrations, web client | – | – | – (see *Not modelled*) |

### What is hard

- **The session is a cache.** Authentication loads the requester's own users row
  without a lock. A later `with_for_update()` locks the row but does *not*
  reload an object the session already holds, unless the query says
  `populate_existing` or the code calls `refresh`. Savings and QR payments do,
  approvals do not: an admin who is a party of the transaction they approve
  writes from an old balance. Repayments, fixed deposits and payouts take no
  lock on the row at all.
- **Absolute writes.** Handlers store a balance they computed in Python. Two that
  overlap on one row lose an update unless a lock separates *read* from write.
- **Lock order.** A transfer approval takes the sender's row and then the
  receiver's, a BTC transfer the two wallets. Crossing approvals deadlock, and
  Postgres kills one. QR payments lock in the order of ids.
- **Several commits in one request.** The bonus step follows the approval, the
  Paystack mark follows the deposit, a schedule's claim, transfer and record are
  three commits. A crash between them is repaired by whoever comes next, or not.
- **Look, then insert.** Limits and idempotency lookups are counted or searched
  before an insert that no constraint protects (backfill, pot limit, referral
  limit), or that one does (`referred_id`, the QR key, the run of a due time).
- **Calls that answer late.** StroWallet and Paystack are asked outside any
  transaction; deliveries, background tasks and manual retries of one event
  overlap, and a "no" may arrive after a "yes".
- **Stale decisions.** Resuming a schedule, reviewing an application or undoing
  a saved payment's stamp writes what was decided on an earlier read.

`PROJECT.json` lists each of these under `hazards`, at its line, with the
properties that watch it.

### What makes each component correct

- *Approvals*: one decision per transaction; the whole effect in that commit;
  never below zero; no request waits for ever.
- *Ledger*: each approved deposit and transfer once; ledger and balance agree.
- *Referrals*: one reward per invited customer, both bonuses or none, no bonus
  for a bonus.
- *Savings*: no pot negative, a closed one empty, wallet plus pots conserved.
- *Loans*: no debt below zero or above the repayable sum; a debt only falls.
- *Fixed deposits*: each paid by one request, after its term.
- *QR*: one payment per key and per payment request, nothing paid after it was
  closed, the daily limit, no deadlock among payments.
- *Schedules*: a due time makes at most one transfer and is answered for; a
  stopped schedule makes none until it is resumed; with the timer alive every due
  time is handled.
- *Saved payments*: two taps within the window make one payment.
- *StroWallet*: one deposit for one real transfer, a verified event stays
  verified, an account number has one owner.
- *Paystack*: a deposit only for a charge, a success only with a deposit; one
  deposit per charge (which fails).
- *BTC*: every wallet and every credit explained by the approved transactions,
  at the rate of their submission; each deposit in the ledger once.
- *Desks*: decisions and what follows from them agree.
- *All together*: every balance is explained by the records of the other tables,
  as far as their columns keep what was asked for.

## Modules

`Accounts` is the base. Its state is `balance`, `lock` (which thread holds a
users row), `view` (the balances in a session's identity map, `-1` if not
loaded), `who` (the current user), `want` (the row the thread's next
`FOR UPDATE` asks for) and `op` (how far its request is). `Begin`, `LockRow`,
`Finish`, `RollBack` and `DeadlockVictim` are the steps all handlers are built
from. `Users` is a set of numbers, the primary keys.

| Module | Code | Notes |
|---|---|---|
| `Accounts` | users rows, sessions, locks | operators; the others extend it |
| `Approvals` | `transaction_service`, `admin_service`, ledger posting and backfill | `LockPending`, `LockParty`, `CommitApproval` are the three points where `_approve_usd` can be overtaken |
| `Settlement` | – | abstract: no threads, locks or sessions; what customers are promised |
| `Reconciliation` | `get_ledger_balance`, `reconcile_user` | operators over `Approvals` |
| `Referrals` | `referral_service` | replaces `SkipBonus` of `Approvals` by the bonus step |
| `Savings`, `Loans`, `FixedDeposits` | the services of these names | each has its own specification and can be checked alone |
| `Money`, `Rounding` | the `Numeric` columns of balances, principals and debts | amounts finer than a kobo, and what a column keeps of them |
| `Bank` | approvals and the three above on the same users rows | interleaves the four, each leaving the others' tables alone |
| `QrTransfers` | `qr_service`, `set_user_active` | runs beside `Approvals`, whose rows it inserts and whose admins decide what is held |
| `Scheduler` | `scheduled_transfer_service`, `_scheduler_loop` | three commits per due time (`Claim`, `SendTransfer`, `RecordOutcome`) and a death possible between any two |
| `Dispatch` | – | abstract: what is promised of one due time |
| `SavedPayments` | `saved_payment_service` | the row lock, the clock read under it, the stamp, the undo |
| `StroWallet` | the four `strowallet_*` services | accounts and events; the provider's answer is any of `Replies`, honest about `real` |
| `Paystack` | `paystack_service` | read, ask, deposit, mark |
| `BtcWallets` | `wallet_transaction_service`, `exchange_rate_service`, `_approve_btc` | the rate is stored in a commit of its own, in front of the insert |
| `Desk` | applications, KYC, tickets | one workflow, four kinds of case |
| `*Proofs` | – | theorems about the module in their name; `SettlementProofs`: that `Approvals` implements `Settlement`, and what the ledger says; `BankProofs` is about `MCBank`, `ServicesProofs` about the five modules of `MCServices` |
| `SumProofs` | – | lemmas about sums over finite sets and about rounding, for the proofs |
| `MC*` | – | instances for TLC |

A handler that reads, waits and writes is several actions, split where another
thread can get between: at a lock that may block, at a read another commit can
make stale, at a commit, at a call to a provider. A handler that locks one row
and commits (`reject_transaction`, `cancel_request`) is a single action.
Exceptions, refusals, lost connections and crashes of a request are one action,
`Abort...` (`Die` for a pass), possible at any point: Postgres rolls back what is
not committed and the thread is free.

Operators commented *Variant* are not part of the system. Each is what the
operator after it would be if the code had a plausible bug, and is there to show
that a property notices it: with the variant in place of the operator, the run
named under `mutants` in `PROJECT.json` must fail.

### How the components meet

- On `users.balance`: `Bank` has approvals, savings, loans and fixed deposits
  with the same threads, rows and sessions; `QrTransfers` has payments beside
  approvals. QR payments are not put beside the products: five writers together
  are out of TLC's reach, and a payment locks and refreshes both rows just as an
  approval does.
- On `transactions`: schedules, saved payments, StroWallet and Paystack insert
  ordinary pending rows through `transaction_service`, whose later life is
  `Approvals`. Their modules end where the row is inserted, and count it
  (`sent`, `marks`, `deposits`).
- `BtcWallets` shares the users rows and their locks (`Accounts`) for the credit
  of a withdrawal. `Desk` and `BtcWallets` share the opening of a wallet, which
  is an action of both.
- `MCServices` puts five components that share nothing but the users in one
  instance; its variable `focus` picks one for a behaviour.

### Abstractions

- Amounts are kobo where the schema says `decimal_places=2`. The schemas of loans
  and fixed deposits ask for `gt=0` only, and their services compute with what
  they are given: there, requests name amounts in `Parts` of a kobo, and each
  column a handler writes (balance, principal, payout, debt) rounds on its own
  to the kobo, halves away from zero (`Money`). So a deposit may cost a kobo less
  than it is good for; a deposit of half a kobo costs nothing. A repayment takes
  from two columns of whole kobo, which round alike. A loan is marked repaid when
  the *unrounded* debt is gone: it may stay "approved" with nothing outstanding.
- BTC amounts are whole units of `1/Coin` bitcoin, the eighth decimal; a deposit
  becomes the nearest number of units, and a withdrawal's worth is rounded to the
  kobo with the balance it is added to. The endpoints put no sign on an amount,
  and a finer one is rounded by the column before anything moves. So
  `BtcAmounts` are any integers. An amount below zero takes from the wallet a
  deposit or transfer is for, or from the naira balance of a withdrawal, without a
  look at what is there: a wallet can go below zero that way, as `BtcExplained`
  says, and so can a balance. `NoOverdraft` is about the naira handlers, in whose instances
  there is no BTC. A stored rate of 0 ends a deposit with an error.
- A balance in `Opening` is the history before the model starts; `Legacy`
  deposits are approved ones of before the ledger, part of that opening balance.
- All entries of one posting stand or fall together, so the ledger is a count of
  balanced groups per transaction. Of naira, deposits and transfers are posted,
  withdrawals are not; of BTC, deposits alone, in the commit of their approval.
  A backfill finds those posted already and adds nothing (every BTC deposit was
  approved since the ledger), so `BtcWallets` needs none. `reconcile_user` on a
  BTC account differs as soon as BTC leaves or is transferred, and so compares
  nothing a property could be about; a deposit below zero is posted with its
  sign, although `models/ledger.py:32` calls amounts "always positive".
- Row locks that Postgres takes on foreign-key checks (`FOR KEY SHARE`) do not
  conflict with an update of a balance and are left out, as are notes,
  references, alerts, notifications and the fraud flag, which only moves a
  pending row to another list (for a QR payment it decides whether it is held).
- The scheduler's clock counts days, and months are sets of last days
  (`MonthEnds`); what is due is compared by day. The clock of saved payments
  counts in units of half the window.
- A signed QR code, a webhook signature and the parsing of a notification are
  decided before the first state change: a bad one changes nothing or stores an
  `invalid` event.
- A provider's reply is a record of what the interpreting function looks at.
  `Honest` says what is trusted of StroWallet: a "received" that names this
  transfer, if it names any, with no word of failure, is about one that happened.
  What the code takes for a proof is `Confirms`, stated apart from that: a reading
  of the reply that looks at less accepts a transfer that did not happen
  (`ConfirmsAnyTransfer`). Paystack confirms no charge that was not made. Both may
  deny or stay silent about a real one.

## Runs

| Run | Instance | Shows |
|---|---|---|
| `approvals` | 3 people (an admin who also banks, two customers), 2 workers, 3 transactions of which one is legacy, one backfiller | types, no overdraft, single posting, fresh locked rows, the shape of deadlocks, reconciliation, and that customers see `Settlement` |
| `approvals_liveness` | 2 people, 2 workers, 2 transactions | every request ends; the inductive invariant of the proofs |
| `referrals` | chain 1 → 2 → 3, 2 workers, 6 transactions, bonus larger than the qualifying amount | reward once, both bonuses, none for a bonus |
| `bank` | 2 people, 2 workers, one row of each product | what survives although some handlers do not lock: no overdraft, pots, debts, single payout, and that no write gets under a row lock that reads fresh |
| `bank_exact` | 2 workers on every product; amounts in tenths of a kobo | no update is lost and rounding stays within a kobo per deposit, unless a handler that does not lock overlaps another writer of its row or two requests are about one loan |
| `scheduler` | a recurring schedule (daily, weekly, monthly, or with an end) and a one-off, the timer and a thread for profile loads and the internal call, two owner requests, one death | types, `Dispatch` implemented, monthly dates on their anchor, stops that hold unless a resume is under way, unanswered claims explained by deaths, every due time handled |
| `qr` | an admin and a customer, 2 workers, 2 keys, a payment request, 2 transactions, daily limit 1 | one payment per key, the limit, no deadlock of payments, reconciliation, closed requests stay closed |
| `services` | StroWallet, saved payments, Paystack, BTC and the desks, one a behaviour | one deposit per transfer, verified events and numbers stand, taps apart, deposits only for charges, BTC wallets and credits explained, decisions agree |
| `approvals_backfill_twice` | 2 backfillers | **violation**: an old deposit is posted twice |
| `loans_race` | 2 workers, one loan | **violation**: a debt goes up after a repayment |
| `bank_drift` | 2 workers, 2 fixed deposits | **violation**: two deposits opened, one paid for |
| `paystack_twice` | 2 workers, one payment | **violation**: one charge, two deposits |

The four violations are the project's findings, each with the line of the
repository that says otherwise. `loan.py:21` says of the outstanding balance
that it decreases as repayments come in; `ledger_service.py:197` that the
backfill is safe to re-run; `test_fixed_deposits.py:50` that an opening takes its
principal; `paystack_service.py:71` that crediting is safe to call multiple
times. All four hold when requests do not overlap, the last one if besides
nothing crashes between its two commits. A deposit made twice is still pending:
an admin who approves both pays the charge twice.

### Bounds, and why they are enough

- *Two workers*: every race here is between two requests, or between a request
  and the timer. The proofs cover any number.
- *`MaxTx`, `MaxPot`, `MaxLoan`, `MaxFd`* bound the tables. Two transactions of
  two customers cross and deadlock; a third is decided before or during the
  backfill. In `referrals`, six rows are two deposits and two rewards with their
  two bonuses each. In `bank_drift` two deposits are opened at once.
- *Amounts*: one unit against opening balances of one makes the second debit of a
  balance the overdraft. `bank` repays one or two of a debt of one, so that
  paying too much is tried. `bank_exact` (`Parts` 10) lends 25.4 kobo at
  10 %, repays 8.4 or 20.5 and locks 25.5 away, so that interest, a repayment and
  an opening round down, up and at the half; its savings moves are half and all
  of a balance of 60.
- *`scheduler`*: `LastDay` 2 lets a daily schedule come due three times and meet
  its end; a two-day month is followed by a one-day month, so that a monthly
  schedule is pushed off its anchor and returns (`MonthEnds`). `MaxPass` is
  `MAX_RUNS_PER_PASS` (100), `MaxOpen` the limit of open schedules, `Week` a week of two
  days, `MaxDeaths` the crashes. Two overlapping owner requests resume, cancel
  and create against the passes.
- *`qr`*: two keys make one repeated and one crossing payment; a limit of one
  payment makes the second one exceed it; two transactions are a held one and an
  immediate one.
- *`services`*: `MaxAuto` is `MAX_AUTO_ATTEMPTS`, `MaxTries` the counter it may
  reach when tasks overlap; one session is delivered again and again. `Window`
  is two ticks, so that a tap can be inside, at and after it; `MaxMarks` five
  stamps and undos. `MaxDeposits` 2 is one more than there should be. Two account
  numbers make two answers to overlapping applications differ. Two rates and two
  BTC transactions cross a rate change; a bitcoin is two units, so that one of
  them is worth half a kobo at the lower rate; amounts are 1 and -1; three cases are a decided one, a
  waiting one and a new one.
- *Constraints* (named in the MC modules): `OneProductAtATime` keeps loans and
  fixed deposits apart in `bank`; `WritersApart` leaves in `bank_exact` what
  should be exact: requests that keep apart as `UnlockedApart` says, on two rows
  of any tables, on more rows if only handlers that lock are used (`LockersOnly`)
  or nothing overlaps (`Serial`); `StaffOnlyDecide` keeps the admin from banking in both; `NewcomerDeposits` lets
  one customer ask; `LegacyOfOneCustomer` gives the legacy deposit to user 2 (the
  customers are interchangeable); `OneAtATime` explores the one-off, the second
  owner and the rarer plans one at a time; `OnlyQr` leaves the submissions and
  the backfill to `approvals`; `OneDesk` stays with one customer and one kind of
  case, which do not meet others; `OneSubmission` lets one BTC submission at a
  time run beside approvals, as two share nothing but the rate. Each removes
  combinations, not steps of a handler.
- *Symmetry* is used on worker threads, QR keys, account numbers and BTC
  transactions, which nothing tells apart, and never in a run with liveness.
- *Deadlock checking* is on wherever an idle thread can always begin. It is off
  in `scheduler`, `services` and `paystack_twice`, whose clocks and counters end:
  the last state is the bound's, not the system's.

### What is excluded, and why

Each exception stands in the statement of the property because it is in the code.

- `LockedViewFresh`, `Reconciles` and `ImplementsSettlement` speak of customers,
  or of rows that are not the requester's own. An admin who approves a transaction
  of their own account writes the balance of when they authenticated. For the
  same reason `BtcExplained` explains the balances of customers only.
- `LockedWritesExact` speaks of sessions that the lock makes fresh (`Reloads`).
- `DueTimesHandled`: two resumes that overlap can put `next_run_at` back on a due
  time that has run. Every pass then lists the schedule first and skips it; with
  `MaxPass` of them nothing else is listed.
- `StopsHold` speaks of a schedule no resume of which is under way (`Quiet`). A
  resume that read the row while it was paused writes "active" over whatever it
  says by then: it *does* bring back a schedule that was cancelled or ended in
  between. Without one, a stop holds against passes that had listed the schedule,
  a paused one becomes active by a new resume only, and one that is over stays
  over.
- `TapsApart`: a slow tap whose payment fails puts back the stamp it found, also
  over the stamp of a later tap.
- `DecisionsAgree` excepts users two of whose requests overlapped (`clash`, a
  history variable): two reviews of one application can both decide it.
- `VerifiedStands` says where a verified event may go, not that every real
  transfer is verified: a "no" that arrives first ends the matter, and a later
  "yes" of an overlapping attempt is dropped.
- A held QR payment that is rejected leaves its payment request "paid": a paid
  request means that someone tried.
- `NumberStands` speaks of an account with no application under way (`Settled`).
  A pending row stands in the way of another application for
  `PENDING_STALE_AFTER` by the clock, which is no bound on the request behind it
  (the provider's timeout is one per read, and a process may stall), so the model
  lets a pending row be applied for again at once. Then the later answer replaces
  the number of the earlier one, and a later failure fails the account.
- `BalancesExplained` lets a balance be above the books by a kobo per fixed
  deposit opened (see *Abstractions*).

### Fairness

`ApprovalsFairness`, and why the code justifies it:

- `WF` on a thread's own steps: a thread of the pool keeps running.
- `SF` on taking a row lock: the lock is free again and again while others come
  and go, and Postgres grants it in queue order.
- `WF` on `AbortVictim`: Postgres looks for a deadlock after `deadlock_timeout`
  and aborts one of the ring.

No fairness on beginning a request, on aborts or on rejections.

`SchedulerFairSpec` has `WF` on the steps of the timer's pass and nothing else:
`_scheduler_loop` starts a pass every minute whatever became of the last one.
Passes of profile loads and owners' requests may stop at any point. Deaths are
bounded (`MaxDeaths`): a process that dies in every pass handles nothing.

## Proofs

Eight modules of proofs are checked by TLAPS. Every theorem holds for any number
of people, threads and rows. Each safety property that a passing run checks is
one, on the specification the run checks it on (in `services`, on that of its own
component), but for those listed under *Only model-checked*.

| Module | Theorem | Says |
|---|---|---|
| `ApprovalsProofs` | `ApprovalsInvariance` | `ApprovalsInv` holds always |
| | `TypeCorrect` | `ApprovalsTypeOK` |
| | `NeverOverdrawn` | `NoOverdraft` |
| | `LockedRowsFresh` | `LockedViewFresh` |
| | `DeadlocksAreTransfers` | `DeadlockShape`, for rings of any length |
| `SettlementProofs` | `ApprovalsImplementSettlement` | `ApprovalsSpec => ImplementsSettlement` |
| | `LedgerReconciles` | `Reconciles`: a customer's balance is what the ledger says, with the withdrawals |
| | `LedgerHasEachOnce` | `PostedOnce`, if one thread runs the backfill |
| `ReferralsProofs` | `ReferralsTypeCorrect` | `ReferralsTypeOK` |
| | `OneRewardEach`, `RewardsComplete` | `RewardOnce`, `RewardsIntact` |
| | `NoBonusOnBonus` | `BonusEarnsNothing` |
| `QrProofs` | `QrInvariance`, `QrTypeCorrect` | `QrTypeOK` and the unique keys |
| | `KeysPayOnce`, `ClosedRequestsStay` | `OnePaymentPerKey`, `ClosedAsksStayClosed` |
| | `LimitKept` | `DailyLimitKept` |
| | `PaymentsNeverRing` | `NoPaymentDeadlock`, for rings of any length |
| `BankProofs` | `BankTypeCorrect` | `BankTypeOK` |
| | `BankInvariance`, `BankNeverOverdrawn` | no product, locking or not, makes a balance negative |
| | `LockedRowsWrittenExactly` | `LockedWritesExact` |
| | `PotsHoldWhatMoved` | `PotsSound`, beside the other products |
| | `DebtsStayBounded` | `DebtBounded`, although no handler locks a loan |
| | `DepositsPaidByOne` | `PaidByOne` |
| | `BalancesExact` | `BalancesExplained`, for any parts of a kobo, under `UnlockedApart` |
| `SchedulerProofs` | `SchedulerTypeCorrect` | `SchedulerTypeOK`, for any calendar |
| | `DispatchInvariance`, `SchedulerImplementsDispatch` | a due time is taken by one pass and sent at most once |
| | `StoppedSchedulesHold` | `StopsHold`: nothing but a resume undoes a stop |
| | `ClaimsHaveExplanations` | `ClaimsExplained`: a claim without an outcome is a death |
| | `MonthlyNeverDrifts` | `MonthlyOnAnchor`, for any calendar |
| `ServicesProofs` | `ServicesTypeCorrect` | `ServicesTypeOK` |
| | `StroInvariance`, `DepositsAreSingle` | `DepositedOnce` |
| | `VerifiedEventsStand`, `NumbersStand` | `VerifiedStands`, `NumberStands` |
| | `CreditsAreBacked` | `EveryDepositIsPaid` |
| | `SavedInvariance`, `TapsStayApart` | `TapsApart` |
| | `DecisionsStand` | `DecisionsAgree` |
| | `WalletsExplained` | `BtcExplained`, for amounts of either sign |

### Assumptions

They are the named assumptions beside the constants, and every run evaluates
those of its modules. Most say that naira amounts are positive, as the schemas
ask (BTC amounts are any integers), opening balances not negative, and that `None` names nothing else. The others, and why the code
justifies them:

- `Legacy` is a prefix of the ids: the deposits of before the ledger were
  inserted first, and ids come from a sequence.
- `Threads` is finite: the pool of workers has a size.
- Where primary keys are compared (the lock order of QR payments), `Users` are
  numbers.
- `SchedulerAssumption`: the calendar has a month that ends before day 1 and one
  that ends after the month of the last day, which any real one has. Nothing is
  assumed of the length of a month.

### Sums and recursion

The library's induction theorems are out of the provers' reach, as they take an
operator. What is needed of induction is proved instead from a *least
counterexample*, stated about functions and sets. `SmallestSubset` (from
well-foundedness of the strict-subset ordering of a finite set) gives
`SumRecursion`: `SumFunctionOnSet`, a fold in whatever order `CHOOSE` picks, does
satisfy its recursion. From it follow that a sum is that of a set without one
element plus that element (`SumTakeOut`), that changing one value changes the sum by
the difference (`SumChange`), and that sums add, compare and filter. Rounding
needs no induction: `DivIs` fixes a quotient by its bounds, and `NearestPositive`
says what a column keeps of an amount that is not negative. In the same way,
`ForwardRecursion` shows that a recursive function over days whose calls go
forward exists and equals its body, and `RecursionEnds` that its value is one its
steps can reach.

### Approvals

**The inductive invariant.** `NoOverdraft` alone is not inductive: a state in
which a settling thread sees more than there is would overdraw at its commit. The
invariant says why that state is not reached.

1. `Settling`: a settling thread holds the transactions row, which is pending, and
   every party's row that it is not still waiting for. So when it commits it
   holds them all, and nobody else decides the same transaction.
2. `ViewOwners`: a session has loaded only its user's own row and rows it holds.
   So a row that is locked for the first time is loaded at that moment, unless it
   is the user's own.
3. `LockedViewFresh`: what a session sees of a held row of somebody else is the
   committed balance. Only the holder writes, and it lets go as it writes.
4. `ViewsSound` and `NoOverdraft`: what a session sees is never negative, not even
   when stale; the check in the approval compares with what the session sees, so
   what is written is never negative.
5. `LockOwners`: users rows are held by settling threads only, and a holder that
   still waits has its sender and wants its receiver. Each thread of a deadlock
   holds a row and waits for one, which leaves only transfers.
6. `Requests`, `RowsWellFormed` and the types tie these together: who decides is
   an admin, and what is decided names its parties.

Each action has a lemma; requests that begin, and requests that end in whatever
way, share one each (`BeginKeepsInv`, `EndKeepsInv`).

**Refinement.** `InsertImplements`, `ApprovalImplements` and `RejectImplements`
map a step to `Submit`, `Approve` and `Reject`; all others leave balances and rows
alone. The approval uses `LockedViewFresh` for the parties who are customers: the
admin who decides is none.

**The ledger.** `PostedOnce` needs `Posting`: a running backfill lists approved
deposits only, and what it has set aside to post is from before the ledger and
still unposted. An approval cannot post those, as it decides pending rows; another
backfill could, so the theorem assumes `LoneBackfiller`. The run
`approvals_backfill_twice` shows that the assumption is needed.

`LedgerReconciles` needs no such assumption. `Explained` says that a customer's
balance is the opening one plus the effects of the approved transactions; an
approval changes one effect and the parties' balances by the same amount, as it
writes from fresh rows. What a ledger account reads back is the same sum, since
each approved deposit and transfer after `Legacy` is posted once (`Posting`).
`Reconciles` takes out what the backfill posted, once or twice: those deposits are
in the opening balance.

### Approvals beside other components

Referrals and QR payments insert rows of `transactions` and use the same threads.
The second half of `ApprovalsProofs` therefore shows what the actions of
`Approvals` keep *beside any other operations*: the types (`ActivityTyped`), that
rows only appear in the order of ids and move from pending to one decision
(`ActivityProceeds`, `Consecutive`), and that no row is held by two of the threads
that take row locks (`ActivityExclusive`).

*Referrals.* A request in the bonus step has approved its transaction
(`BonusOfApproved`), and what `CheckBonus` found of the deposit still holds when
`GrantBonus` inserts (`StillQualifies`), because an approved row does not change.
That nobody was rewarded meanwhile is *not* kept, and need not be: the unique
constraint on `referred_id` decides. A bonus row is new in the commit that makes
it its reward's, so no request can have checked it before it was a bonus.

### The whole bank

The four products share threads, and a proof about one of them must say why a
step of another does not disturb it. `Serves(Ops)` is that frame: a step of a
product works on at most one thread, which is idle or serves that product before
and after. Each product is shown to serve its own operations once
(`ApprovalsServe`, ..., `FixedDepositsServe`); then `PotsInv`, `LoansInv` and
`FdInv` are invariants of their product and of everything beside it.

- *Pots*: a move holds the pot's row, so it adds to what it read.
- *Debts*: nobody holds a loan, so a reading may be old. But every reading, old or
  not, is between nothing and the repayable sum, and what is written is computed
  from a reading and a repayment that was checked against it (`Reading`).
- *Deposits*: what a payout has in hand it holds locked, active and due.
- *Balances*: `Session` says that a request has loaded every row it will write,
  and with a natural number. A debit is compared with the balance it is computed
  from, so old balances and lost updates change how much there is, not its sign.
- *Balances and books* (`BalancesExact`): `Explained` is the sum of four
  tables: effects of transactions, money in pots, loans paid out less what is
  repaid, deposits in their term. Each product changes one entry of one table
  and one balance by the same amount, or, when a deposit is opened, by a kobo
  less, *if* it computes from what is committed.
  Locking handlers do (`LocksInv`). For the others, `Current` says that what the
  request loaded is still what is committed, the money of its own payout added;
  it is kept because no other writer of that row overlaps (`UnlockedApart`).
  `Deciding` and `Aimed` say whose row a commit writes, which is what `Writes`
  in `UnlockedApart` is about. The hypothesis is as weak as the code allows: a
  repayment, an opening or a payout may overlap everything but a writer of its
  user's balance, and two requests may not be about one loan. `bank_drift` and
  `loans_race` are the executions it leaves out.
- *Row locks*: `LocksInv` adds who may hold what. `Holds`: a thread that waits for
  nothing more holds every row it is going to write, unless its handler does not
  lock at all; what it has of a row it holds is what is committed, unless the
  row is its own and was not reloaded; other rows than its own it knows only if
  it holds them. `Apart`: a step of one thread touches no row another holds. The
  handlers that do not lock (`UnheldWrite`) wait for the row to be free and find
  no holder to disturb; those that lock (`HeldWrite`) write what they record. So
  a lost update is always one of a handler that took no lock, or of an admin's
  own row.

### The scheduler

`InHand`: a runner has a due time in hand only after its claim, nobody else has
it, and what it has sent of it is as far as its stage says. The unique run of a
due time is the one gate, so the refinement holds for any calendar and any
interference of owners, and does not depend on how the next date is computed.
`SchedulerImplementsDispatch` maps a claim to taking, a send to sending and a
record to its outcome; a death maps to a stutter that leaves the due time taken.

*Stops* (`StoppedSchedulesHold`): a claim re-reads the status, in the statement that
moves the date, and writes "completed" or "active" over an active row only
(`StoppedByPasses`). Of the owners' requests (`StoppedByOwners`), a creation inserts
an id that is absent, which a stopped schedule is not; a resume that writes was
under way before; one that begins finds a paused row, or none. So a schedule that
is over and quiet stays quiet: no resume of it can even begin.

*Lost claims*: a run that is claimed and in nobody's hand (`Lost`) was left by a
death, and each death leaves one at most, so there are no more of them than
deaths.

*Dates*: here `NextFuture` is opened. `Advance` goes forward, so the recursion has
a solution, and it ends in a date that `Advance` computed, which lies on the anchor
or on the last day of a shorter month (`Anchored`). `RowsInv` says so of every
row, and of what an owner's request is about to write: a resume writes back a row
it read earlier, but frequency and anchor of a schedule never change (`Resumes`),
so what was on the anchor then is on it now.

### QR payments

`OnePaymentPerKey` follows from the constraint on (sender, key) checked at the
commit, and from `AbsentUnlinked`: a transaction row that does not exist has no
QR payment, so an insert by the approvals never inherits one.
`ClosedAsksStayClosed` needs no invariant beyond: the commit re-reads the
request under a lock. Neither looks at a balance.

`NoPaymentDeadlock` and `DailyLimitKept` are about the row locks. `RowOrder`: a
payment holds exactly the rows below the one it asks for, of the two it needs. In
a ring of payments every wanted row is above every row its thread holds, and a
finite ring has a greatest one. The sender's row is one of the two, and
`Exclusive` keeps it one thread's, so two payments of a sender do not count the
day's total at once: the commit adds to a sum it has just compared with the limit.

### Payments from outside

- *StroWallet*: `DepositedOnce` is inductive with the types, because an event is
  taken to its deposit in the commit that makes it. A verified event is of a real
  transfer, because a reply that `Confirms` accepts is one of which `Honest` says
  so. `NumberStands` needs `NumbersHeld` (an account has a number, and a number
  belongs to one row): the unique index decides between overlapping answers, and
  no step but an operator's reaches a settled row (`SettledStep`).
- *Paystack*: `CreditsKnow`, what a credit that has gone past the question knows:
  the charge was made, and past the deposit, that there is one.
- *Saved payments*: `TapsKnow` (what a tap read of the last stamp under the lock
  stays true until it stamps, and once it has read the clock the window has
  passed) and `LastStamp` (the column is the last stamp, unless an undo followed).

### BTC and the desks

- *BTC*: a transaction is `Sound` when inserted (its wallets exist, and two
  different ones in a transfer) and stays so, since wallets are never removed.
  An approval holds its transaction, which is pending and as it read it, and every
  wallet it needs or has yet to ask for (`Holds`); when it credits naira, the
  wallets cover it and the users row is fresh (`Credits`). So the commit takes from
  each wallet and adds to each balance what one new approved transaction explains
  (`Funded`), at the rate stored in its row. A wallet that pays was covered under
  the lock, so it ends at zero or above, or gains if the amount is negative; a
  wallet that receives changes by what its own `Taken` counts if that is
  negative (`TakenIsLess`). Each credit rounds once, by at most half a kobo
  (`NearestHalf`), which is what `BtcExplained` allows per withdrawal.
- *Desks*: `DeskInv` is about one customer and one kind of case at a time. While no
  two of their requests have overlapped (`clash`), one thread at most works on
  them, what it has read is what is committed, and one case at most is pending
  (`Undisturbed`). After a clash nothing is said, as the review takes no lock.
- *All five* in one instance: `ServicesInv` joins their invariants, and each
  component leaves the others' tables alone.

### Only model-checked

- `Responds` and `DueTimesHandled`: liveness under fairness is beyond the prover.
- `Reconciles` in `qr`: the theorem is about `Approvals` alone, where what a
  session holds of a locked row is shown to be fresh; beside QR payments it is not.
- `BalancesExplained` where `UnlockedApart` does not hold is false, and so are the
  properties of the four violation runs.

## Not modelled, and what is left

- *Transaction PIN*: a failure counter and a bcrypt comparison. Wrong attempts
  that overlap are counted as one, which one sentence says as well as a module.
- *Rate limiter*: one function over an in-memory window, which calls itself not a
  hard security boundary. *Fraud rules*: read-only; their flag moves a row to
  another list, and is a free choice in `QrTransfers`.
- *Statements, lookups, reports, address book*: queries, PDF layout, single-row
  inserts and deletes.
- *Authentication and biometrics*: cryptography of libraries. *Email*: output to a
  provider; *migrations*: run offline. *Web client*: the backend enforces every
  rule again.
- *Partly*: the row of a ledger account and a person's referral code, each created
  on first use under a unique constraint (a loser fails, which is `Abort`); QR
  payments beside savings and loans.
- *Hazards without a property*: the bonus lost in a crash behind the approval, and
  the referral limit, the pot limit and the limit of automatic verification
  attempts passed by requests that overlap, are what the code does and no document
  denies. So are the failure recorded of a transfer that was made (an alert mail
  that fails after the commit), and what overlapping reviews of one application
  leave. Each has its note in `PROJECT.json`.

With a larger model checker's budget: QR payments in `Bank`, and a second owner of
a schedule in `scheduler`. To prove: `Reconciles` beside QR payments.
