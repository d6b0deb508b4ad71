----------------------------- MODULE BtcWallets -----------------------------
(***************************************************************************)
(* BTC wallets.  A deposit, withdrawal or transfer is submitted as a       *)
(* pending transaction at the rate of that moment; an admin's approval     *)
(* locks the transaction, the wallets and, for a withdrawal, the users row *)
(* whose NGN balance it credits, and commits once, a deposit's ledger      *)
(* entries with it.  Wallet rows are locked in the order of the code, so   *)
(* approvals may deadlock.                                                 *)
(*                                                                         *)
(* The endpoints take any decimal, negative ones too, and what they submit *)
(* is only compared with the wallet it is taken from.                      *)
(***************************************************************************)
EXTENDS Accounts, Rounding, Sequences, Functions

CONSTANTS BtcTxs,         \* ids of BTC transactions
          Coin,           \* smallest units in a bitcoin
          Rates,          \* kobo per bitcoin; a tiny one is stored as 0
          BtcAmounts,     \* what customers withdraw and transfer, in units
          NgnAmounts,     \* what customers deposit, in kobo
          OpeningWallet   \* the wallets the run starts with

ASSUME BtcAssumption ==
    /\ None \notin BtcTxs /\ None \notin Int
    /\ Coin \in Nat \ {0} /\ Rates \subseteq Nat
    /\ BtcAmounts \subseteq Int /\ NgnAmounts \subseteq Int
    /\ OpeningWallet \in [Users -> Nat \cup {None}]

VARIABLES wallet,      \* wallets.balance, or NoWallet
          walletLock,
          btx,         \* the transactions
          btxLock,
          posted,      \* groups of ledger entries that refer to a transaction
          rate,        \* exchange_rates.rate_usd, or NoRate
          deal         \* what each thread is submitting or approving

btcVars == <<wallet, walletLock, btx, btxLock, posted, rate, deal>>

NoWallet == None
NoRate == -1
NoBtx == [kind |-> "none", amount |-> 0, rate |-> 0, from |-> None, to |-> None, status |-> "absent"]
NoDeal == [stage |-> "idle", of |-> None, tx |-> NoBtx, todo |-> <<>>]

BtcInit ==
    /\ wallet = OpeningWallet
    /\ walletLock = [u \in Users |-> None]
    /\ btx = [t \in BtcTxs |-> NoBtx]
    /\ btxLock = [t \in BtcTxs |-> None]
    /\ posted = [t \in BtcTxs |-> 0]
    /\ rate = NoRate
    /\ deal = [r \in Threads |-> NoDeal]

DealDone(r) ==
    /\ deal' = [deal EXCEPT ![r] = NoDeal]
    /\ walletLock' = [u \in Users |-> IF walletLock[u] = r THEN None ELSE walletLock[u]]
    /\ btxLock' = [t \in BtcTxs |-> IF btxLock[t] = r THEN None ELSE btxLock[t]]
    /\ Finish(r)

\* An approved application: approve_wallet_application inserts an empty wallet.
OpenWallet(u) ==
    /\ wallet[u] = NoWallet
    /\ wallet' = [wallet EXCEPT ![u] = 0]
    /\ UNCHANGED <<accountsVars, walletLock, btx, btxLock, posted, rate, deal>>

-----------------------------------------------------------------------------
(* Rates and submissions. *)

\* What get_current_rate may return and store: a live rate, or the row as it is.
Quotes == Rates \cup {rate}

\* set_manual_rate, or somebody looking at the rate.
SetRate(x) ==
    /\ rate' = x
    /\ UNCHANGED <<accountsVars, wallet, walletLock, btx, btxLock, posted, deal>>

\* deposit_btc, withdraw_btc, transfer_btc: the wallets are looked at without a
\* lock; the deposit's amount waits for the rate.
Submittable(x) ==
    /\ x.kind = "deposit" => wallet[x.to] # NoWallet
    /\ x.kind # "deposit" => wallet[x.from] # NoWallet /\ x.amount <= wallet[x.from]
    /\ x.kind = "transfer" => x.from # x.to /\ wallet[x.to] # NoWallet

Submissions(u) ==
    {[NoBtx EXCEPT !.kind = "deposit", !.amount = a, !.to = u] : a \in NgnAmounts}
    \cup {[NoBtx EXCEPT !.kind = "withdrawal", !.amount = a, !.from = u] : a \in BtcAmounts}
    \cup {[NoBtx EXCEPT !.kind = "transfer", !.amount = p[1], !.from = u, !.to = p[2]] :
             p \in BtcAmounts \X Users}

BeginDeal(r, u, x) ==
    /\ Submittable(x)
    /\ Begin(r, u, "btc")
    /\ deal' = [deal EXCEPT ![r] = [NoDeal EXCEPT !.stage = IF x.kind = "transfer" THEN "insert" ELSE "quote",
                                                  !.tx = x]]
    /\ UNCHANGED <<balance, lock, want, wallet, walletLock, btx, btxLock, posted, rate>>

\* What a deposit of that many kobo becomes, as transactions.amount keeps it.
Converted(kobo, q) == Nearest(kobo * Coin, q)

\* The rate is stored in a commit of its own and stays in the request.  There is
\* no dividing by a rate of 0: the request ends with an error (AbortBtc).
Quote(r, q) ==
    /\ deal[r].stage = "quote"
    /\ q \in Quotes /\ q # NoRate
    /\ deal[r].tx.kind = "deposit" => q # 0
    /\ rate' = q
    /\ deal' = [deal EXCEPT ![r].stage = "insert", ![r].tx.rate = q,
                            ![r].tx.amount = IF deal[r].tx.kind = "deposit" THEN Converted(@, q) ELSE @]
    /\ UNCHANGED <<accountsVars, wallet, walletLock, btx, btxLock, posted>>

InsertBtx(r, t) ==
    /\ deal[r].stage = "insert"
    /\ btx[t].status = "absent"
    /\ btx' = [btx EXCEPT ![t] = [deal[r].tx EXCEPT !.status = "pending"]]
    /\ DealDone(r)
    /\ UNCHANGED <<balance, wallet, posted, rate>>

-----------------------------------------------------------------------------
(* Approval. *)

Locks(x) == IF x.kind = "deposit" THEN <<x.to>>
            ELSE IF x.kind = "withdrawal" THEN <<x.from>> ELSE <<x.from, x.to>>

\* approve_transaction locks the transaction; reject_transaction likewise.
BeginBtcApproval(r, u, t) ==
    /\ btx[t].status = "pending"
    /\ btxLock[t] = None
    /\ Begin(r, u, "btc")
    /\ btxLock' = [btxLock EXCEPT ![t] = r]
    /\ deal' = [deal EXCEPT ![r] = [stage |-> "lock", of |-> t, tx |-> btx[t], todo |-> Locks(btx[t])]]
    /\ UNCHANGED <<balance, lock, want, wallet, walletLock, btx, posted, rate>>

RejectBtx(t) ==
    /\ btx[t].status = "pending"
    /\ btxLock[t] = None
    /\ btx' = [btx EXCEPT ![t].status = "rejected"]
    /\ UNCHANGED <<accountsVars, wallet, walletLock, btxLock, posted, rate, deal>>

\* The next wallet FOR UPDATE.  The session has not read it before, so what it
\* sees is what is committed.
LockWallet(r) ==
    LET todo == deal[r].todo
    IN  /\ deal[r].stage = "lock" /\ todo # <<>>
        /\ walletLock[todo[1]] = None
        /\ walletLock' = [walletLock EXCEPT ![todo[1]] = r]
        /\ deal' = [deal EXCEPT ![r].todo = Tail(todo)]
        /\ UNCHANGED <<accountsVars, wallet, btx, btxLock, posted, rate>>

\* Variant: the wallet is not looked at again.
CoveredThen(x) == TRUE

Covered(x) == x.kind # "deposit" => x.amount <= wallet[x.from]

\* Deposits and transfers commit; a withdrawal first asks for the users row,
\* which an admin's own session has already loaded and does not read again.
LockUser(r) ==
    LET x == deal[r].tx
    IN  /\ deal[r].stage = "lock" /\ deal[r].todo = <<>>
        /\ x.kind = "withdrawal" /\ Covered(x)
        /\ Free(x.from)
        /\ lock' = [lock EXCEPT ![x.from] = r]
        /\ view' = IF who[r] = x.from THEN view
                   ELSE [view EXCEPT ![r][x.from] = balance[x.from]]
        /\ deal' = [deal EXCEPT ![r].stage = "credit"]
        /\ UNCHANGED <<balance, op, who, want, wallet, walletLock, btx, btxLock, posted, rate>>

WalletAfter(x, u) ==
    IF u \notin {x.from, x.to} THEN wallet[u]
    ELSE wallet[u] + (IF x.to = u THEN x.amount ELSE 0) - (IF x.from = u THEN x.amount ELSE 0)

\* Variant: at the rate of the approval, not of the submission.
CreditAtCurrentRate(n, x) == Nearest(n * Coin + x.amount * rate, Coin)

\* "at the rate locked when submitted": what the column keeps of n kobo and that.
Credited(n, x) == Nearest(n * Coin + x.amount * x.rate, Coin)

\* record_deposit, in the same commit: nothing if an entry refers to it already.
Post(t) == posted' = [posted EXCEPT ![t] = IF @ = 0 THEN 1 ELSE @]

CommitBtx(r) ==
    LET x == deal[r].tx
    IN  /\ \/ deal[r].stage = "lock" /\ deal[r].todo = <<>> /\ x.kind # "withdrawal" /\ Covered(x)
              /\ UNCHANGED balance
           \/ deal[r].stage = "credit"
              /\ balance' = [balance EXCEPT ![x.from] = Credited(view[r][x.from], x)]
        /\ wallet' = [u \in Users |-> WalletAfter(x, u)]
        /\ btx' = [btx EXCEPT ![deal[r].of].status = "approved"]
        /\ IF x.kind = "deposit" THEN Post(deal[r].of) ELSE UNCHANGED posted
        /\ DealDone(r)
        /\ UNCHANGED rate

\* A refused approval, a deadlock victim, an error or a crash.
AbortBtc(r) ==
    /\ deal[r].stage # "idle"
    /\ DealDone(r)
    /\ UNCHANGED <<balance, wallet, btx, posted, rate>>

BtcActivity ==
    \/ \E u \in Users : OpenWallet(u)
    \/ \E x \in Rates : SetRate(x)
    \/ \E t \in BtcTxs : RejectBtx(t)
    \/ \E r \in Threads :
          \/ \E u \in Users : \E x \in Submissions(u) : BeginDeal(r, u, x)
          \/ \E q \in Quotes : Quote(r, q)
          \/ \E t \in BtcTxs : InsertBtx(r, t)
          \/ \E u \in Admins, t \in BtcTxs : BeginBtcApproval(r, u, t)
          \/ LockWallet(r) \/ LockUser(r) \/ CommitBtx(r) \/ AbortBtc(r)

BtcSpec == AccountsInit /\ BtcInit /\ [][BtcActivity]_<<accountsVars, btcVars>>

-----------------------------------------------------------------------------
(* Properties. *)

\* Types, and that rows are locked only by approvals in work.
BtcTypeOK ==
    /\ wallet \in [Users -> Int \cup {NoWallet}]
    /\ btx \in [BtcTxs -> [kind : {"none", "deposit", "withdrawal", "transfer"}, amount : Int,
                          rate : Rates \cup {0}, from : Users \cup {None}, to : Users \cup {None},
                          status : {"absent", "pending", "approved", "rejected"}]]
    /\ posted \in [BtcTxs -> Nat]
    /\ rate \in Rates \cup {NoRate}
    /\ \A t \in BtcTxs : btxLock[t] # None => deal[btxLock[t]].of = t
    /\ \A u \in Users : walletLock[u] # None => deal[walletLock[u]].stage \in {"lock", "credit"}

Approved == {t \in BtcTxs : btx[t].status = "approved"}
Into(u) == {t \in Approved : btx[t].to = u}
OutOf(u) == {t \in Approved : btx[t].from = u}
Cashed(u) == {t \in OutOf(u) : btx[t].kind = "withdrawal"}

Paid == [t \in BtcTxs |-> btx[t].amount]
Moved(u) == SumFunctionOnSet(Paid, Into(u)) - SumFunctionOnSet(Paid, OutOf(u))

\* What negative amounts took out of a wallet they were sent to.
Taken(u) == SumFunctionOnSet(Paid, {t \in Into(u) : btx[t].amount < 0})

\* What withdrawals are worth at their rates, in kobo times Coin.
Earned(u) == SumFunctionOnSet([t \in BtcTxs |-> btx[t].amount * btx[t].rate], Cashed(u))

First(u) == IF OpeningWallet[u] = NoWallet THEN 0 ELSE OpeningWallet[u]

\* What a customer's balance has gained beyond what was earned, in kobo times Coin.
Gained(u) == Coin * (balance[u] - Opening[u]) - Earned(u)

\* However approvals, submissions and rate changes interleave, a wallet holds
\* what its approved transactions leave, and is below zero by no more than the
\* negative amounts sent to it took; a customer was credited for each withdrawal
\* once, at the rate it was submitted at, give or take the half kobo its column
\* rounds by; and the ledger has each approved deposit once and nothing else.
\* (An admin's own withdrawals are credited from the balance their session saw.)
BtcExplained ==
    /\ \A u \in Users :
          wallet[u] # NoWallet => wallet[u] = First(u) + Moved(u) /\ wallet[u] >= Taken(u)
    /\ \A u \in Customers :
          LET most == Coin * Cardinality(Cashed(u))
          IN  -most <= 2 * Gained(u) /\ 2 * Gained(u) <= most
    /\ \A t \in BtcTxs :
          posted[t] = IF t \in Approved /\ btx[t].kind = "deposit" THEN 1 ELSE 0
=============================================================================
