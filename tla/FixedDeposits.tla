--------------------------- MODULE FixedDeposits ----------------------------
(***************************************************************************)
(* Fixed deposits: money is taken from the wallet for a term and comes     *)
(* back with interest the first time the owner's profile or balance is     *)
(* loaded after the term.  Neither handler locks the users row; the payout *)
(* locks the matured deposits.                                             *)
(***************************************************************************)
EXTENDS Accounts, Money

CONSTANTS MaxFd,        \* bound: rows the fixed_deposits table may reach
          FdPrincipals, \* principals a customer may lock away, in parts of a kobo
          FdRates       \* the rates of RATE_BY_TERM, in percent

FdIds == 1..MaxFd

ASSUME FixedDepositsAssumption ==
    /\ MaxFd \in Nat
    /\ None \notin FdIds
    /\ FdPrincipals \subseteq Nat \ {0}
    /\ FdRates \subseteq Nat

VARIABLES fd,       \* the fixed_deposits table
          due,      \* the deposits whose matures_at has passed
          fdLock,   \* which thread's transaction holds the deposit's row
          todo,     \* matured deposits a thread's SELECT has still to lock
          paying    \* deposits a thread has locked and credited in its session

fdVars == <<fd, due, fdLock, todo, paying>>

FdStatuses == {"absent", "active", "matured"}
FdRow == [owner : Users \cup {None}, principal : Nat, payout : Nat, status : FdStatuses]
NoFd == [owner |-> None, principal |-> 0, payout |-> 0, status |-> "absent"]

\* principal * (1 + rate / 100), computed on the principal as it was named.
Payout(principal, rate) == Nearest(principal * (100 + rate), 100 * Parts)

FixedDepositsInit ==
    /\ AccountsInit
    /\ fd = [f \in FdIds |-> NoFd]
    /\ due = {}
    /\ fdLock = [f \in FdIds |-> None]
    /\ todo = [r \in Threads |-> {}]
    /\ paying = [r \in Threads |-> {}]

FreshFd(f) == /\ fd[f].status = "absent"
              /\ \A g \in FdIds : g < f => fd[g].status # "absent"

-----------------------------------------------------------------------------
\* Time passes the term of a deposit.
Mature(f) ==
    /\ fd[f].status = "active"
    /\ f \notin due
    /\ due' = due \cup {f}
    /\ UNCHANGED <<accountsVars, fd, fdLock, todo, paying>>

BeginOpen(r, u) ==
    /\ Begin(r, u, "fd_open")
    /\ UNCHANGED <<balance, lock, want, fdVars>>

\* create_fixed_deposit: checked and computed on the session's balance, written
\* once no one holds the users row.  The balance, the principal and the payout
\* are rounded each on its own.
CommitOpen(r) ==
    LET u == who[r]
    IN  /\ op[r] = "fd_open"
        /\ lock[u] = None
        /\ \E f \in FdIds, p \in FdPrincipals, rate \in FdRates :
              /\ FreshFd(f)
              /\ Within(p, view[r][u])
              /\ balance' = [balance EXCEPT ![u] = Less(view[r][u], p)]
              /\ fd' = [fd EXCEPT ![f] = [owner |-> u, principal |-> Stored(p),
                           payout |-> Payout(p, rate), status |-> "active"]]
        /\ Finish(r)
        /\ UNCHANGED <<due, fdLock, todo, paying>>

BeginProfile(r, u) ==
    /\ Begin(r, u, "fd_profile")
    /\ UNCHANGED <<balance, lock, want, fdVars>>

\* The SELECT ... FOR UPDATE starts: the rows its snapshot selects.
SelectMatured(r) ==
    /\ op[r] = "fd_profile"
    /\ op' = [op EXCEPT ![r] = "fd_payout"]
    /\ todo' = [todo EXCEPT ![r] =
          {f \in due : fd[f].owner = who[r] /\ fd[f].status = "active"}]
    /\ UNCHANGED <<balance, lock, who, view, want, fd, due, fdLock, paying>>

\* Variant: the SELECT takes no lock.
FdFreeAlways(f) == TRUE
FdFree(f) == fdLock[f] = None

\* Each row in turn is locked, waiting for its holder, and kept if it is still
\* active then; the session adds its payout to the balance it loaded.
ClaimNext(r) ==
    \E f \in todo[r] :
        /\ \A g \in todo[r] : f <= g
        /\ FdFree(f)
        /\ todo' = [todo EXCEPT ![r] = @ \ {f}]
        /\ IF fd[f].status = "active"
           THEN /\ fdLock' = [fdLock EXCEPT ![f] = r]
                /\ paying' = [paying EXCEPT ![r] = @ \cup {f}]
                /\ view' = [view EXCEPT ![r][who[r]] = @ + fd[f].payout]
           ELSE UNCHANGED <<fdLock, paying, view>>
        /\ UNCHANGED <<balance, lock, op, who, want, fd, due>>

ReleasedFds(r) == [f \in FdIds |-> IF fdLock[f] = r THEN None ELSE fdLock[f]]

\* Nothing matured: the handler returns without writing.
NothingMatured(r) ==
    /\ op[r] = "fd_payout"
    /\ todo[r] = {}
    /\ paying[r] = {}
    /\ Finish(r)
    /\ UNCHANGED <<balance, fdVars>>

CommitPayout(r) ==
    LET u == who[r]
    IN  /\ op[r] = "fd_payout"
        /\ todo[r] = {}
        /\ paying[r] # {}
        /\ lock[u] = None
        /\ balance' = [balance EXCEPT ![u] = view[r][u]]
        /\ fd' = [f \in FdIds |-> IF f \in paying[r]
                                  THEN [fd[f] EXCEPT !.status = "matured"] ELSE fd[f]]
        /\ paying' = [paying EXCEPT ![r] = {}]
        /\ fdLock' = ReleasedFds(r)
        /\ Finish(r)
        /\ UNCHANGED <<due, todo>>

\* A refused request, an exception or a crash.
AbortFd(r) ==
    /\ op[r] \in {"fd_open", "fd_profile", "fd_payout"}
    /\ RollBack(r)
    /\ fdLock' = ReleasedFds(r)
    /\ todo' = [todo EXCEPT ![r] = {}]
    /\ paying' = [paying EXCEPT ![r] = {}]
    /\ UNCHANGED <<fd, due>>

FdStep(r) ==
    \/ CommitOpen(r) \/ SelectMatured(r) \/ ClaimNext(r)
    \/ NothingMatured(r) \/ CommitPayout(r)

FixedDepositsActivity ==
    \/ \E r \in Threads :
          \/ FdStep(r) \/ AbortFd(r)
          \/ \E u \in Users : BeginOpen(r, u) \/ BeginProfile(r, u)
    \/ \E f \in FdIds : Mature(f)

allFdVars == <<accountsVars, fdVars>>

FixedDepositsSpec == FixedDepositsInit /\ [][FixedDepositsActivity]_allFdVars

-----------------------------------------------------------------------------
FdOps == {"fd_open", "fd_profile", "fd_payout"}

FdTypeOK ==
    /\ fd \in [FdIds -> FdRow]
    /\ due \subseteq FdIds
    /\ fdLock \in [FdIds -> Threads \cup {None}]
    /\ todo \in [Threads -> SUBSET FdIds]
    /\ paying \in [Threads -> SUBSET FdIds]

\* A deposit is being paid by one request at a time, only after its term, and
\* a paid one is never picked up again.
PaidByOne ==
    \A f \in FdIds :
        /\ \A r, s \in Threads : f \in paying[r] /\ f \in paying[s] => r = s
        /\ \A r \in Threads : f \in paying[r] => fd[f].status = "active"
        /\ fd[f].status = "matured" \/ (\E r \in Threads : f \in paying[r]) => f \in due
=============================================================================
