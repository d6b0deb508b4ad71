------------------------------ MODULE Accounts ------------------------------
(***************************************************************************)
(* The users table, its row locks, and the request threads that work on    *)
(* it.  Every money operation of the bank is built from the operators      *)
(* below: a request authenticates (loading its own users row into the ORM  *)
(* session), may take row locks with SELECT ... FOR UPDATE, and commits by *)
(* writing absolute balances computed from the rows its session has loaded.*)
(*                                                                         *)
(* The session never refreshes a row it already holds unless it is told to *)
(* (populate_existing, refresh): a locked row may therefore still be seen  *)
(* with the balance it had when the request started.                       *)
(***************************************************************************)
EXTENDS Integers, FiniteSets

CONSTANTS Users,      \* primary keys of the users table
          Admins,     \* the users whose role is "admin"
          Threads,    \* worker threads of the one server process
          None,       \* no row, no thread, no user
          Opening     \* users.balance when the model starts

ASSUME AccountsAssumption ==
    /\ Users \subseteq Nat
    /\ Admins \subseteq Users
    /\ None \notin Users \cup Threads
    /\ IsFiniteSet(Threads)
    /\ Opening \in [Users -> Nat]

VARIABLES balance,    \* committed users.balance, in kobo
          lock,       \* which thread's transaction holds the users row
          op,         \* what each thread is doing
          who,        \* current_user of the thread's request
          view,       \* balances in the thread's ORM identity map
          want        \* the users row the thread's next FOR UPDATE asks for

accountsVars == <<balance, lock, op, who, view, want>>

Customers == Users \ Admins

NotLoaded == -1
EmptyView == [u \in Users |-> NotLoaded]

AccountsInit ==
    /\ balance = Opening
    /\ lock = [u \in Users |-> None]
    /\ op = [r \in Threads |-> "idle"]
    /\ who = [r \in Threads |-> None]
    /\ view = [r \in Threads |-> EmptyView]
    /\ want = [r \in Threads |-> None]

-----------------------------------------------------------------------------
(* Steps of a request. *)

\* get_current_user: the request's own row is read, without a lock, and stays
\* in the session.
Begin(r, u, o) ==
    /\ op[r] = "idle"
    /\ op' = [op EXCEPT ![r] = o]
    /\ who' = [who EXCEPT ![r] = u]
    /\ view' = [view EXCEPT ![r] = [EmptyView EXCEPT ![u] = balance[u]]]

\* The rows a thread's commit or rollback leaves locked.
Released(r) == [u \in Users |-> IF lock[u] = r THEN None ELSE lock[u]]

\* FOR UPDATE waits for the row's holder.
Free(u) == lock[u] = None

\* SELECT ... FOR UPDATE of the wanted row; next is the row asked for after it.
\* A row the session already holds keeps its old balance unless refreshed.
LockRow(r, refresh, next) ==
    LET u == want[r]
    IN  /\ u # None
        /\ Free(u)
        /\ lock' = [lock EXCEPT ![u] = r]
        /\ view' = IF refresh \/ view[r][u] = NotLoaded
                   THEN [view EXCEPT ![r][u] = balance[u]]
                   ELSE view
        /\ want' = [want EXCEPT ![r] = next]
        /\ UNCHANGED <<balance, op, who>>

\* Variant: the session is not closed, its row locks stay.
FinishUnclosed(r) ==
    /\ lock' = lock
    /\ op' = [op EXCEPT ![r] = "idle"]
    /\ who' = [who EXCEPT ![r] = None]
    /\ view' = [view EXCEPT ![r] = EmptyView]
    /\ want' = [want EXCEPT ![r] = None]

\* The transaction is over (committed or rolled back) and so is the request:
\* row locks are released and the session is closed.
Finish(r) ==
    /\ lock' = Released(r)
    /\ op' = [op EXCEPT ![r] = "idle"]
    /\ who' = [who EXCEPT ![r] = None]
    /\ view' = [view EXCEPT ![r] = EmptyView]
    /\ want' = [want EXCEPT ![r] = None]

\* An exception, a refused request, a lost connection or a crash before the
\* commit: Postgres rolls the transaction back.
RollBack(r) ==
    /\ op[r] # "idle"
    /\ Finish(r)
    /\ UNCHANGED balance

-----------------------------------------------------------------------------
(* Waiting.  A thread waits for at most one row, so the threads of a        *)
(* deadlock are a set in which each waits for one and is waited for by one. *)

Holder(r) == IF want[r] = None THEN None ELSE lock[want[r]]

InCycle(r) ==
    \E C \in SUBSET Threads :
        /\ r \in C
        /\ \A s \in C : Holder(s) \in C /\ \E q \in C : Holder(q) = s

\* deadlock_timeout: Postgres aborts one transaction of the cycle and the
\* request ends with an error.
DeadlockVictim(r) == InCycle(r) /\ RollBack(r)

-----------------------------------------------------------------------------
AccountsTypeOK(Ops) ==
    /\ balance \in [Users -> Int]
    /\ lock \in [Users -> Threads \cup {None}]
    /\ op \in [Threads -> Ops \cup {"idle"}]
    /\ who \in [Threads -> Users \cup {None}]
    /\ view \in [Threads -> [Users -> Int]]
    /\ want \in [Threads -> Users \cup {None}]

\* No balance is ever negative: the table has no CHECK constraint, every debit
\* is guarded in Python only.
NoOverdraft == \A u \in Users : balance[u] >= 0
=============================================================================
