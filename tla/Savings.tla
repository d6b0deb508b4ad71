------------------------------ MODULE Savings -------------------------------
(***************************************************************************)
(* Save4Me: a user's own money moves between the wallet balance and named  *)
(* pots.  Every move locks the users row, then the pot, reloads both from  *)
(* the database, changes both and writes the movement in one commit.       *)
(***************************************************************************)
EXTENDS Accounts

CONSTANTS MaxPot,          \* bound: rows the savings_pots table may reach
          PotAmounts,      \* amounts a request may name
          MaxActivePots    \* MAX_ACTIVE_POTS

Pots == 1..MaxPot

ASSUME SavingsAssumption ==
    /\ MaxPot \in Nat
    /\ None \notin Pots
    /\ PotAmounts \subseteq Nat \ {0}
    /\ MaxActivePots \in Nat

VARIABLES pot,       \* the savings_pots table
          potLock,   \* which thread's transaction holds the pot's row
          moved,     \* savings_movements of a pot: in minus out
          aim        \* the pot a thread's request is about

savingsVars == <<pot, potLock, moved, aim>>

PotStatuses == {"absent", "active", "closed"}
PotRow == [owner : Users \cup {None}, saved : Int, status : PotStatuses]
NoPot == [owner |-> None, saved |-> 0, status |-> "absent"]

\* Variant: a pot in a status nobody asks for.
NewPotOpen(u) == [owner |-> u, saved |-> 0, status |-> "open"]
NewPot(u) == [owner |-> u, saved |-> 0, status |-> "active"]

MoveOps == {"pot_in", "pot_out", "pot_close"}

SavingsInit ==
    /\ AccountsInit
    /\ pot = [p \in Pots |-> NoPot]
    /\ potLock = [p \in Pots |-> None]
    /\ moved = [p \in Pots |-> 0]
    /\ aim = [r \in Threads |-> None]

ActivePots(u) == {p \in Pots : pot[p].owner = u /\ pot[p].status = "active"}

FreshPot(p) == /\ pot[p].status = "absent"
               /\ \A q \in Pots : q < p => pot[q].status # "absent"

-----------------------------------------------------------------------------
(* A new pot: the active ones are counted, then the row is inserted. *)

BeginCreatePot(r, u) ==
    /\ Begin(r, u, "pot_count")
    /\ UNCHANGED <<balance, lock, want, savingsVars>>

CountPots(r) ==
    /\ op[r] = "pot_count"
    /\ Cardinality(ActivePots(who[r])) < MaxActivePots
    /\ op' = [op EXCEPT ![r] = "pot_insert"]
    /\ UNCHANGED <<balance, lock, who, view, want, savingsVars>>

InsertPot(r) ==
    /\ op[r] = "pot_insert"
    /\ \E p \in Pots : FreshPot(p) /\ pot' = [pot EXCEPT ![p] = NewPot(who[r])]
    /\ Finish(r)
    /\ UNCHANGED <<balance, potLock, moved, aim>>

-----------------------------------------------------------------------------
(* Money in, money out, close. *)

BeginMove(r, u, p, o) ==
    /\ o \in MoveOps
    /\ Begin(r, u, o)
    /\ want' = [want EXCEPT ![r] = u]
    /\ aim' = [aim EXCEPT ![r] = p]
    /\ UNCHANGED <<balance, lock, pot, potLock, moved>>

\* Variant: the lock without populate_existing.
LockSaverStale(r) ==
    /\ op[r] \in MoveOps
    /\ LockRow(r, FALSE, None)
    /\ UNCHANGED savingsVars

\* _lock_user: FOR UPDATE with populate_existing.
LockSaver(r) ==
    /\ op[r] \in MoveOps
    /\ LockRow(r, TRUE, None)
    /\ UNCHANGED savingsVars

\* _lock_pot: only the user's own pot is found, and only an active one will do.
LockPot(r) ==
    /\ op[r] \in MoveOps
    /\ want[r] = None
    /\ aim[r] \in ActivePots(who[r])
    /\ potLock[aim[r]] = None
    /\ potLock' = [potLock EXCEPT ![aim[r]] = r]
    /\ UNCHANGED <<accountsVars, pot, moved, aim>>

\* The change of both rows, with its movement, and the commit.
Move(r, amount, status) ==
    LET p == aim[r]
        u == who[r]
    IN  /\ want[r] = None
        /\ potLock[p] = r
        /\ balance' = [balance EXCEPT ![u] = view[r][u] - amount]
        /\ pot' = [pot EXCEPT ![p].saved = @ + amount, ![p].status = status]
        /\ moved' = [moved EXCEPT ![p] = @ + amount]
        /\ potLock' = [potLock EXCEPT ![p] = None]
        /\ aim' = [aim EXCEPT ![r] = None]
        /\ Finish(r)

\* Variant: the wallet balance is not compared with the amount.
PutInUncovered(r) ==
    /\ op[r] = "pot_in"
    /\ aim[r] # None
    /\ \E a \in PotAmounts : Move(r, a, "active")

PutIn(r) ==
    /\ op[r] = "pot_in"
    /\ aim[r] # None
    /\ \E a \in PotAmounts : a <= view[r][who[r]] /\ Move(r, a, "active")

TakeOut(r) ==
    /\ op[r] = "pot_out"
    /\ aim[r] # None
    /\ \E a \in PotAmounts : a <= pot[aim[r]].saved /\ Move(r, 0 - a, "active")

\* Variant: the pot is closed with the money in it.
ClosePotFull(r) ==
    /\ op[r] = "pot_close"
    /\ aim[r] # None
    /\ Move(r, 0, "closed")

\* Whatever the pot holds goes back to the wallet.
ClosePot(r) ==
    /\ op[r] = "pot_close"
    /\ aim[r] # None
    /\ Move(r, 0 - pot[aim[r]].saved, "closed")

\* A refused request, an exception or a crash: 400, 404, 409 roll back too.
AbortSaving(r) ==
    /\ op[r] \in MoveOps \cup {"pot_count", "pot_insert"}
    /\ RollBack(r)
    /\ potLock' = [p \in Pots |-> IF potLock[p] = r THEN None ELSE potLock[p]]
    /\ aim' = [aim EXCEPT ![r] = None]
    /\ UNCHANGED <<pot, moved>>

SavingStep(r) ==
    \/ CountPots(r) \/ InsertPot(r)
    \/ LockPot(r) \/ PutIn(r) \/ TakeOut(r) \/ ClosePot(r)

SavingsActivity ==
    \E r \in Threads :
        \/ SavingStep(r) \/ LockSaver(r) \/ AbortSaving(r)
        \/ \E u \in Users :
              \/ BeginCreatePot(r, u)
              \/ \E p \in Pots, o \in MoveOps : BeginMove(r, u, p, o)

allSavingsVars == <<accountsVars, savingsVars>>

SavingsSpec == SavingsInit /\ [][SavingsActivity]_allSavingsVars

-----------------------------------------------------------------------------
SavingsOps == MoveOps \cup {"pot_count", "pot_insert"}

PotsTypeOK ==
    /\ pot \in [Pots -> PotRow]
    /\ potLock \in [Pots -> Threads \cup {None}]
    /\ moved \in [Pots -> Int]
    /\ aim \in [Threads -> Pots \cup {None}]

\* No pot is ever negative, a closed one is empty, and the movements of a pot
\* add up to what it holds.
PotsSound ==
    \A p \in Pots :
        /\ pot[p].saved >= 0
        /\ pot[p].status # "active" => pot[p].saved = 0
        /\ moved[p] = pot[p].saved
=============================================================================
