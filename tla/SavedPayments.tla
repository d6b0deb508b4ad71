--------------------------- MODULE SavedPayments ----------------------------
(***************************************************************************)
(* Saved payments: a transfer its owner repeats with one tap.  A tap takes *)
(* the row lock, reads the clock, refuses when the last stamp is younger   *)
(* than DOUBLE_TAP_SECONDS, stamps the row and commits, and only then asks *)
(* for an ordinary pending transfer; when that fails the stamp it found is *)
(* put back, so that the owner may try again at once.                      *)
(***************************************************************************)
EXTENDS Accounts, Sequences

CONSTANTS Saved,       \* ids of saved_payments
          MaxSaved,    \* MAX_SAVED_PER_USER
          Window,      \* DOUBLE_TAP_SECONDS
          LastSecond,  \* bound: the clock stops there
          MaxMarks     \* bound on the stamps and undos of one row

ASSUME SavedAssumption ==
    /\ None \notin Saved
    /\ MaxSaved \in Nat /\ Window \in Nat /\ LastSecond \in Nat /\ MaxMarks \in Nat

VARIABLES clock,
          saved,      \* the rows
          savedLock,  \* the thread that holds a row
          tap,        \* what each thread is doing
          marks       \* history: the stamps and undos of each row, in commit order

savedVars == <<clock, saved, savedLock, tap, marks>>

Never == -1
NoSaved == [status |-> "absent", owner |-> None, last |-> Never]
NoTap == [stage |-> "idle", of |-> None, user |-> None, at |-> Never, last |-> Never]

SavedInit ==
    /\ clock = 0
    /\ saved = [s \in Saved |-> NoSaved]
    /\ savedLock = [s \in Saved |-> None]
    /\ tap = [r \in Threads |-> NoTap]
    /\ marks = [s \in Saved |-> <<>>]

Kept(s) == saved[s].status = "kept"

\* Variant: the session is not closed, its row lock stays.
LockKept(s) == savedLock

Unlocked(s) == [savedLock EXCEPT ![s] = None]
Mark(s, k, t) == [marks EXCEPT ![s] = Append(@, [kind |-> k, at |-> t])]

\* create_saved: the owner's rows are counted, without a lock, then one is added.
BeginSave(r, u) ==
    /\ tap[r].stage = "idle"
    /\ Cardinality({s \in Saved : Kept(s) /\ saved[s].owner = u}) < MaxSaved
    /\ tap' = [tap EXCEPT ![r] = [NoTap EXCEPT !.stage = "save", !.user = u]]
    /\ UNCHANGED <<clock, saved, savedLock, marks>>

WriteSave(r, s) ==
    /\ tap[r].stage = "save"
    /\ saved[s].status = "absent"
    /\ saved' = [saved EXCEPT ![s] = [status |-> "kept", owner |-> tap[r].user, last |-> Never]]
    /\ tap' = [tap EXCEPT ![r] = NoTap]
    /\ UNCHANGED <<clock, savedLock, marks>>

\* Variant: the row is read without FOR UPDATE.
RowUnlocked(s) == TRUE

\* FOR UPDATE, and any UPDATE of the row, waits for its holder.
RowFree(s) == savedLock[s] = None

\* delete_saved: locked, deleted and committed; it waits for nothing in between.
DeleteSaved(s) ==
    /\ Kept(s) /\ RowFree(s)
    /\ saved' = [saved EXCEPT ![s].status = "deleted"]
    /\ UNCHANGED <<clock, savedLock, tap, marks>>

\* pay_saved: the row is locked and read ...
LockTap(r, s) ==
    /\ tap[r].stage = "idle"
    /\ Kept(s) /\ RowFree(s)
    /\ savedLock' = [savedLock EXCEPT ![s] = r]
    /\ tap' = [tap EXCEPT ![r] = [NoTap EXCEPT !.stage = "locked", !.of = s, !.last = saved[s].last]]
    /\ UNCHANGED <<clock, saved, marks>>

\* ... then the clock; a second tap within the window is refused.
ReadClock(r) ==
    /\ tap[r].stage = "locked"
    /\ IF tap[r].last # Never /\ clock - tap[r].last < Window
       THEN tap' = [tap EXCEPT ![r] = NoTap] /\ savedLock' = Unlocked(tap[r].of)
       ELSE tap' = [tap EXCEPT ![r].stage = "stamp", ![r].at = clock] /\ UNCHANGED savedLock
    /\ UNCHANGED <<clock, saved, marks>>

\* The stamp is committed before the transfer is asked for.
StampTap(r) ==
    LET s == tap[r].of
    IN  /\ tap[r].stage = "stamp"
        /\ Len(marks[s]) < MaxMarks
        /\ saved' = [saved EXCEPT ![s].last = tap[r].at]
        /\ savedLock' = Unlocked(s)
        /\ marks' = Mark(s, "stamp", tap[r].at)
        /\ tap' = [tap EXCEPT ![r].stage = "send"]
        /\ UNCHANGED clock

\* The transfer service makes a pending transfer, or raises (which it may also
\* do after its commit).
SendTap(r, raised) ==
    /\ tap[r].stage = "send"
    /\ tap' = [tap EXCEPT ![r] = IF raised THEN [@ EXCEPT !.stage = "undo"] ELSE NoTap]
    /\ UNCHANGED <<clock, saved, savedLock, marks>>

\* The stamp found at the start is put back, whatever the row says by now.
UndoStamp(r) ==
    LET s == tap[r].of
    IN  /\ tap[r].stage = "undo"
        /\ RowFree(s)
        /\ Len(marks[s]) < MaxMarks
        /\ saved' = IF Kept(s) THEN [saved EXCEPT ![s].last = tap[r].last] ELSE saved
        /\ marks' = Mark(s, "undo", clock)
        /\ tap' = [tap EXCEPT ![r] = NoTap]
        /\ UNCHANGED <<clock, savedLock>>

\* A crash or a database error: the lock goes, what is committed stays.
AbortTap(r) ==
    /\ tap[r].stage # "idle"
    /\ tap' = [tap EXCEPT ![r] = NoTap]
    /\ savedLock' = [s \in Saved |-> IF savedLock[s] = r THEN None ELSE savedLock[s]]
    /\ UNCHANGED <<clock, saved, marks>>

Second ==
    /\ clock < LastSecond
    /\ clock' = clock + 1
    /\ UNCHANGED <<saved, savedLock, tap, marks>>

SavedActivity ==
    /\ \/ \E r \in Threads :
             \/ \E u \in Users : BeginSave(r, u)
             \/ \E s \in Saved : WriteSave(r, s) \/ LockTap(r, s)
             \/ ReadClock(r) \/ StampTap(r) \/ UndoStamp(r) \/ AbortTap(r)
             \/ \E raised \in BOOLEAN : SendTap(r, raised)
       \/ \E s \in Saved : DeleteSaved(s)
       \/ Second
    /\ UNCHANGED accountsVars

SavedSpec == SavedInit /\ [][SavedActivity]_savedVars

-----------------------------------------------------------------------------
(* Properties. *)

\* Types, and that a row lock is held by a tap that has not committed yet.
SavedTypeOK ==
    /\ clock \in 0..LastSecond
    /\ saved \in [Saved -> [status : {"absent", "kept", "deleted"}, owner : Users \cup {None},
                           last : 0..LastSecond \cup {Never}]]
    /\ \A r \in Threads :
          tap[r].stage \in {"idle", "save", "locked", "stamp", "send", "undo"}
    /\ \A s \in Saved : savedLock[s] # None =>
          tap[savedLock[s]].of = s /\ tap[savedLock[s]].stage \in {"locked", "stamp"}

\* "Two taps at once are handled one after the other ... A second tap that
\* arrives meanwhile finds the fresh stamp and is refused": two stamps of a row
\* are a window apart, unless a failed transfer put an older stamp back between
\* them (also one that was slow, and wiped the stamp of a later tap).
TapsApart ==
    \A s \in Saved : \A i \in 1..(Len(marks[s]) - 1) :
        marks[s][i].kind = "stamp" /\ marks[s][i + 1].kind = "stamp" =>
            marks[s][i + 1].at - marks[s][i].at >= Window
=============================================================================
