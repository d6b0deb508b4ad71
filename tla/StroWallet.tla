----------------------------- MODULE StroWallet -----------------------------
(***************************************************************************)
(* Bank transfers that reach the bank through StroWallet: a customer gets a *)
(* bank account number, StroWallet announces transfers to it by webhook    *)
(* (at least once, in any order), a background task asks StroWallet to     *)
(* confirm each one, and a confirmed one becomes one pending deposit.      *)
(*                                                                         *)
(* Deliveries, background tasks and an admin's retries of one event        *)
(* overlap: they read the event without a lock, and meet in guarded        *)
(* updates and in the row lock of the deposit step.  The process may die   *)
(* between any two commits; the next delivery or retry takes over.         *)
(***************************************************************************)
EXTENDS Accounts

CONSTANTS Sessions,   \* sessionIds of announced transfers
          Numbers,    \* account numbers StroWallet hands out
          MaxAuto,    \* MAX_AUTO_ATTEMPTS
          MaxTries    \* bound on the attempts of one event

ASSUME StroAssumption ==
    /\ None \notin Sessions \cup Numbers
    /\ MaxAuto \in Nat /\ MaxTries \in Nat

VARIABLES acct,    \* strowallet_accounts, one row per user
          event,   \* strowallet_webhook_events, one row per session
          real,    \* the transfers that really happened, as StroWallet knows
          task     \* the event a thread works on and what it has read of it

stroVars == <<acct, event, real, task>>

StroOps == {"provision", "stro_read", "stro_count", "stro_ask", "stro_deposit"}

NoAcct == [status |-> "none", number |-> None, live |-> FALSE]
NoEvent == [status |-> "absent", owner |-> None, attempts |-> 0, deposits |-> 0]
NoTask == [of |-> None, manual |-> FALSE, before |-> 0]

StroInit ==
    /\ acct = [u \in Users |-> NoAcct]
    /\ event = [e \in Sessions |-> NoEvent]
    /\ real \in SUBSET Sessions
    /\ task = [r \in Threads |-> NoTask]

\* The thread goes on to the next step of its task, or is done.
Turn(r, o) == op' = [op EXCEPT ![r] = o] /\ UNCHANGED <<balance, lock, view, want>>
Done(r) ==
    /\ Turn(r, "idle")
    /\ who' = [who EXCEPT ![r] = None]
    /\ task' = [task EXCEPT ![r] = NoTask]

-----------------------------------------------------------------------------
(* Getting an account number. *)

\* Variant: a suspended account does not stand in the way of another.
MayApplyAgain(u) == acct[u].status # "active"

\* Nothing stands in the way of a new application.  A pending one does for
\* PENDING_STALE_AFTER by the clock, which is no bound on the request behind it:
\* the provider's timeout is one for each read of its answer, and a process may
\* stall.  So a pending row may be applied for again while its request runs.
MayApply(u) == acct[u].status \notin {"active", "suspended"}

\* apply_for_account: under the row's lock (or the unique user_id) the row
\* becomes pending, in a commit of its own; the provider is called after it.
BeginApply(r, u, live) ==
    /\ op[r] = "idle"
    /\ MayApply(u)
    /\ acct' = [acct EXCEPT ![u] = [status |-> "pending", number |-> None, live |-> live]]
    /\ who' = [who EXCEPT ![r] = u]
    /\ Turn(r, "provision")
    /\ UNCHANGED <<event, real, task>>

\* StroWallet answers with a number: the row becomes active with it, whatever it
\* says by now, unless the unique index finds the number on another row.
FinishApply(r, n) ==
    LET u == who[r]
        taken == \E v \in Users \ {u} : acct[v].number = n
    IN  /\ op[r] = "provision"
        /\ acct' = [acct EXCEPT ![u].status = IF taken THEN "failed" ELSE "active",
                                ![u].number = IF taken THEN None ELSE n]
        /\ Done(r)
        /\ UNCHANGED <<event, real>>

\* A timeout, a rejection or a reply without a number: _fail, which leaves the
\* number of an earlier answer where it is.
FailApply(r) ==
    /\ op[r] = "provision"
    /\ acct' = [acct EXCEPT ![who[r]].status = "failed"]
    /\ Done(r)
    /\ UNCHANGED <<event, real>>

\* An operator suspends or reinstates an account in the database.
Suspend(u) ==
    /\ acct[u].status \in {"active", "suspended"}
    /\ acct' = [acct EXCEPT ![u].status = IF @ = "active" THEN "suspended" ELSE "active"]
    /\ UNCHANGED <<accountsVars, event, real, task>>

-----------------------------------------------------------------------------
(* The webhook. *)

AutoStates == {"received", "unverified"}
ManualStates == AutoStates \cup {"rejected"}
Allowed(r) == IF task[r].manual THEN ManualStates ELSE AutoStates
Processable == AutoStates \cup {"verified"}

Owners(n) == {u \in Users : acct[u].number = n}

\* record_event of a new session: what is unreadable or for nobody's active
\* account is stored all the same.
Recorded(n, good) ==
    LET who1 == Owners(n)
        ok   == good /\ \E u \in who1 : acct[u].status = "active"
    IN  [NoEvent EXCEPT !.status = IF ~good THEN "invalid" ELSE IF ok THEN "received" ELSE "unmatched",
                        !.owner = IF good /\ who1 # {} THEN CHOOSE u \in who1 : TRUE ELSE None]

\* A delivery: the unique session_id makes a repeat find the first copy.  The
\* thread goes on as the background task if the event is worth processing.
Deliver(r, e, n, good) ==
    LET row == IF event[e].status = "absent" THEN Recorded(n, good) ELSE event[e]
    IN  /\ op[r] = "idle"
        /\ event' = [event EXCEPT ![e] = row]
        /\ IF row.status \in Processable
           THEN Turn(r, "stro_read") /\ task' = [task EXCEPT ![r] = [NoTask EXCEPT !.of = e]]
           ELSE UNCHANGED <<balance, lock, view, want, op, task>>
        /\ UNCHANGED <<who, acct, real>>

\* An admin's retry.
Retry(r, e) ==
    /\ op[r] = "idle"
    /\ event[e].status # "absent"
    /\ Turn(r, "stro_read")
    /\ task' = [task EXCEPT ![r] = [of |-> e, manual |-> TRUE, before |-> 0]]
    /\ UNCHANGED <<who, acct, event, real>>

-----------------------------------------------------------------------------
(* Asking StroWallet. *)

\* verify_event reads the event without a lock.  One already verified goes on
\* to the deposit; one that may not be asked about is left alone.
ReadEvent(r) ==
    LET x == event[task[r].of]
        ask == x.status \in Allowed(r) /\ (task[r].manual \/ x.attempts < MaxAuto)
    IN  /\ op[r] = "stro_read"
        /\ \/ ask /\ Turn(r, "stro_count") /\ task' = [task EXCEPT ![r].before = x.attempts]
                  /\ UNCHANGED who
           \/ x.status = "verified" /\ Turn(r, "stro_deposit") /\ UNCHANGED <<task, who>>
           \/ ~ask /\ x.status # "verified" /\ Done(r)
        /\ UNCHANGED <<acct, event, real>>

\* Variant: the outcome is written whatever the event says by now.
MayFinishAlways(r) == TRUE

\* WHERE status IN (allowed): the guard of every write.
MayFinish(r) == event[task[r].of].status \in Allowed(r)

ActiveOwner(x) == x.owner # None /\ acct[x.owner].status = "active"

\* The account is checked again and the attempt is counted before the call.
CountAttempt(r) ==
    LET e == task[r].of
        x == event[e]
    IN  /\ op[r] = "stro_count"
        /\ ActiveOwner(x)
        /\ x.attempts < MaxTries
        /\ IF MayFinish(r)
           THEN /\ event' = [event EXCEPT ![e].attempts = @ + 1]
                /\ Turn(r, "stro_ask")
                /\ UNCHANGED <<task, who>>
           ELSE UNCHANGED event /\ Done(r)
        /\ UNCHANGED <<acct, real>>

\* It is not active any more.
Unmatch(r) ==
    LET e == task[r].of
    IN  /\ op[r] = "stro_count"
        /\ ~ActiveOwner(event[e])
        /\ event' = IF MayFinish(r) THEN [event EXCEPT ![e].status = "unmatched"] ELSE event
        /\ Done(r)
        /\ UNCHANGED <<acct, real>>

\* What a reply may look like, as far as interpret_verify_reply looks: whether its
\* body is the "Transaction received" with status 200, carries any word of failure,
\* and names the session and an amount of the webhook wherever it names one.
Replies == [http : {200, 400}, says : {"received", "other"}, failure : BOOLEAN, matches : BOOLEAN]

\* Variant: the amounts and the session in the reply are not compared.
ConfirmsAnyTransfer(p) == p.http = 200 /\ ~p.failure /\ p.says = "received"

\* interpret_verify_reply: nothing in the reply speaks against the transfer and it
\* is positive proof.
Confirms(p) == p.http = 200 /\ ~p.failure /\ p.matches /\ p.says = "received"

\* StroWallet's side of it (support ticket #1808): "received", with nothing about
\* another transfer and no failure beside it, is said of a transfer that happened.
\* Of any other reply nothing is known.
Honest(e, p) == p.says = "received" /\ p.matches /\ ~p.failure => e \in real

\* The answer's outcome: yes, or a no that is final once the attempts, as
\* counted from what was read, are used up.
Answered(r, p) ==
    LET e == task[r].of
        no == IF task[r].before + 1 >= MaxAuto THEN "rejected" ELSE "unverified"
    IN  /\ op[r] = "stro_ask"
        /\ Honest(e, p)
        /\ event' = IF MayFinish(r)
                    THEN [event EXCEPT ![e].status = IF Confirms(p) THEN "verified" ELSE no]
                    ELSE event
        /\ IF Confirms(p) /\ MayFinish(r)
           THEN Turn(r, "stro_deposit") /\ UNCHANGED <<task, who>>
           ELSE Done(r)
        /\ UNCHANGED <<acct, real>>

\* StroWallet cannot be reached: not an answer.
Unreachable(r) ==
    LET e == task[r].of
    IN  /\ op[r] = "stro_ask"
        /\ event' = IF MayFinish(r) THEN [event EXCEPT ![e].status = "unverified"] ELSE event
        /\ Done(r)
        /\ UNCHANGED <<acct, real>>

-----------------------------------------------------------------------------
(* The deposit. *)

\* Variant: the status found before the lock is trusted.
DepositWantedAsRead(x) == TRUE

DepositWanted(x) == x.status = "verified" /\ x.deposits = 0

\* create_pending_deposit: under the event's row lock, deposit and link in one
\* commit; held back ("verified" stays) while the account is not active and live.
CreateDeposit(r) ==
    LET e == task[r].of
        x == event[e]
    IN  /\ op[r] = "stro_deposit"
        /\ event' = IF DepositWanted(x) /\ ActiveOwner(x) /\ acct[x.owner].live
                    THEN [event EXCEPT ![e].status = "deposit_created", ![e].deposits = @ + 1]
                    ELSE event
        /\ Done(r)
        /\ UNCHANGED <<acct, real>>

\* An exception or a crash: the next delivery or retry takes over.
AbortStro(r) ==
    /\ op[r] \in StroOps
    /\ Done(r)
    /\ UNCHANGED <<acct, event, real>>

StroActivity ==
    \/ \E r \in Threads :
          \/ \E u \in Users, live \in BOOLEAN : BeginApply(r, u, live)
          \/ \E n \in Numbers : FinishApply(r, n)
          \/ FailApply(r)
          \/ \E e \in Sessions, n \in Numbers, good \in BOOLEAN : Deliver(r, e, n, good)
          \/ \E e \in Sessions : Retry(r, e)
          \/ ReadEvent(r) \/ CountAttempt(r) \/ Unmatch(r)
          \/ \E p \in Replies : Answered(r, p)
          \/ Unreachable(r)
          \/ CreateDeposit(r)
          \/ AbortStro(r)
    \/ \E u \in Users : Suspend(u)

StroSpec == AccountsInit /\ StroInit /\ [][StroActivity]_<<accountsVars, stroVars>>

-----------------------------------------------------------------------------
(* Properties. *)

\* Types of the accounts, the events and the tasks.
StroTypeOK ==
    /\ acct \in [Users -> [status : {"none", "pending", "active", "failed", "suspended"},
                           number : Numbers \cup {None}, live : BOOLEAN]]
    /\ event \in [Sessions ->
          [status : {"absent", "invalid", "unmatched", "received", "unverified", "rejected",
                     "verified", "deposit_created"},
           owner : Users \cup {None}, attempts : Nat, deposits : Nat]]
    /\ task \in [Threads -> [of : Sessions \cup {None}, manual : BOOLEAN, before : Nat]]
    /\ \A r \in Threads :
          op[r] \in StroOps => IF op[r] = "provision" THEN who[r] \in Users ELSE task[r].of \in Sessions

\* "Exactly-once": whatever is delivered twice, retried or cut short, a transfer
\* becomes at most one deposit, only if it really happened, and the event says so.
DepositedOnce ==
    \A e \in Sessions :
        /\ event[e].deposits = IF event[e].status = "deposit_created" THEN 1 ELSE 0
        /\ event[e].status \in {"verified", "deposit_created"} => e \in real

\* "Never moves a verified or deposit_created event, however many verifications
\* overlap".
VerifiedStands ==
    [][\A e \in Sessions :
          event[e].status \in {"verified", "deposit_created"} =>
              event'[e].status \in {event[e].status, "deposit_created"}]_event

\* The account is there and no application for it is under way.
Settled(u) ==
    /\ acct[u].status \in {"active", "suspended"}
    /\ \A r \in Threads : ~(op[r] = "provision" /\ who[r] = u)

\* However applications overlap, no two accounts share a number; and once every
\* request for an account is answered it stays an account, with its number.
\* (While requests overlap, a later answer replaces the number of an earlier one
\* and a later failure fails the account.)
NumberStands ==
    [][\A u \in Users :
          /\ acct'[u].number # None => \A v \in Users \ {u} : acct'[v].number # acct'[u].number
          /\ Settled(u) => Settled(u)' /\ acct'[u].number = acct[u].number]_<<acct, op, who>>
=============================================================================
