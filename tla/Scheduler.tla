----------------------------- MODULE Scheduler ------------------------------
(***************************************************************************)
(* Scheduled and recurring transfers.  Owners create, pause, resume and    *)
(* cancel schedules; passes run what is due: the timer every minute, an    *)
(* outside timer by an internal call, and a profile load for its own user. *)
(* A pass reads the due list once, then for each entry claims the due time *)
(* (compare-and-set of next_run_at and a unique run row, one commit),      *)
(* sends an ordinary pending transfer (its own commit) and records the     *)
(* outcome (a third commit).  The server may die anywhere in between.      *)
(*                                                                         *)
(* Time is counted in days; what a transfer does to money is module        *)
(* Approvals' business: here it is made, refused, or made and then lost to *)
(* an error.                                                               *)
(***************************************************************************)
EXTENDS Integers, FiniteSets

CONSTANTS Schedules,   \* ids of scheduled_transfers
          Owner,       \* the user of each schedule
          Runners,     \* threads that may run a pass
          Timer,       \* the one of the minute timer
          Clients,     \* threads of the owners' requests
          None,
          MaxPass,     \* MAX_RUNS_PER_PASS
          MaxOpen,     \* MAX_OPEN_SCHEDULES
          Week,        \* days of a week
          MonthEnds,   \* the days that are the last of their month
          Plans,       \* bound: what owners schedule, per schedule
          LastDay,     \* bound: the clock stops there
          MaxDeaths    \* bound on crashes

ASSUME SchedulerAssumption ==
    /\ Timer \in Runners
    /\ None \notin Schedules \cup Clients \cup Runners
    /\ MaxPass \in Nat \ {0} /\ MaxOpen \in Nat /\ Week \in Nat \ {0}
    /\ LastDay \in Nat \ {0} /\ MaxDeaths \in Nat
    /\ MonthEnds \subseteq Int
    /\ \E e \in MonthEnds : e < 1                            \* day 1 has a month before,
    /\ \E e, f \in MonthEnds : LastDay <= e /\ e < f         \* the last day's month one after
    /\ \A s \in Schedules : \A p \in Plans[s] :
         /\ p.frequency \in {"once", "daily", "weekly", "monthly"}
         /\ p.first \in 1..LastDay /\ p.end \in Nat

Days == 1..LastDay
Keys == Schedules \X Days      \* UNIQUE(schedule_id, due_at)
NoEnd == 0                     \* end_at is null

VARIABLES now,       \* the clock
          sched,     \* the rows of scheduled_transfers
          runs,      \* outcome of the run row of each due time, or "none"
          sent,      \* pending transfers made for each due time
          pass,      \* what each runner is doing
          form,      \* what each owner's request has read
          deaths

schedulerVars == <<now, sched, runs, sent, pass, form, deaths>>

Recurring == {"daily", "weekly", "monthly"}
Frequencies == Recurring \cup {"once"}
Statuses == {"absent", "active", "paused", "completed", "cancelled"}

NoRow == [status |-> "absent", next |-> 1, frequency |-> "once", anchor |-> 1, end |-> NoEnd]
IdlePass == [stage |-> "idle", at |-> 0, todo |-> {}, key |-> None, got |-> "none"]
IdleForm == [stage |-> "idle", of |-> None, write |-> NoRow, moved |-> FALSE]

SchedulerInit ==
    /\ now = 0
    /\ sched = [s \in Schedules |-> NoRow]
    /\ runs = [k \in Keys |-> "none"]
    /\ sent = [k \in Keys |-> 0]
    /\ pass = [r \in Runners |-> IdlePass]
    /\ form = [c \in Clients |-> IdleForm]
    /\ deaths = 0

-----------------------------------------------------------------------------
(* The calendar. *)

\* The last day of the month before day d, and of the month of day d.
MonthBefore(d) == LET E == {e \in MonthEnds : e < d}
                  IN  CHOOSE e \in E : \A f \in E : f <= e
MonthEndOf(d) == LET E == {e \in MonthEnds : e >= d}
                 IN  CHOOSE e \in E : \A f \in E : e <= f
DayOfMonth(d) == d - MonthBefore(d)

LesserOf(a, b) == IF a < b THEN a ELSE b

\* Variant: the anchor is the day of the previous run.
AdvanceFromPrevious(d, row) ==
    IF row.frequency = "daily" THEN d + 1
    ELSE IF row.frequency = "weekly" THEN d + Week
    ELSE LET first == MonthEndOf(d)
         IN  first + LesserOf(DayOfMonth(d), MonthEndOf(first + 1) - first)

\* The 31st becomes the last day of a shorter month, then the 31st again: the
\* anchor is kept, not the day of the previous run.
Advance(d, row) ==
    IF row.frequency = "daily" THEN d + 1
    ELSE IF row.frequency = "weekly" THEN d + Week
    ELSE LET first == MonthEndOf(d)
         IN  first + LesserOf(row.anchor, MonthEndOf(first + 1) - first)

\* _next_future: the first occurrence after time t; what lies between is skipped.
NextFuture(d, row, t) ==
    LET f[e \in Nat] == IF e > t THEN e ELSE f[Advance(e, row)]
    IN  f[Advance(d, row)]

-----------------------------------------------------------------------------
(* Owners. *)

Open(s) == sched[s].status \in {"active", "paused"}
OpenOf(u) == {s \in Schedules : Owner[s] = u /\ Open(s)}
Ended(row, next) == row.end # NoEnd /\ next > row.end

\* create: the open schedules are counted, without a lock.
BeginCreate(c, u, plan) ==
    /\ form[c].stage = "idle"
    /\ plan.first > now
    /\ plan.end # NoEnd => plan.frequency # "once" /\ plan.end > plan.first
    /\ Cardinality(OpenOf(u)) < MaxOpen
    /\ \E s \in Schedules : Owner[s] = u /\ sched[s].status = "absent"   \* bound
    /\ form' = [form EXCEPT ![c] =
                  [stage |-> "create", of |-> u, moved |-> FALSE,
                   write |-> [status |-> "active", next |-> plan.first, frequency |-> plan.frequency,
                              anchor |-> DayOfMonth(plan.first), end |-> plan.end]]]
    /\ UNCHANGED <<now, sched, runs, sent, pass, deaths>>

WriteCreate(c, s) ==
    /\ form[c].stage = "create"
    /\ Owner[s] = form[c].of
    /\ sched[s].status = "absent"
    /\ sched' = [sched EXCEPT ![s] = form[c].write]
    /\ form' = [form EXCEPT ![c] = IdleForm]
    /\ UNCHANGED <<now, runs, sent, pass, deaths>>

\* pause and cancel: one guarded UPDATE each, without effect when a pass or
\* another request was first.
Pause(s) ==
    /\ sched[s].status = "active"
    /\ sched' = [sched EXCEPT ![s].status = "paused"]
    /\ UNCHANGED <<now, runs, sent, pass, form, deaths>>

Cancel(s) ==
    /\ Open(s)
    /\ sched' = [sched EXCEPT ![s].status = "cancelled"]
    /\ UNCHANGED <<now, runs, sent, pass, form, deaths>>

\* Variant: whatever is not active may be resumed.
ResumableStopped(row) == row.status # "active" /\ row.status # "absent"

Resumable(row) == row.status = "paused"

\* resume: decided on the row as it is read here; a passed one-off is refused,
\* the times missed while paused are skipped.
BeginResume(c, s) ==
    LET row  == sched[s]
        next == IF row.next > now THEN row.next ELSE NextFuture(row.next, row, now)
    IN  /\ form[c].stage = "idle"
        /\ Resumable(row)
        /\ row.next > now \/ row.frequency # "once"
        /\ form' = [form EXCEPT ![c] =
                      [stage |-> "resume", of |-> s,
                       moved |-> next # row.next /\ ~Ended(row, next),
                       write |-> [row EXCEPT !.next = next,
                                  !.status = IF Ended(row, next) THEN "completed" ELSE "active"]]]
        /\ UNCHANGED <<now, sched, runs, sent, pass, deaths>>

\* The ORM writes the columns it changed, whatever the row says by now.
WriteResume(c) ==
    LET s == form[c].of
        w == form[c].write
    IN  /\ form[c].stage = "resume"
        /\ sched' = [sched EXCEPT ![s].status = w.status,
                                  ![s].next = IF form[c].moved THEN w.next ELSE @]
        /\ form' = [form EXCEPT ![c] = IdleForm]
        /\ UNCHANGED <<now, runs, sent, pass, deaths>>

\* The request ends without its commit.
AbandonForm(c) ==
    /\ form[c].stage # "idle"
    /\ form' = [form EXCEPT ![c] = IdleForm]
    /\ UNCHANGED <<now, sched, runs, sent, pass, deaths>>

-----------------------------------------------------------------------------
(* Passes. *)

\* Variant: only what is due today, not what was missed.
DueToday(s) == sched[s].status = "active" /\ sched[s].next = now

Due(s) == sched[s].status = "active" /\ sched[s].next <= now

\* run_due: the ids and due times of the earliest MaxPass due schedules, of
\* every user or of one.
BeginPass(r, scope) ==
    LET due == {s \in Schedules : Due(s) /\ Owner[s] \in scope}
    IN  /\ pass[r].stage = "idle"
        /\ due # {}
        /\ \E some \in SUBSET due :
             /\ Cardinality(some) = LesserOf(MaxPass, Cardinality(due))
             /\ \A s \in some, t \in due \ some : sched[s].next <= sched[t].next
             /\ pass' = [pass EXCEPT ![r] = [IdlePass EXCEPT
                            !.stage = "pass", !.at = now,
                            !.todo = {<<s, sched[s].next>> : s \in some}]]
        /\ UNCHANGED <<now, sched, runs, sent, form, deaths>>

Earliest(r) == {k \in pass[r].todo : \A j \in pass[r].todo : k[2] <= j[2]}

\* The row after its due time d is claimed by a pass that started at time t.
Moved(row, d, t) ==
    IF row.frequency = "once" THEN [row EXCEPT !.status = "completed"]
    ELSE LET next == NextFuture(d, row, t)
         IN  [row EXCEPT !.next = next,
                         !.status = IF Ended(row, next) THEN "completed" ELSE @]

\* Variant: the table has no unique constraint.
ClaimableTwice(k) ==
    /\ sched[k[1]].status = "active"
    /\ sched[k[1]].next = k[2]

\* Variant: the compare-and-set looks at the due time alone.
ClaimableStopped(k) ==
    /\ sched[k[1]].next = k[2]
    /\ runs[k] = "none"

\* The entry is still what the pass read, and nobody has run this due time.
Claimable(k) ==
    /\ sched[k[1]].status = "active"
    /\ sched[k[1]].next = k[2]
    /\ runs[k] = "none"

\* Variant: the pass does not remember the run row it inserted.
ClaimForgotten(r, k) ==
    /\ pass[r].stage = "pass"
    /\ k \in Earliest(r)
    /\ Claimable(k)
    /\ sched' = [sched EXCEPT ![k[1]] = Moved(@, k[2], pass[r].at)]
    /\ runs' = [runs EXCEPT ![k] = "claimed"]
    /\ pass' = [pass EXCEPT ![r].stage = "send", ![r].todo = @ \ {k}]
    /\ UNCHANGED <<now, sent, form, deaths>>

\* CLAIM: next_run_at moves on and the run row is inserted, in one commit.
Claim(r, k) ==
    /\ pass[r].stage = "pass"
    /\ k \in Earliest(r)
    /\ Claimable(k)
    /\ sched' = [sched EXCEPT ![k[1]] = Moved(@, k[2], pass[r].at)]
    /\ runs' = [runs EXCEPT ![k] = "claimed"]
    /\ pass' = [pass EXCEPT ![r].stage = "send", ![r].key = k, ![r].todo = @ \ {k}]
    /\ UNCHANGED <<now, sent, form, deaths>>

\* The entry changed since the list was read, or the unique run row exists
\* (IntegrityError): rolled back, the pass goes on with the next one.
Skip(r, k) ==
    /\ pass[r].stage = "pass"
    /\ k \in Earliest(r)
    /\ ~Claimable(k)
    /\ pass' = [pass EXCEPT ![r].todo = @ \ {k}]
    /\ UNCHANGED <<now, sched, runs, sent, form, deaths>>

\* Variant: an error other than a refusal leaves the pass unhandled.
SendUncaught(r, made, got) ==
    LET k == pass[r].key
    IN  /\ pass[r].stage = "send"
        /\ got = "created" => made
        /\ sent' = IF made THEN [sent EXCEPT ![k] = @ + 1] ELSE sent
        /\ pass' = [pass EXCEPT ![r] = IF made /\ got = "failed" THEN IdlePass
                                       ELSE [@ EXCEPT !.stage = "record", !.got = got]]
        /\ UNCHANGED <<now, sched, runs, form, deaths>>

\* SEND: the transfer service commits a pending transfer, or refuses it; an
\* error after its commit is reported as a failure though the transfer exists.
SendTransfer(r, made, got) ==
    LET k == pass[r].key
    IN  /\ pass[r].stage = "send"
        /\ got = "created" => made
        /\ sent' = IF made THEN [sent EXCEPT ![k] = @ + 1] ELSE sent
        /\ pass' = [pass EXCEPT ![r].stage = "record", ![r].got = got]
        /\ UNCHANGED <<now, sched, runs, form, deaths>>

\* The outcome is written to the run row.
RecordOutcome(r) ==
    /\ pass[r].stage = "record"
    /\ runs' = [runs EXCEPT ![pass[r].key] = pass[r].got]
    /\ pass' = [pass EXCEPT ![r].stage = "pass", ![r].key = None, ![r].got = "none"]
    /\ UNCHANGED <<now, sched, sent, form, deaths>>

EndPass(r) ==
    /\ pass[r].stage = "pass"
    /\ pass[r].todo = {}
    /\ pass' = [pass EXCEPT ![r] = IdlePass]
    /\ UNCHANGED <<now, sched, runs, sent, form, deaths>>

\* The process dies, or the database fails under the pass: what is committed
\* stays, the rest of the pass is forgotten.
Die(r) ==
    /\ pass[r].stage # "idle"
    /\ deaths < MaxDeaths
    /\ deaths' = deaths + 1
    /\ pass' = [pass EXCEPT ![r] = IdlePass]
    /\ UNCHANGED <<now, sched, runs, sent, form>>

Tick ==
    /\ now < LastDay
    /\ now' = now + 1
    /\ UNCHANGED <<sched, runs, sent, pass, form, deaths>>

-----------------------------------------------------------------------------
\* The timer's passes are over every user, a profile load's over its own; so is
\* the internal call's over every user, by whichever thread serves it.
Everybody == {Owner[s] : s \in Schedules}
Scopes(r) == {Everybody} \cup IF r = Timer THEN {} ELSE {{u} : u \in Everybody}

PassStep(r) ==
    \/ \E scope \in Scopes(r) : BeginPass(r, scope)
    \/ \E k \in pass[r].todo : Claim(r, k) \/ Skip(r, k)
    \/ \E made \in BOOLEAN, got \in {"created", "failed"} : SendTransfer(r, made, got)
    \/ RecordOutcome(r)
    \/ EndPass(r)

OwnerStep ==
    \/ \E c \in Clients :
         \/ \E s \in Schedules : \E plan \in Plans[s] : BeginCreate(c, Owner[s], plan)
         \/ \E s \in Schedules : WriteCreate(c, s) \/ BeginResume(c, s)
         \/ WriteResume(c)
         \/ AbandonForm(c)
    \/ \E s \in Schedules : Pause(s) \/ Cancel(s)

SchedulerNext ==
    \/ \E r \in Runners : PassStep(r) \/ Die(r)
    \/ OwnerStep
    \/ Tick

SchedulerSpec == SchedulerInit /\ [][SchedulerNext]_schedulerVars

\* Fairness: the timer loop starts a pass every minute whatever happened to
\* the last one, and a running pass goes on (or dies, at most MaxDeaths times).
\* Nothing is assumed of owners and profile loads.
SchedulerFairSpec == SchedulerSpec /\ WF_schedulerVars(PassStep(Timer))

-----------------------------------------------------------------------------
(* Properties. *)

\* Types of the rows, passes and requests.
SchedulerTypeOK ==
    /\ now \in 0..LastDay
    /\ sched \in [Schedules -> [status : Statuses, next : Nat, frequency : Frequencies,
                                anchor : Nat, end : Nat]]
    /\ runs \in [Keys -> {"none", "claimed", "created", "failed"}]
    /\ sent \in [Keys -> Nat]
    /\ \A r \in Runners :
         /\ pass[r].stage \in {"idle", "pass", "send", "record"}
         /\ pass[r].todo \subseteq Keys
         /\ pass[r].stage \in {"send", "record"} => pass[r].key \in Keys
         /\ pass[r].got \in {"none", "created", "failed"}
    /\ deaths \in 0..MaxDeaths

\* Each due time keeps the promises of Dispatch: "A due time is claimed by an
\* atomic compare-and-set ... it is never sent twice".
TheDispatch == INSTANCE Dispatch WITH
    Jobs <- Keys,
    state <- [k \in Keys |-> IF runs[k] = "none" THEN "open"
                             ELSE IF runs[k] = "claimed" THEN "taken" ELSE runs[k]],
    sent <- sent
ImplementsDispatch == TheDispatch!Spec

\* A run row that says "claimed" while no pass is at work on it is the trace of
\* a death: refusals and errors in a transfer are always recorded.
Abandoned == {k \in Keys : runs[k] = "claimed" /\ \A r \in Runners : pass[r].key # k}
ClaimsExplained == Cardinality(Abandoned) <= deaths

\* A monthly schedule never drifts: "31st -> 30th/28th, then back to 31st".
MonthlyOnAnchor == \A s \in Schedules :
    sched[s].frequency = "monthly" =>
        LET d == sched[s].next
        IN  DayOfMonth(d) = LesserOf(sched[s].anchor, MonthEndOf(d) - MonthBefore(d))

\* A schedule that is stopped, with no resume of it under way.
Quiet(s) ==
    /\ sched[s].status \in {"paused", "completed", "cancelled"}
    /\ \A c \in Clients : ~(form[c].stage = "resume" /\ form[c].of = s)

\* A stop holds: passes that listed the schedule before take no due time of it,
\* nothing but a new resume makes a paused one active, and nothing at all one
\* that is over.  Excepted is a resume that read the schedule before: it writes
\* "active" over a cancellation or an end.
StopsHold ==
    [][\A s \in Schedules : Quiet(s) =>
          /\ sched'[s].status # "active"
          /\ sched[s].status # "paused" => Quiet(s)' /\ sched'[s].status = sched[s].status
          /\ \A d \in Days : runs[<<s, d>>] = "none" => runs'[<<s, d>>] = "none"]_schedulerVars

\* An active schedule whose due time has come and was not run is taken up, or
\* changed by its owner.  Excepted: MaxPass schedules ahead of it that stay due
\* for ever, because two overlapping resumes put next_run_at back on a due time
\* that was already run.
Come(s, d) == sched[s].status = "active" /\ sched[s].next = d /\ d <= now
Waiting(s, d) == Come(s, d) /\ runs[<<s, d>>] = "none"
Stuck == {s \in Schedules : \E d \in Days : Come(s, d) /\ runs[<<s, d>>] # "none"}
DueTimesHandled == \A s \in Schedules, d \in Days :
    Waiting(s, d) ~> (~Waiting(s, d) \/ Cardinality(Stuck) >= MaxPass)
=============================================================================
