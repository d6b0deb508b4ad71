---------------------------- MODULE MCScheduler -----------------------------
(* A recurring schedule and a one-off of another user.  Day 1 is the second *)
(* of a month of two days; the next month has one day, the one after two.   *)
EXTENDS Scheduler

CONSTANT First    \* the owners' thread used first

MCOwner == [s \in Schedules |-> s]
MCMonthEnds == {-1, 1, 2, 4, 6, 8}
MCPlans == [s \in Schedules |->
    IF s = 1
    THEN {[frequency |-> f, first |-> 1, end |-> 0] : f \in {"daily", "weekly", "monthly"}}
         \cup {[frequency |-> "daily", first |-> 1, end |-> 2]}
    ELSE {[frequency |-> "once", first |-> 1, end |-> 0]}]

\* Bound: the one-off, a second owner's request and the less usual plans are
\* explored one at a time.  It drops only steps of which no fairness is assumed.
OneAtATime ==
    LET usual     == sched[1].frequency \in {"once", "daily"} /\ sched[1].end = NoEnd
        oneOff    == sched[2].status # "absent"
        busy      == {c \in Clients : form[c].stage # "idle"}
        timerOnly == \A r \in Runners \ {Timer} : pass[r].stage = "idle"
    IN  /\ oneOff => usual /\ busy = {}
        /\ ~(busy \subseteq {First}) => usual /\ timerOnly
        /\ timerOnly \/ usual
=============================================================================
