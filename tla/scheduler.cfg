SPECIFICATION SchedulerFairSpec
CONSTANTS
    Schedules = {1, 2}
    Owner <- MCOwner
    Runners = {timer, page}
    Timer = timer
    Clients = {c1, c2}
    None = None
    MaxPass = 2
    MaxOpen = 1
    Week = 2
    MonthEnds <- MCMonthEnds
    First = c1
    Plans <- MCPlans
    LastDay = 2
    MaxDeaths = 1
CONSTRAINT OneAtATime
INVARIANT SchedulerTypeOK
INVARIANT ClaimsExplained
INVARIANT MonthlyOnAnchor
PROPERTY ImplementsDispatch
PROPERTY StopsHold
PROPERTY DueTimesHandled
CHECK_DEADLOCK FALSE
