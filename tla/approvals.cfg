SPECIFICATION ApprovalsSpec
CONSTANTS
    Users = {1, 2, 3}
    Admins = {1}
    Threads = {r1, r2}
    None = None
    Opening <- MCOpening
    MaxTx = 3
    Amounts = {1}
    Legacy = {1}
    Backfillers = {r1}
CONSTRAINT LegacyOfOneCustomer
INVARIANT ApprovalsTypeOK
INVARIANT NoOverdraft
INVARIANT PostedOnce
INVARIANT LockedViewFresh
INVARIANT DeadlockShape
INVARIANT Reconciles
PROPERTY ImplementsSettlement
