SPECIFICATION BankSpec
CONSTANTS
    Users = {1, 2}
    Admins = {1}
    Threads = {r1, r2}
    None = None
    Opening <- MCOpening
    Wealth = 1
    MaxTx = 1
    Amounts = {1}
    Legacy = {}
    Backfillers = {}
    MaxPot = 1
    PotAmounts = {1}
    MaxActivePots = 1
    MaxLoan = 1
    Parts = 4
    Principals = {4}
    Repayments = {3, 4, 6}
    InterestPercent = 10
    MaxFd = 1
    FdPrincipals = {2}
    FdRates = {10}
CONSTRAINT OneProductAtATime
SYMMETRY ThreadSymmetry
INVARIANT BankTypeOK
INVARIANT NoOverdraft
INVARIANT PotsSound
INVARIANT DebtBounded
INVARIANT PaidByOne
PROPERTY LockedWritesExact
