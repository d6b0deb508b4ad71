SPECIFICATION BankSpec
CONSTANTS
    Users = {1, 2}
    Admins = {1}
    Threads = {r1, r2}
    None = None
    Opening <- MCOpening
    Wealth = 60
    MaxTx = 2
    Amounts = {60}
    Legacy = {}
    Backfillers = {}
    MaxPot = 2
    PotAmounts = {30, 60}
    MaxActivePots = 2
    MaxLoan = 2
    Parts = 10
    Principals = {254}
    Repayments = {84, 205}
    InterestPercent = 10
    MaxFd = 1
    FdPrincipals = {255}
    FdRates = {10}
CONSTRAINT WritersApart
SYMMETRY ThreadSymmetry
INVARIANT BalancesExplained
