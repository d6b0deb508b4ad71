SPECIFICATION LoansSpec
CONSTANTS
    Users = {1, 2}
    Admins = {1}
    Threads = {r1, r2}
    None = None
    Opening <- MCOpening
    MaxLoan = 1
    Parts = 2
    Principals = {100}
    Repayments = {9, 100}
    InterestPercent = 10
PROPERTY OutstandingDecreases
