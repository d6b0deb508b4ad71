SPECIFICATION PaystackSpec
CONSTANTS
    Users = {1}
    Admins = {}
    Threads = {r1, r2}
    None = None
    Opening <- MCOpening
    Payments = {y1}
    MaxDeposits = 2
INVARIANT OneDepositPerPayment
CHECK_DEADLOCK FALSE
