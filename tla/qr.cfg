SPECIFICATION QrSpec
CONSTANTS
    Users = {1, 2}
    Admins = {1}
    Threads = {r1, r2}
    None = None
    Opening <- MCOpening
    MaxTx = 2
    Amounts = {1}
    Legacy = {}
    Backfillers = {}
    Asks = {q1}
    QrKeys = {k1, k2}
    MaxOpenAsks = 1
    DailyLimit = 1
    MaxPayment = 1
CONSTRAINT OnlyQr
SYMMETRY ThreadSymmetry
INVARIANT QrTypeOK
INVARIANT OnePaymentPerKey
INVARIANT DailyLimitKept
INVARIANT NoPaymentDeadlock
INVARIANT Reconciles
PROPERTY ClosedAsksStayClosed
