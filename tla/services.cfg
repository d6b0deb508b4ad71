SPECIFICATION ServicesSpec
CONSTANTS
    Users = {1, 2}
    Admins = {1}
    Threads = {r1, r2}
    None = None
    Opening <- MCOpening
    Sessions = {s1}
    Numbers = {n1, n2}
    MaxAuto = 2
    MaxTries = 3
    Saved = {p1}
    MaxSaved = 1
    Window = 2
    LastSecond = 3
    MaxMarks = 5
    Payments = {y1}
    MaxDeposits = 2
    BtcTxs = {b1, b2}
    Coin = 2
    Rates = {1, 4}
    BtcAmounts <- MCBtcAmounts
    NgnAmounts = {1}
    OpeningWallet <- MCWallets
    Cases = {a1, a2, a3}
CONSTRAINT OneDesk
CONSTRAINT OneSubmission
SYMMETRY Interchangeable
INVARIANT ServicesTypeOK
INVARIANT DepositedOnce
PROPERTY VerifiedStands
PROPERTY NumberStands
INVARIANT TapsApart
INVARIANT EveryDepositIsPaid
INVARIANT BtcExplained
INVARIANT DecisionsAgree
CHECK_DEADLOCK FALSE
