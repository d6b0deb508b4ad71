SPECIFICATION ReferralsSpec
CONSTANTS
    Users = {1, 2, 3}
    Admins = {1}
    Threads = {r1, r2}
    None = None
    Opening <- MCOpening
    MaxTx = 6
    Amounts = {2}
    Legacy = {}
    Backfillers = {}
    Referrer <- ChainReferrer
    Bonus = 3
    MinFirstDeposit = 2
    MaxRewards = 2
SYMMETRY ThreadSymmetry
CONSTRAINT NewcomerDeposits
INVARIANT ReferralsTypeOK
INVARIANT RewardOnce
INVARIANT RewardsIntact
INVARIANT BonusEarnsNothing
