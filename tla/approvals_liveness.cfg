SPECIFICATION ApprovalsFairSpec
CONSTANTS
    Users = {1, 2}
    Admins = {1}
    Threads = {r1, r2}
    None = None
    Opening <- MCOpening
    MaxTx = 2
    Amounts = {1}
    Legacy = {}
    Backfillers = {r1}
INVARIANT ApprovalsInv
PROPERTY Responds
