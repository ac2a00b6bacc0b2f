SPECIFICATION Spec
CONSTANTS
    remark = remark
    members = members
    disapprove = disapprove
    token = token
    None = None
    Accounts = {1, 2}
    Motions = {remark}
    Tokens = {0}
    Balances = {9}
    Genesis <- MCGenesis
    SetMembersOf <- NoSetMembers
    DisapproveOf <- NoDisapprove
    SetTokenOf <- NoSetToken
    Thresholds = {2}
    MaxProposals = 2
    MotionDuration = 1
    U32 = 65536
    MaxBlock = 1
    MaxCount = 1
PROPERTY ThresholdNeeded
