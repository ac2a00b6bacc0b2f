SPECIFICATION FairSpec
CONSTANTS
    remark = remark
    members = members
    disapprove = disapprove
    token = token
    None = None
    Accounts = {1, 2}
    Motions = {remark, disapprove, token}
    Tokens = {0, 1}
    Balances = {0, 9}
    Genesis <- MCGenesis
    SetMembersOf <- NoSetMembers
    DisapproveOf <- MCDisapproveOf
    SetTokenOf <- MCSetTokenOf
    Thresholds = {1, 2}
    MaxProposals = 2
    MotionDuration = 1
    U32 = 65536
    MaxBlock = 1
    MaxCount = 1
 
PROPERTY EveryMotionDecided
