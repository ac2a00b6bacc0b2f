SPECIFICATION Spec
CONSTANTS
    remark = remark
    members = members
    disapprove = disapprove
    token = token
    None = None
    Accounts = {1, 2, 3}
    Motions = {remark, members, disapprove}
    Tokens = {0}
    Balances = {4}
    Genesis <- MCGenesis
    SetMembersOf <- MCSetMembersOf
    DisapproveOf <- MCDisapproveOf
    SetTokenOf <- NoSetToken
    Thresholds = {1, 2}
    MaxProposals = 2
    MotionDuration = 1
    U32 = 65536
    MaxBlock = 1
    MaxCount = 3
INVARIANT TypeOK
INVARIANT VotesAligned
 
INVARIANT ProposalsConsistent
INVARIANT NoMotionLost
 
