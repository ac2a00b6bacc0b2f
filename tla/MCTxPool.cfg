SPECIFICATION Spec
CONSTANTS
    a0 = a0
    a1x = a1x
    a1 = a1
    a2 = a2
    Txs = {a0, a1, a1x, a2}
    Provides <- MCProvides
    Requires <- MCRequires
    Priority <- MCPriority
    ValidTill <- MCValidTill
    Orders <- MCOrders
    MaxPriority = 2
    ReadyLimit = 2
    FutureLimit = 1
    MaxBlock = 2
    MaxBlockTxs = 2
    MaxTasks = 1
INVARIANTS
    PoolIndexed
    FutureWaits
    
CHECK_DEADLOCK FALSE
