SPECIFICATION SysSpec
CONSTANTS
    alice = alice
    bob = bob
    cid1 = cid1
    data1 = data1
    node1 = node1
    node2 = node2
    Accounts = {alice}
    Cids = {cid1}
    Data = {}
    MaxIpfsOwned = 2
    MaxU64 = 2
    MaxBlock = 4
    MaxIssued = 3
    MaxQueue = 1
    Nodes = {node1, node2}
    CidOf <- RawCid
INVARIANT CntIsNumberOfAssets
CHECK_DEADLOCK FALSE
