SPECIFICATION SysFairSpec
CONSTANTS
    alice = alice
    bob = bob
    cid1 = cid1
    data1 = data1
    node1 = node1
    node2 = node2
    Accounts = {alice, bob}
    Cids = {cid1}
    Data = {}
    MaxIpfsOwned = 1
    MaxU64 = 2
    MaxBlock = 3
    MaxIssued = 2
    MaxQueue = 2
    Nodes = {node1}
    CidOf <- RawCid
INVARIANT ResultsWereServed
 
INVARIANT CommandsOffered
PROPERTY OwnersReplacedByAdd
PROPERTY WorkersEnd
CHECK_DEADLOCK FALSE
