CONSTANTS
    alice = alice
    bob = bob
    cid1 = cid1
    cid2 = cid2
    data1 = data1
    Accounts <- MCAccounts
    Cids <- MCCids
    Data <- MCData
    MaxIpfsOwned = 2
    MaxU64 = 2
    MaxBlock = 3
    MaxQueue = 1
SPECIFICATION Spec
SYMMETRY Symmetry
INVARIANTS
    CountCoversAssets
    OwnersNonEmpty
PROPERTIES
    OwnerlessIsFrozen
    
