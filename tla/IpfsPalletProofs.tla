-------------------------- MODULE IpfsPalletProofs --------------------------
(* Theorems about pallet-ipfs, for every set of accounts and cids and every bound. *)
EXTENDS IpfsPallet, FiniteSetTheorems, TLAPS

-----------------------------------------------------------------------------
\* What the storage helpers return.

\* push and swap_remove keep a list of cids a list of cids within the bound.
LEMMA SwapRemoveType ==
    ASSUME NEW S, NEW vec \in Seq(S), NEW x
    PROVE  /\ SwapRemoveFirst(vec, x) \in Seq(S)
           /\ Len(SwapRemoveFirst(vec, x)) <= Len(vec)
<1>1. CASE ~Has(vec, x)
  BY <1>1 DEF SwapRemoveFirst
<1>2. CASE Has(vec, x)
  <2> DEFINE p == Position(vec, x)
             n == Len(vec)
             out == [j \in 1 .. n - 1 |-> IF j = p THEN vec[n] ELSE vec[j]]
  <2>1. n \in Nat \ {0}
    BY <1>2 DEF Has, Elements
  <2>2. \A j \in 1 .. n - 1 : (IF j = p THEN vec[n] ELSE vec[j]) \in S
    BY <2>1
  <2>3. out \in [1 .. n - 1 -> S]
    BY <2>2
  <2>4. out \in Seq(S) /\ Len(out) = n - 1
    BY <2>1, <2>3
  <2>5. SwapRemoveFirst(vec, x) = out
    BY <1>2 DEF SwapRemoveFirst, SwapRemove
  <2> QED
    BY <2>1, <2>4, <2>5
<1> QED
  BY <1>1, <1>2

\* insert and remove on an owners map give an owners map.
LEMMA OwnersType ==
    ASSUME NEW own \in Owners, NEW a \in Accounts, NEW layer \in Layers
    PROVE  Insert(own, a, layer) \in Owners /\ RemoveKey(own, a) \in Owners
<1>1. PICK A \in SUBSET Accounts : own \in [A -> Layers]
  BY DEF Owners
<1>2. Insert(own, a, layer) \in [A \cup {a} -> Layers]
  BY <1>1 DEF Insert
<1>3. RemoveKey(own, a) \in [A \ {a} -> Layers]
  BY <1>1 DEF RemoveKey
<1> QED
  BY <1>2, <1>3 DEF Owners

\* The asset that an add result creates is a record of the map.
LEMMA NewAssetType ==
    ASSUME NEW admin \in Accounts
    PROVE  NewAsset(admin) \in Ipfs
<1>1. [a \in {admin} |-> "Owner"] \in [{admin} -> Layers]
  BY DEF Layers
<1>2. {admin} \in SUBSET Accounts
  OBVIOUS
<1>3. [a \in {admin} |-> "Owner"] \in Owners
  BY <1>1, <1>2, Zenon DEF Owners
<1> QED
  BY <1>3 DEF NewAsset, Asset, Ipfs

\* A queued command is a DataCommand.
LEMMA EnqueueType ==
    ASSUME TypeOK, NEW cmds \in Seq(DataCommand), Enqueue(cmds)
    PROVE  TypeOK'
<1>1. DataQueue \o cmds \in Seq(DataCommand)
  BY DEF TypeOK
<1> QED
  BY <1>1 DEF Enqueue, TypeOK

\* A step that writes the owners and the list of one account keeps the types.
LEMMA SetLayerType ==
    ASSUME TypeOK, NEW cid \in Cids, Exists(cid), NEW acct \in Accounts,
           NEW layer \in Layers, SetLayer(cid, acct, layer)
    PROVE  TypeOK'
<1>1. IpfsAsset[cid] \in Ipfs /\ IpfsAsset[cid].owners \in Owners
  BY DEF TypeOK, Exists, Ipfs, Asset
<1>2. Insert(IpfsAsset[cid].owners, acct, layer) \in Owners
  BY <1>1, OwnersType
<1>3. IpfsAsset' \in [DOMAIN IpfsAsset -> Ipfs] /\ DOMAIN IpfsAsset' = DOMAIN IpfsAsset
  BY <1>1, <1>2 DEF TypeOK, Exists, SetLayer, Ipfs, Asset
<1>4. /\ TryPush(IpfsAssetOwned[acct], cid, MaxIpfsOwned) \in Seq(Cids)
      /\ Len(TryPush(IpfsAssetOwned[acct], cid, MaxIpfsOwned)) <= MaxIpfsOwned
  BY BoundsAssumption DEF TypeOK, TryPush, CanPush
<1>5. /\ IpfsAssetOwned' \in [Accounts -> Seq(Cids)]
      /\ \A a \in Accounts : Len(IpfsAssetOwned'[a]) <= MaxIpfsOwned
  BY <1>4 DEF TypeOK, SetLayer
<1> QED
  BY <1>3, <1>5 DEF TypeOK, SetLayer

\* No dispatchable and no block breaks the types of the storage.
LEMMA TypePreserved == TypeOK /\ [Next]_vars => TypeOK'
<1> SUFFICES ASSUME TypeOK, [Next]_vars PROVE TypeOK'
  OBVIOUS
<1>1. CASE UNCHANGED vars
  BY <1>1 DEF vars, TypeOK
<1>2. CASE NextBlock
  BY <1>2 DEF NextBlock, on_initialize, TypeOK
<1>3. CASE UserCall
  <2>0. \A op \in Ops, arg \in Cids \cup Data, sender \in Accounts :
          <<Command(op, arg, sender)>> \in Seq(DataCommand)
    BY DEF TypeOK, Command, DataCommand
  <2>1. ASSUME NEW sender \in Accounts, NEW data \in Data, create_ipfs_asset_raw(sender, data)
        PROVE  TypeOK'
    BY <2>0, <2>1, EnqueueType, Zenon DEF create_ipfs_asset_raw, Ops
  <2>2. ASSUME NEW sender \in Accounts, NEW cid \in Cids, create_ipfs_asset(sender, cid)
        PROVE  TypeOK'
    BY <2>0, <2>2, EnqueueType, Zenon DEF create_ipfs_asset, Ops
  <2>3. ASSUME NEW sender \in Accounts, NEW cid \in Cids, pin_ipfs_asset(sender, cid)
        PROVE  TypeOK'
    BY <2>0, <2>3, EnqueueType, Zenon DEF pin_ipfs_asset, Ops
  <2>4. ASSUME NEW sender \in Accounts, NEW cid \in Cids, unpin_ipfs_asset(sender, cid)
        PROVE  TypeOK'
    BY <2>0, <2>4, EnqueueType DEF unpin_ipfs_asset, Ops
  <2>5. ASSUME NEW sender \in Accounts, NEW cid \in Cids, delete_ipfs_asset(sender, cid)
        PROVE  TypeOK'
    <3> DEFINE unpin == IF IpfsAsset[cid].pinned
                        THEN <<Command("RemovePin", cid, sender)>> ELSE <<>>
               block_ == <<Command("RemoveBlock", cid, sender)>>
    <3>1. unpin \in Seq(DataCommand) /\ block_ \in Seq(DataCommand)
      BY <2>0 DEF Ops
    <3>2. unpin \o block_ \in Seq(DataCommand)
      BY <3>1
    <3>3. Enqueue(unpin \o block_)
      BY <2>5 DEF delete_ipfs_asset
    <3> QED
      BY <3>2, <3>3, EnqueueType, Zenon
  <2>6. ASSUME NEW sender \in Accounts, NEW cid \in Cids, read_file(sender, cid)
        PROVE  TypeOK'
    BY <2>0, <2>6, EnqueueType, Zenon DEF read_file, Ops
  <2>7. ASSUME NEW sender \in Accounts, NEW cid \in Cids, NEW acct \in Accounts,
               remove_ownership(sender, cid, acct)
        PROVE  TypeOK'
    <3>1. IpfsAsset[cid] \in Ipfs /\ IpfsAsset[cid].owners \in Owners /\ cid \in DOMAIN IpfsAsset
      BY <2>7 DEF TypeOK, remove_ownership, IsOwner, Exists, Ipfs, Asset
    <3>2. RemoveKey(IpfsAsset[cid].owners, acct) \in Owners
      BY <3>1, OwnersType DEF Layers
    <3>3. IpfsAsset' \in [DOMAIN IpfsAsset -> Ipfs] /\ DOMAIN IpfsAsset' = DOMAIN IpfsAsset
      BY <2>7, <3>1, <3>2 DEF TypeOK, remove_ownership, Ipfs, Asset
    <3>4. /\ SwapRemoveFirst(IpfsAssetOwned[acct], cid) \in Seq(Cids)
          /\ Len(SwapRemoveFirst(IpfsAssetOwned[acct], cid)) <= Len(IpfsAssetOwned[acct])
      BY SwapRemoveType DEF TypeOK
    <3>5. /\ IpfsAssetOwned' \in [Accounts -> Seq(Cids)]
          /\ \A a \in Accounts : Len(IpfsAssetOwned'[a]) <= MaxIpfsOwned
      <4>1. Len(IpfsAssetOwned[acct]) \in Nat /\ Len(IpfsAssetOwned[acct]) <= MaxIpfsOwned
        BY DEF TypeOK
      <4>2. Len(SwapRemoveFirst(IpfsAssetOwned[acct], cid)) \in Nat
        BY <3>4
      <4> QED
        BY <2>7, <3>4, <4>1, <4>2, BoundsAssumption DEF TypeOK, remove_ownership
    <3> QED
      BY <2>7, <3>3, <3>5 DEF TypeOK, remove_ownership
  <2>8. ASSUME NEW sender \in Accounts, NEW cid \in Cids, NEW acct \in Accounts,
               NEW layer \in Layers, add_owner(sender, cid, acct, layer)
        PROVE  TypeOK'
    BY <2>8, SetLayerType DEF add_owner, IsOwner
  <2>9. ASSUME NEW sender \in Accounts, NEW cid \in Cids, NEW acct \in Accounts,
               NEW layer \in Layers, change_ownership(sender, cid, acct, layer)
        PROVE  TypeOK'
    BY <2>9, SetLayerType DEF change_ownership, IsOwner
  <2> QED
    BY <1>3, <2>1, <2>2, <2>3, <2>4, <2>5, <2>6, <2>7, <2>8, <2>9 DEF UserCall
<1>4. CASE ResultCall
  <2>1. ASSUME NEW cid \in Cids, NEW admin \in Accounts, submit_ipfs_add_results(admin, cid)
        PROVE  TypeOK'
    <3>1. NewAsset(admin) \in Ipfs
      BY NewAssetType
    <3>2. CASE IpfsCnt < MaxU64 /\ CanPush(IpfsAssetOwned[admin], MaxIpfsOwned)
      <4>1. /\ DOMAIN IpfsAsset' \subseteq Cids
            /\ IpfsAsset' \in [DOMAIN IpfsAsset' -> Ipfs]
        BY <2>1, <3>1, <3>2 DEF submit_ipfs_add_results, Insert, TypeOK
      <4>2. /\ IpfsAssetOwned' \in [Accounts -> Seq(Cids)]
            /\ \A a \in Accounts : Len(IpfsAssetOwned'[a]) <= MaxIpfsOwned
        <5>1. IpfsAssetOwned' = [IpfsAssetOwned EXCEPT ![admin] = Append(@, cid)]
          BY <2>1, <3>2 DEF submit_ipfs_add_results
        <5>2. /\ Append(IpfsAssetOwned[admin], cid) \in Seq(Cids)
              /\ Len(Append(IpfsAssetOwned[admin], cid)) <= MaxIpfsOwned
          BY <3>2, BoundsAssumption DEF CanPush, TypeOK
        <5> QED
          BY <5>1, <5>2 DEF TypeOK
      <4> QED
        BY <2>1, <3>2, <4>1, <4>2, BoundsAssumption DEF submit_ipfs_add_results, TypeOK
    <3>3. CASE ~(IpfsCnt < MaxU64 /\ CanPush(IpfsAssetOwned[admin], MaxIpfsOwned))
      BY <2>1, <3>3 DEF submit_ipfs_add_results, TypeOK
    <3> QED
      BY <3>2, <3>3
  <2>2. ASSUME NEW cid \in Cids, NEW flag \in BOOLEAN, SetPinned(cid, flag)
        PROVE  TypeOK'
    BY <2>2 DEF SetPinned, Exists, TypeOK, Ipfs, Asset
  <2>3. ASSUME NEW cid \in Cids, submit_ipfs_delete_results(cid)
        PROVE  TypeOK'
    <3>1. CASE Exists(cid)
      <4>1. /\ DOMAIN IpfsAsset' \subseteq Cids
            /\ IpfsAsset' \in [DOMAIN IpfsAsset' -> Ipfs]
        BY <2>3, <3>1 DEF submit_ipfs_delete_results, RemoveKey, TypeOK
      <4>2. \A a \in Accounts : /\ SwapRemoveFirst(IpfsAssetOwned[a], cid) \in Seq(Cids)
                                /\ Len(SwapRemoveFirst(IpfsAssetOwned[a], cid)) <= MaxIpfsOwned
        BY SwapRemoveType, BoundsAssumption DEF TypeOK
      <4>3. /\ IpfsAssetOwned' \in [Accounts -> Seq(Cids)]
            /\ \A a \in Accounts : Len(IpfsAssetOwned'[a]) <= MaxIpfsOwned
        BY <2>3, <3>1, <4>2, Zenon DEF submit_ipfs_delete_results, TypeOK
      <4> QED
        BY <2>3, <3>1, <4>1, <4>3, BoundsAssumption DEF submit_ipfs_delete_results, TypeOK
    <3>2. CASE ~Exists(cid)
      BY <2>3, <3>2 DEF submit_ipfs_delete_results, TypeOK
    <3> QED
      BY <3>1, <3>2
  <2> QED
    BY <1>4, <2>1, <2>2, <2>3, Zenon DEF ResultCall, submit_ipfs_pin_results, submit_ipfs_unpin_results
<1> QED
  BY <1>1, <1>2, <1>3, <1>4 DEF Next

\* Every dispatchable and every block keeps the types of the storage, and no
\* BoundedVec ever grows past MaxIpfsOwned.
THEOREM TypeCorrect == Spec => []TypeOK
<1>1. Init => TypeOK
  BY BoundsAssumption DEF Init, TypeOK
<1>2. TypeOK /\ [Next]_vars => TypeOK'
  BY TypePreserved
<1> QED
  BY <1>1, <1>2, PTL DEF Spec

-----------------------------------------------------------------------------
\* A user's call, a block and a pin result leave the counter and the set of assets.
LEMMA AssetsKept ==
    ASSUME TypeOK, NextBlock \/ UserCall \/ \E cid \in Cids, flag \in BOOLEAN : SetPinned(cid, flag)
    PROVE  IpfsCnt' = IpfsCnt /\ DOMAIN IpfsAsset' = DOMAIN IpfsAsset
<1>1. CASE NextBlock
  BY <1>1 DEF NextBlock
<1>2. CASE \E cid \in Cids, flag \in BOOLEAN : SetPinned(cid, flag)
  BY <1>2 DEF SetPinned, TypeOK
<1>3. ASSUME NEW cid, NEW acct, NEW layer, SetLayer(cid, acct, layer)
      PROVE  IpfsCnt' = IpfsCnt /\ DOMAIN IpfsAsset' = DOMAIN IpfsAsset
  BY <1>3 DEF SetLayer, TypeOK
<1>4. ASSUME NEW cmds, Enqueue(cmds)
      PROVE  IpfsCnt' = IpfsCnt /\ DOMAIN IpfsAsset' = DOMAIN IpfsAsset
  BY <1>4 DEF Enqueue
<1>5. ASSUME NEW signer, NEW cid, NEW acct, remove_ownership(signer, cid, acct)
      PROVE  IpfsCnt' = IpfsCnt /\ DOMAIN IpfsAsset' = DOMAIN IpfsAsset
  BY <1>5 DEF remove_ownership, TypeOK
<1>6. CASE UserCall
  BY <1>3, <1>4, <1>5, <1>6, Zenon
     DEF UserCall, create_ipfs_asset, create_ipfs_asset_raw, pin_ipfs_asset, unpin_ipfs_asset,
         delete_ipfs_asset, read_file, add_owner, change_ownership
<1> QED
  BY <1>1, <1>2, <1>6

\* IpfsCnt covers the assets whatever results arrive and however often: an add result
\* raises the counter by one and the assets by at most one, a delete result that gets
\* past its check lowers both by one.  So checked_sub(1).unwrap() never panics.
THEOREM CountSafe == Spec => []CountCoversAssets
<1>1. Init => CountCoversAssets
  BY FS_EmptySet DEF Init, CountCoversAssets
<1>2. TypeOK /\ CountCoversAssets /\ [Next]_vars => CountCoversAssets'
  <2> SUFFICES ASSUME TypeOK, CountCoversAssets, [Next]_vars PROVE CountCoversAssets'
    OBVIOUS
  <2>0. /\ IsFiniteSet(DOMAIN IpfsAsset)
        /\ Cardinality(DOMAIN IpfsAsset) \in Nat
        /\ IpfsCnt \in Nat
    BY FS_Subset, FS_CardinalityType, FiniteCidsAssumption, BoundsAssumption DEF TypeOK
  <2>1. CASE UNCHANGED vars
    BY <2>1 DEF vars, CountCoversAssets
  <2>2. CASE NextBlock \/ UserCall \/ \E cid \in Cids, flag \in BOOLEAN : SetPinned(cid, flag)
    BY <2>2, AssetsKept DEF CountCoversAssets
  <2>3. ASSUME NEW cid \in Cids, NEW admin \in Accounts, submit_ipfs_add_results(admin, cid)
        PROVE  CountCoversAssets'
    <3>1. CASE IpfsAsset' = IpfsAsset /\ IpfsCnt' = IpfsCnt
      BY <3>1 DEF CountCoversAssets
    <3>2. CASE IpfsAsset' = Insert(IpfsAsset, cid, NewAsset(admin)) /\ IpfsCnt' = IpfsCnt + 1
      <4>1. DOMAIN IpfsAsset' = DOMAIN IpfsAsset \cup {cid}
        BY <3>2 DEF Insert
      <4>2. Cardinality(DOMAIN IpfsAsset \cup {cid}) \in
              {Cardinality(DOMAIN IpfsAsset), Cardinality(DOMAIN IpfsAsset) + 1}
        BY <2>0, FS_AddElement, Zenon
      <4> QED
        BY <2>0, <3>2, <4>1, <4>2 DEF CountCoversAssets
    <3> QED
      BY <2>3, <3>1, <3>2 DEF submit_ipfs_add_results
  <2>4. ASSUME NEW cid \in Cids, submit_ipfs_delete_results(cid)
        PROVE  CountCoversAssets'
    <3>1. CASE ~Exists(cid)
      BY <2>4, <3>1 DEF submit_ipfs_delete_results, CountCoversAssets
    <3>2. CASE Exists(cid)
      <4>1. DOMAIN IpfsAsset' = DOMAIN IpfsAsset \ {cid}
        BY <2>4, <3>2 DEF submit_ipfs_delete_results, RemoveKey
      <4>2. Cardinality(DOMAIN IpfsAsset \ {cid}) = Cardinality(DOMAIN IpfsAsset) - 1
        BY <2>0, <3>2, FS_RemoveElement, Zenon DEF Exists
      <4>3. IpfsCnt' = IpfsCnt - 1
        BY <2>4, <3>2 DEF submit_ipfs_delete_results
      <4> QED
        BY <2>0, <4>1, <4>2, <4>3 DEF CountCoversAssets
    <3> QED
      BY <3>1, <3>2
  <2> QED
    BY <2>1, <2>2, <2>3, <2>4, Zenon
       DEF Next, ResultCall, submit_ipfs_pin_results, submit_ipfs_unpin_results
<1> QED
  BY <1>1, <1>2, TypeCorrect, PTL DEF Spec

\* No asset is ever left with an empty owners map: the signer of remove_ownership is
\* an Owner other than the account it removes, and stays.
THEOREM OwnersSafe == Spec => []OwnersNonEmpty
<1>1. Init => OwnersNonEmpty
  BY DEF Init, OwnersNonEmpty
<1>2. TypeOK /\ OwnersNonEmpty /\ [Next]_vars => OwnersNonEmpty'
  <2> SUFFICES ASSUME TypeOK, OwnersNonEmpty, [Next]_vars,
                      NEW c \in DOMAIN IpfsAsset'
               PROVE  DOMAIN (IpfsAsset'[c].owners) # {}
    BY DEF OwnersNonEmpty
  <2>0. ASSUME IpfsAsset' = IpfsAsset PROVE DOMAIN (IpfsAsset'[c].owners) # {}
    BY <2>0 DEF OwnersNonEmpty
  <2>1. ASSUME NEW cid, NEW acct, NEW layer, SetLayer(cid, acct, layer)
        PROVE  DOMAIN (IpfsAsset'[c].owners) # {}
    <3>1. CASE c = cid
      <4>1. IpfsAsset'[c].owners = Insert(IpfsAsset[c].owners, acct, layer)
        BY <2>1, <3>1 DEF SetLayer, Asset, TypeOK
      <4>2. acct \in DOMAIN Insert(IpfsAsset[c].owners, acct, layer)
        BY DEF Insert
      <4> QED
        BY <4>1, <4>2
    <3>2. CASE c # cid
      BY <2>1, <3>2 DEF SetLayer, OwnersNonEmpty, TypeOK
    <3> QED
      BY <3>1, <3>2
  <2>2. ASSUME NEW signer, NEW cid, NEW acct, remove_ownership(signer, cid, acct)
        PROVE  DOMAIN (IpfsAsset'[c].owners) # {}
    <3>1. CASE c = cid
      <4>1. IpfsAsset'[c].owners = RemoveKey(IpfsAsset[c].owners, acct)
        BY <2>2, <3>1 DEF remove_ownership, Asset, TypeOK
      <4>2. signer \in DOMAIN RemoveKey(IpfsAsset[c].owners, acct)
        BY <2>2, <3>1 DEF remove_ownership, IsOwner, RemoveKey
      <4> QED
        BY <4>1, <4>2
    <3>2. CASE c # cid
      BY <2>2, <3>2 DEF remove_ownership, OwnersNonEmpty, TypeOK
    <3> QED
      BY <3>1, <3>2
  <2>3. ASSUME NEW cid, NEW flag, SetPinned(cid, flag)
        PROVE  DOMAIN (IpfsAsset'[c].owners) # {}
    BY <2>3 DEF SetPinned, Asset, OwnersNonEmpty, TypeOK
  <2>4. ASSUME NEW cid, NEW admin, submit_ipfs_add_results(admin, cid)
        PROVE  DOMAIN (IpfsAsset'[c].owners) # {}
    <3>1. CASE IpfsAsset' = Insert(IpfsAsset, cid, NewAsset(admin))
      <4>1. CASE c = cid
        BY <3>1, <4>1 DEF Insert, NewAsset, Asset
      <4>2. CASE c # cid
        BY <3>1, <4>2 DEF Insert, OwnersNonEmpty
      <4> QED
        BY <4>1, <4>2
    <3> QED
      BY <2>0, <2>4, <3>1 DEF submit_ipfs_add_results
  <2>5. ASSUME NEW cid, submit_ipfs_delete_results(cid)
        PROVE  DOMAIN (IpfsAsset'[c].owners) # {}
    <3>1. CASE IpfsAsset' = RemoveKey(IpfsAsset, cid)
      BY <3>1 DEF RemoveKey, OwnersNonEmpty
    <3> QED
      BY <2>0, <2>5, <3>1 DEF submit_ipfs_delete_results
  <2>6. ASSUME NEW cmds, Enqueue(cmds) PROVE DOMAIN (IpfsAsset'[c].owners) # {}
    BY <2>0, <2>6 DEF Enqueue
  <2>7. CASE NextBlock \/ UNCHANGED vars
    BY <2>0, <2>7 DEF NextBlock, vars
  <2>8. CASE UserCall
    <3>1. ASSUME NEW sender \in Accounts, NEW data \in Data, create_ipfs_asset_raw(sender, data)
          PROVE  DOMAIN (IpfsAsset'[c].owners) # {}
      BY <2>6, <3>1, Zenon DEF create_ipfs_asset_raw
    <3>2. ASSUME NEW sender \in Accounts, NEW cid \in Cids,
                 \/ create_ipfs_asset(sender, cid) \/ pin_ipfs_asset(sender, cid)
                 \/ unpin_ipfs_asset(sender, cid) \/ delete_ipfs_asset(sender, cid)
                 \/ read_file(sender, cid)
          PROVE  DOMAIN (IpfsAsset'[c].owners) # {}
      BY <2>6, <3>2, Zenon
         DEF create_ipfs_asset, pin_ipfs_asset, unpin_ipfs_asset, delete_ipfs_asset, read_file
    <3>3. ASSUME NEW sender \in Accounts, NEW cid \in Cids, NEW acct \in Accounts,
                 NEW layer \in Layers,
                 add_owner(sender, cid, acct, layer) \/ change_ownership(sender, cid, acct, layer)
          PROVE  DOMAIN (IpfsAsset'[c].owners) # {}
      BY <2>1, <3>3, Zenon DEF add_owner, change_ownership
    <3> QED
      BY <2>2, <2>8, <3>1, <3>2, <3>3, Zenon DEF UserCall
  <2>9. CASE ResultCall
    BY <2>3, <2>4, <2>5, <2>9, Zenon
       DEF ResultCall, submit_ipfs_pin_results, submit_ipfs_unpin_results
  <2> QED
    BY <2>7, <2>8, <2>9, Zenon DEF Next
<1> QED
  BY <1>1, <1>2, TypeCorrect, PTL DEF Spec

\* No step leaves a command in the queue for longer than on_initialize allows.
LEMMA FreshnessPreserved == TypeOK /\ QueueFresh /\ [Next]_vars => QueueFresh'
<1> SUFFICES ASSUME TypeOK, QueueFresh, [Next]_vars PROVE QueueFresh'
  OBVIOUS
<1>1. ASSUME DataQueue' = <<>> PROVE QueueFresh'
  BY <1>1 DEF QueueFresh
<1>2. ASSUME DataQueue' = DataQueue, block' = block PROVE QueueFresh'
  BY <1>2 DEF QueueFresh
<1>3. CASE NextBlock
  <2>1. CASE (block + 1) % 2 = 1
    BY <1>1, <1>3, <2>1 DEF NextBlock, on_initialize
  <2>2. CASE (block + 1) % 2 # 1
    <3>0. block \in Nat /\ block' = block + 1
      BY <1>3 DEF NextBlock, TypeOK
    <3>1. block % 2 = 1 /\ block' % 2 # 1
      <4>1. \A n \in Nat : (n + 1) % 2 # 1 => n % 2 = 1
        OBVIOUS
      <4> QED
        BY <2>2, <3>0, <4>1
    <3>2. DataQueue' = DataQueue
      BY <1>3, <2>2 DEF NextBlock, on_initialize
    <3> QED
      BY <3>0, <3>1, <3>2 DEF QueueFresh
  <2> QED
    BY <2>1, <2>2
<1>4. ASSUME NEW cmds \in Seq(DataCommand), Enqueue(cmds),
             \A i \in DOMAIN cmds : cmds[i].at = block
      PROVE  QueueFresh'
  <2> SUFFICES ASSUME NEW i \in DOMAIN (DataQueue \o cmds)
               PROVE  (DataQueue \o cmds)[i].at \in
                        IF block % 2 = 1 THEN {block} ELSE {block - 1, block}
    BY <1>4 DEF Enqueue, QueueFresh
  <2>1. CASE i \in DOMAIN DataQueue
    BY <2>1 DEF QueueFresh, TypeOK
  <2>2. CASE i \notin DOMAIN DataQueue
    <3>1. /\ i - Len(DataQueue) \in DOMAIN cmds
          /\ (DataQueue \o cmds)[i] = cmds[i - Len(DataQueue)]
      BY <2>2 DEF TypeOK
    <3> QED
      BY <1>4, <3>1
  <2> QED
    BY <2>1, <2>2
<1>5. CASE UserCall
  <2>0. ASSUME NEW op \in Ops, NEW arg \in Cids \cup Data, NEW sender \in Accounts
        PROVE  /\ <<Command(op, arg, sender)>> \in Seq(DataCommand)
               /\ \A i \in DOMAIN <<Command(op, arg, sender)>> :
                     <<Command(op, arg, sender)>>[i].at = block
    BY DEF TypeOK, Command, DataCommand
  <2>1. ASSUME NEW op \in Ops, NEW arg \in Cids \cup Data, NEW sender \in Accounts,
               Enqueue(<<Command(op, arg, sender)>>)
        PROVE  QueueFresh'
    BY <1>4, <2>0, <2>1, Zenon
  <2>2. ASSUME NEW sender \in Accounts, NEW cid \in Cids, delete_ipfs_asset(sender, cid)
        PROVE  QueueFresh'
    <3> DEFINE pin == Command("RemovePin", cid, sender)
               del == Command("RemoveBlock", cid, sender)
    <3>1. pin \in DataCommand /\ del \in DataCommand /\ pin.at = block /\ del.at = block
      BY DEF TypeOK, Command, DataCommand, Ops
    <3>2. Enqueue(<<pin>> \o <<del>>) \/ Enqueue(<<>> \o <<del>>)
      BY <2>2, Zenon DEF delete_ipfs_asset
    <3> HIDE DEF pin, del
    <3>3. /\ <<pin>> \o <<del>> \in Seq(DataCommand)
          /\ \A i \in DOMAIN (<<pin>> \o <<del>>) : (<<pin>> \o <<del>>)[i].at = block
      BY <3>1
    <3>4. /\ <<>> \o <<del>> \in Seq(DataCommand)
          /\ \A i \in DOMAIN (<<>> \o <<del>>) : (<<>> \o <<del>>)[i].at = block
      BY <3>1
    <3> QED
      BY <1>4, <3>2, <3>3, <3>4, Zenon
  <2>3. ASSUME NEW cid, NEW acct, NEW layer, SetLayer(cid, acct, layer) PROVE QueueFresh'
    BY <1>2, <2>3 DEF SetLayer
  <2>4. ASSUME NEW signer, NEW cid, NEW acct, remove_ownership(signer, cid, acct)
        PROVE  QueueFresh'
    BY <1>2, <2>4 DEF remove_ownership
  <2> QED
    BY <1>5, <2>1, <2>2, <2>3, <2>4, Zenon
       DEF UserCall, Ops, create_ipfs_asset, create_ipfs_asset_raw, pin_ipfs_asset,
           unpin_ipfs_asset, read_file, add_owner, change_ownership
<1>6. CASE ResultCall
  BY <1>1, <1>6, Zenon
     DEF ResultCall, submit_ipfs_add_results, submit_ipfs_delete_results,
         submit_ipfs_pin_results, submit_ipfs_unpin_results, SetPinned
<1>7. CASE UNCHANGED vars
  BY <1>2, <1>7 DEF vars
<1> QED
  BY <1>3, <1>5, <1>6, <1>7 DEF Next

\* A command is handed to the workers of at most two blocks: on_initialize clears the
\* queue in every odd block, so what it holds was queued in this block or, in an even
\* block, in this one or the one before.
THEOREM QueueFreshness == Spec => []QueueFresh
<1>1. Init => QueueFresh
  BY DEF Init, QueueFresh
<1>2. TypeOK /\ QueueFresh /\ [Next]_vars => QueueFresh'
  BY FreshnessPreserved
<1> QED
  BY <1>1, <1>2, TypeCorrect, PTL DEF Spec

-----------------------------------------------------------------------------
\* A step that is no result call changes the owners of an asset only if the asset has
\* an Owner, and removes nobody but at the hands of an Owner who stays one.
LEMMA OwnersChangedByOwner ==
    ASSUME TypeOK, NextBlock \/ UserCall, NEW c \in DOMAIN IpfsAsset
    PROVE  /\ c \in DOMAIN IpfsAsset'
           /\ \/ IpfsAsset'[c].owners = IpfsAsset[c].owners
              \/ /\ HasOwner(c)
                 /\ HasOwner(c)' \/ DOMAIN (IpfsAsset'[c].owners) = DOMAIN IpfsAsset[c].owners
<1> DEFINE Goal == /\ c \in DOMAIN IpfsAsset'
                   /\ \/ IpfsAsset'[c].owners = IpfsAsset[c].owners
                      \/ /\ HasOwner(c)
                         /\ \/ HasOwner(c)'
                            \/ DOMAIN (IpfsAsset'[c].owners) = DOMAIN IpfsAsset[c].owners
<1>0. /\ IpfsAsset[c] \in Ipfs
      /\ c \in Cids
  BY DEF TypeOK
<1>1. ASSUME NEW cmds, Enqueue(cmds) PROVE Goal
  BY <1>1 DEF Enqueue
<1>2. CASE NextBlock
  BY <1>2 DEF NextBlock
<1>3. ASSUME NEW signer \in Accounts, NEW cid \in Cids, NEW acct \in Accounts,
             remove_ownership(signer, cid, acct)
      PROVE  Goal
  <2>1. CASE c # cid
    BY <1>3, <2>1 DEF remove_ownership, TypeOK
  <2>2. CASE c = cid
    <3>1. c \in DOMAIN IpfsAsset' /\ IpfsAsset'[c].owners = RemoveKey(IpfsAsset[c].owners, acct)
      BY <1>3, <2>2 DEF remove_ownership, Asset, TypeOK
    <3>2. HasOwner(c)
      BY <1>3, <2>2 DEF remove_ownership, IsOwner, HasOwner
    <3>3. /\ signer \in DOMAIN (IpfsAsset'[c].owners)
          /\ (IpfsAsset'[c].owners)[signer] = "Owner"
      BY <1>3, <2>2, <3>1 DEF remove_ownership, IsOwner, RemoveKey
    <3>4. HasOwner(c)'
      BY <3>1, <3>3 DEF HasOwner, Exists
    <3> QED
      BY <3>1, <3>2, <3>4
  <2> QED
    BY <2>1, <2>2
<1>4. ASSUME NEW signer \in Accounts, NEW cid \in Cids, NEW acct \in Accounts, NEW layer \in Layers,
             IsOwner(cid, signer), SetLayer(cid, acct, layer)
      PROVE  Goal
  <2>1. CASE c # cid
    BY <1>4, <2>1 DEF SetLayer, TypeOK
  <2>2. CASE c = cid
    <3>1. /\ c \in DOMAIN IpfsAsset'
          /\ IpfsAsset'[c].owners = Insert(IpfsAsset[c].owners, acct, layer)
      BY <1>4, <2>2 DEF SetLayer, Asset, TypeOK
    <3>2. HasOwner(c)
      BY <1>4, <2>2 DEF IsOwner, HasOwner
    <3>3. CASE acct = signer
      <4>1. DOMAIN (IpfsAsset'[c].owners) = DOMAIN IpfsAsset[c].owners
        BY <1>4, <2>2, <3>1, <3>3 DEF IsOwner, Insert
      <4> QED
        BY <3>1, <3>2, <4>1
    <3>4. CASE acct # signer
      <4>1. /\ signer \in DOMAIN (IpfsAsset'[c].owners)
            /\ (IpfsAsset'[c].owners)[signer] = "Owner"
        BY <1>4, <2>2, <3>1, <3>4 DEF IsOwner, Insert
      <4>2. HasOwner(c)'
        BY <3>1, <4>1 DEF HasOwner, Exists
      <4> QED
        BY <3>1, <3>2, <4>2
    <3> QED
      BY <3>3, <3>4
  <2> QED
    BY <2>1, <2>2
<1> HIDE DEF Goal
<1>5. ASSUME UserCall PROVE Goal
  <2>1. ASSUME NEW signer \in Accounts, NEW cid \in Cids, NEW acct \in Accounts, NEW layer \in Layers,
               add_owner(signer, cid, acct, layer) \/ change_ownership(signer, cid, acct, layer)
        PROVE  Goal
    BY <1>4, <2>1 DEF add_owner, change_ownership
  <2>2. ASSUME NEW sender \in Accounts, NEW cid \in Cids,
               \/ create_ipfs_asset(sender, cid) \/ pin_ipfs_asset(sender, cid)
               \/ unpin_ipfs_asset(sender, cid) \/ delete_ipfs_asset(sender, cid)
               \/ read_file(sender, cid)
        PROVE  Goal
    BY <1>1, <2>2 DEF create_ipfs_asset, pin_ipfs_asset, unpin_ipfs_asset, delete_ipfs_asset, read_file
  <2>3. ASSUME NEW sender \in Accounts, NEW data \in Data, create_ipfs_asset_raw(sender, data)
        PROVE  Goal
    BY <1>1, <2>3 DEF create_ipfs_asset_raw
  <2> QED
    BY <1>3, <1>5, <2>1, <2>2, <2>3 DEF UserCall
<1> QED
  BY <1>2, <1>5 DEF Goal

\* An add result makes its admin an Owner.
LEMMA AddResultHasOwner ==
    ASSUME NEW cid \in Cids, NEW admin \in Accounts,
           IpfsAsset' = Insert(IpfsAsset, cid, NewAsset(admin))
    PROVE  HasOwner(cid)'
<1>1. /\ cid \in DOMAIN IpfsAsset'
      /\ IpfsAsset'[cid] = NewAsset(admin)
  BY DEF Insert
<1>2. /\ admin \in DOMAIN (IpfsAsset'[cid].owners)
      /\ (IpfsAsset'[cid].owners)[admin] = "Owner"
  <2>1. IpfsAsset'[cid].owners = [a \in {admin} |-> "Owner"]
    BY <1>1 DEF NewAsset, Asset
  <2>2. admin \in DOMAIN [a \in {admin} |-> "Owner"] /\ [a \in {admin} |-> "Owner"][admin] = "Owner"
    OBVIOUS
  <2> QED
    BY <2>1, <2>2
<1> QED
  BY <1>1, <1>2 DEF HasOwner, Exists

\* An asset without an Owner is frozen for users: no dispatchable but the result calls
\* changes its owners map, because each asks for the Owner layer.
THEOREM Frozen == Spec => OwnerlessIsFrozen
<1> DEFINE Step == \A cid \in DOMAIN IpfsAsset :
                     ~HasOwner(cid) =>
                        \/ ~Exists(cid)'
                        \/ HasOwner(cid)' /\ IpfsCnt' = IpfsCnt + 1
                        \/ (IpfsAsset[cid].owners)' = IpfsAsset[cid].owners
<1>1. TypeOK /\ [Next]_vars => [Step]_vars
  <2> SUFFICES ASSUME TypeOK, Next, NEW c \in DOMAIN IpfsAsset, ~HasOwner(c), Exists(c)'
               PROVE  \/ HasOwner(c)' /\ IpfsCnt' = IpfsCnt + 1
                      \/ IpfsAsset'[c].owners = IpfsAsset[c].owners
    OBVIOUS
  <2>0. c \in Cids
    BY DEF TypeOK
  <2>1. CASE NextBlock \/ UserCall
    BY <2>1, OwnersChangedByOwner
  <2>2. ASSUME NEW cid \in Cids, NEW flag, SetPinned(cid, flag)
        PROVE  IpfsAsset'[c].owners = IpfsAsset[c].owners
    BY <2>2 DEF SetPinned, Asset, TypeOK
  <2>3. ASSUME NEW cid \in Cids, submit_ipfs_delete_results(cid)
        PROVE  IpfsAsset'[c].owners = IpfsAsset[c].owners
    BY <2>3 DEF submit_ipfs_delete_results, RemoveKey, Exists
  <2>4. ASSUME NEW cid \in Cids, NEW admin \in Accounts, submit_ipfs_add_results(admin, cid)
        PROVE  \/ HasOwner(c)' /\ IpfsCnt' = IpfsCnt + 1
               \/ IpfsAsset'[c].owners = IpfsAsset[c].owners
    <3>1. CASE IpfsAsset' = IpfsAsset
      BY <3>1
    <3>2. CASE IpfsAsset' = Insert(IpfsAsset, cid, NewAsset(admin)) /\ IpfsCnt' = IpfsCnt + 1
      <4>1. CASE c = cid
        BY <3>2, <4>1, AddResultHasOwner
      <4>2. CASE c # cid
        BY <3>2, <4>2 DEF Insert
      <4> QED
        BY <4>1, <4>2
    <3> QED
      BY <2>4, <3>1, <3>2 DEF submit_ipfs_add_results
  <2> QED
    BY <2>1, <2>2, <2>3, <2>4, Zenon
       DEF Next, ResultCall, submit_ipfs_pin_results, submit_ipfs_unpin_results
<1> QED
  BY <1>1, TypeCorrect, PTL DEF Spec, OwnerlessIsFrozen

\* Only a change of layer, never a removal, can take away the last Owner of an asset
\* that stays: remove_ownership leaves its signer in place.
THEOREM OwnerKept == Spec => OwnerLostOnlyByDemotion
<1> DEFINE Step == \A cid \in DOMAIN IpfsAsset :
                     HasOwner(cid) /\ Exists(cid)' /\ ~HasOwner(cid)' =>
                        DOMAIN IpfsAsset[cid].owners = DOMAIN (IpfsAsset[cid].owners)'
<1>1. TypeOK /\ [Next]_vars => [Step]_vars
  <2> SUFFICES ASSUME TypeOK, Next, NEW c \in DOMAIN IpfsAsset,
                      HasOwner(c), Exists(c)', ~HasOwner(c)'
               PROVE  DOMAIN IpfsAsset[c].owners = DOMAIN (IpfsAsset'[c].owners)
    OBVIOUS
  <2>1. CASE NextBlock \/ UserCall
    BY <2>1, OwnersChangedByOwner
  <2>2. ASSUME NEW cid \in Cids, NEW flag, SetPinned(cid, flag)
        PROVE  IpfsAsset'[c].owners = IpfsAsset[c].owners
    BY <2>2 DEF SetPinned, Asset, TypeOK
  <2>3. ASSUME NEW cid \in Cids, submit_ipfs_delete_results(cid)
        PROVE  IpfsAsset'[c].owners = IpfsAsset[c].owners
    BY <2>3 DEF submit_ipfs_delete_results, RemoveKey, Exists
  <2>4. ASSUME NEW cid \in Cids, NEW admin \in Accounts, submit_ipfs_add_results(admin, cid)
        PROVE  IpfsAsset'[c].owners = IpfsAsset[c].owners
    <3>1. CASE IpfsAsset' = IpfsAsset
      BY <3>1
    <3>2. CASE IpfsAsset' = Insert(IpfsAsset, cid, NewAsset(admin))
      <4>1. c # cid
        BY <3>2, AddResultHasOwner
      <4> QED
        BY <3>2, <4>1 DEF Insert
    <3> QED
      BY <2>4, <3>1, <3>2 DEF submit_ipfs_add_results
  <2> QED
    BY <2>1, <2>2, <2>3, <2>4, Zenon
       DEF Next, ResultCall, submit_ipfs_pin_results, submit_ipfs_unpin_results
<1> QED
  BY <1>1, TypeCorrect, PTL DEF Spec, OwnerLostOnlyByDemotion
=============================================================================
