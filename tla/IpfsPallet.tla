----------------------------- MODULE IpfsPallet -----------------------------
(***************************************************************************)
(* pallet-ipfs: the storage of the pallet, its block hook and one action   *)
(* for each dispatchable.  A call that is refused before it writes leaves  *)
(* the state as it is and is not an action.  Dispatchables are not         *)
(* transactional, so a call that writes and then returns an error keeps    *)
(* what it wrote; those cases are part of the actions below.               *)
(***************************************************************************)
EXTENDS FrameStorage, FiniteSets

CONSTANTS
    Accounts,       \* T::AccountId
    Cids,           \* content identifiers
    Data,           \* payloads of create_ipfs_asset_raw
    MaxIpfsOwned,   \* T::MaxIpfsOwned
    MaxU64,         \* u64::MAX
    MaxBlock,       \* bound: blocks of a behaviour
    MaxQueue        \* bound: commands in DataQueue

VARIABLES
    block,          \* frame_system's block number
    DataQueue,      \* commands for the off-chain workers
    IpfsCnt,        \* u64
    IpfsAsset,      \* cid -> Ipfs
    IpfsAssetOwned  \* account -> BoundedVec of cids

vars == <<block, DataQueue, IpfsCnt, IpfsAsset, IpfsAssetOwned>>

ASSUME BoundsAssumption ==
    /\ MaxIpfsOwned \in Nat /\ MaxU64 \in Nat
    /\ MaxBlock \in Nat /\ MaxQueue \in Nat

ASSUME FiniteCidsAssumption == IsFiniteSet(Cids)

Layers == {"Owner", "Editor", "Reader"}

Ops == {"AddBytes", "AddBytesRaw", "CatBytes", "InsertPin", "RemovePin", "RemoveBlock"}

\* DataCommand.  "at", the block of the call that queued it, is not in the
\* code: it lets a property speak of the age of a command.
DataCommand == [op : Ops, arg : Cids \cup Data, who : Accounts, at : Nat]

Owners == UNION {[A -> Layers] : A \in SUBSET Accounts}

\* Ipfs<T>: size, gateway_url, created_at and deleting_at are never read.
Ipfs == [owners : Owners, pinned : BOOLEAN]

Asset(owners, pinned) == [owners |-> owners, pinned |-> pinned]

Exists(cid) == cid \in DOMAIN IpfsAsset

\* Mutant of IsOwner: an Editor is let through.
IsOwnerOrEditor(cid, acct) ==
    /\ Exists(cid)
    /\ acct \in DOMAIN IpfsAsset[cid].owners
    /\ IpfsAsset[cid].owners[acct] # "Reader"

\* determine_account_ownership_layer(cid, acct)? == OwnershipLayer::Owner
IsOwner(cid, acct) ==
    /\ Exists(cid)
    /\ acct \in DOMAIN IpfsAsset[cid].owners
    /\ IpfsAsset[cid].owners[acct] = "Owner"

Command(op, arg, who) == [op |-> op, arg |-> arg, who |-> who, at |-> block]

\* Mutant of Enqueue: the queue is put, not pushed to.
EnqueuePut(cmds) ==
    /\ Len(cmds) <= MaxQueue
    /\ DataQueue' = cmds
    /\ UNCHANGED <<block, IpfsCnt, IpfsAsset, IpfsAssetOwned>>

\* DataQueue::mutate(|queue| queue.push(..)), within the bound of the model.
Enqueue(cmds) ==
    /\ Len(DataQueue) + Len(cmds) <= MaxQueue
    /\ DataQueue' = DataQueue \o cmds
    /\ UNCHANGED <<block, IpfsCnt, IpfsAsset, IpfsAssetOwned>>

-----------------------------------------------------------------------------
Init ==
    /\ block = 1
    /\ DataQueue = <<>>
    /\ IpfsCnt = 0
    /\ IpfsAsset = [c \in {} |-> {}]
    /\ IpfsAssetOwned = [a \in Accounts |-> <<>>]

\* Every odd block starts with an empty queue.
on_initialize(n) == DataQueue' = IF n % 2 = 1 THEN <<>> ELSE DataQueue

NextBlock ==
    /\ block < MaxBlock
    /\ block' = block + 1
    /\ on_initialize(block + 1)
    /\ UNCHANGED <<IpfsCnt, IpfsAsset, IpfsAssetOwned>>

create_ipfs_asset(sender, cid) ==
    /\ ~Has(IpfsAssetOwned[sender], cid)
    /\ Enqueue(<<Command("AddBytes", cid, sender)>>)

\* The payload, not the cid it will have, is looked up among the owned cids.
create_ipfs_asset_raw(sender, data) ==
    /\ ~Has(IpfsAssetOwned[sender], data)
    /\ Enqueue(<<Command("AddBytesRaw", data, sender)>>)

pin_ipfs_asset(sender, cid) ==
    /\ IsOwner(cid, sender)
    /\ ~IpfsAsset[cid].pinned
    /\ Enqueue(<<Command("InsertPin", cid, sender)>>)

unpin_ipfs_asset(sender, cid) ==
    /\ IsOwner(cid, sender)
    /\ IpfsAsset[cid].pinned
    /\ Enqueue(<<Command("RemovePin", cid, sender)>>)

delete_ipfs_asset(sender, cid) ==
    /\ IsOwner(cid, sender)
    /\ LET unpin == IF IpfsAsset[cid].pinned
                    THEN <<Command("RemovePin", cid, sender)>> ELSE <<>>
       IN  Enqueue(unpin \o <<Command("RemoveBlock", cid, sender)>>)

read_file(sender, cid) ==
    /\ IsOwner(cid, sender)
    /\ Enqueue(<<Command("CatBytes", cid, sender)>>)

\* The record submit_ipfs_add_results stores: its admin is the only Owner.
NewAsset(admin) == Asset([a \in {admin} |-> "Owner"], TRUE)

\* Whoever signs it.  The queue is taken before the two checks that can fail,
\* and an asset already recorded under cid is replaced.
submit_ipfs_add_results(admin, cid) ==
    /\ DataQueue' = <<>>
    /\ IF IpfsCnt < MaxU64 /\ CanPush(IpfsAssetOwned[admin], MaxIpfsOwned)
       THEN /\ IpfsAssetOwned' = [IpfsAssetOwned EXCEPT ![admin] = Append(@, cid)]
            /\ IpfsAsset' = Insert(IpfsAsset, cid, NewAsset(admin))
            /\ IpfsCnt' = IpfsCnt + 1
       ELSE UNCHANGED <<IpfsAssetOwned, IpfsAsset, IpfsCnt>>
    /\ UNCHANGED block

\* submit_ipfs_pin_results and submit_ipfs_unpin_results differ in the flag.
SetPinned(cid, flag) ==
    /\ Exists(cid)
    /\ IpfsAsset' = [IpfsAsset EXCEPT ![cid] = Asset(@.owners, flag)]
    /\ DataQueue' = <<>>
    /\ UNCHANGED <<block, IpfsCnt, IpfsAssetOwned>>

submit_ipfs_pin_results(cid) == SetPinned(cid, TRUE)

submit_ipfs_unpin_results(cid) == SetPinned(cid, FALSE)

\* checked_sub(1).unwrap() would panic at 0, and a panicking call changes nothing.
submit_ipfs_delete_results(cid) ==
    /\ DataQueue' = <<>>
    /\ IF Exists(cid)
       THEN /\ IpfsCnt > 0
            /\ IpfsCnt' = IpfsCnt - 1
            /\ IpfsAsset' = RemoveKey(IpfsAsset, cid)
            /\ IpfsAssetOwned' =
                 [a \in Accounts |-> IF a \in DOMAIN IpfsAsset[cid].owners
                                     THEN SwapRemoveFirst(IpfsAssetOwned[a], cid)
                                     ELSE IpfsAssetOwned[a]]
       ELSE UNCHANGED <<IpfsCnt, IpfsAsset, IpfsAssetOwned>>
    /\ UNCHANGED block

\* The owners are written before the push that MaxIpfsOwned may refuse.
SetLayer(cid, acct, layer) ==
    /\ IpfsAsset' = [IpfsAsset EXCEPT ![cid] = Asset(Insert(@.owners, acct, layer), @.pinned)]
    /\ IpfsAssetOwned' = [IpfsAssetOwned EXCEPT ![acct] = TryPush(@, cid, MaxIpfsOwned)]
    /\ UNCHANGED <<block, DataQueue, IpfsCnt>>

add_owner(signer, cid, add_acct, layer) ==
    /\ IsOwner(cid, signer)
    /\ ~Has(IpfsAssetOwned[add_acct], cid)
    /\ SetLayer(cid, add_acct, layer)

\* Mutant of remove_ownership: without ensure!(signer != remove_acct).
remove_ownership_of_self(signer, cid, remove_acct) ==
    /\ IsOwner(cid, signer)
    /\ remove_acct \in DOMAIN IpfsAsset[cid].owners
    /\ IpfsAsset' = [IpfsAsset EXCEPT ![cid] = Asset(RemoveKey(@.owners, remove_acct), @.pinned)]
    /\ IpfsAssetOwned' = [IpfsAssetOwned EXCEPT ![remove_acct] = SwapRemoveFirst(@, cid)]
    /\ UNCHANGED <<block, DataQueue, IpfsCnt>>

remove_ownership(signer, cid, remove_acct) ==
    /\ signer # remove_acct
    /\ IsOwner(cid, signer)
    /\ remove_acct \in DOMAIN IpfsAsset[cid].owners
    /\ IpfsAsset' = [IpfsAsset EXCEPT ![cid] = Asset(RemoveKey(@.owners, remove_acct), @.pinned)]
    /\ IpfsAssetOwned' = [IpfsAssetOwned EXCEPT ![remove_acct] = SwapRemoveFirst(@, cid)]
    /\ UNCHANGED <<block, DataQueue, IpfsCnt>>

\* The cid is pushed once more to the list of an account that already has it.
change_ownership(signer, cid, acct, layer) ==
    /\ IsOwner(cid, signer)
    /\ acct \in DOMAIN IpfsAsset[cid].owners
    /\ IpfsAsset[cid].owners[acct] # layer
    /\ SetLayer(cid, acct, layer)

-----------------------------------------------------------------------------
\* Calls users make.
UserCall ==
    \E sender \in Accounts :
        \/ \E data \in Data : create_ipfs_asset_raw(sender, data)
        \/ \E cid \in Cids :
              \/ create_ipfs_asset(sender, cid)
              \/ pin_ipfs_asset(sender, cid)
              \/ unpin_ipfs_asset(sender, cid)
              \/ delete_ipfs_asset(sender, cid)
              \/ read_file(sender, cid)
              \/ \E acct \in Accounts :
                    \/ remove_ownership(sender, cid, acct)
                    \/ \E layer \in Layers :
                          \/ add_owner(sender, cid, acct, layer)
                          \/ change_ownership(sender, cid, acct, layer)

\* Calls the off-chain workers make; any signed account may make them.
ResultCall ==
    \E cid \in Cids :
        \/ \E admin \in Accounts : submit_ipfs_add_results(admin, cid)
        \/ submit_ipfs_pin_results(cid)
        \/ submit_ipfs_unpin_results(cid)
        \/ submit_ipfs_delete_results(cid)

Next == NextBlock \/ UserCall \/ ResultCall

Spec == Init /\ [][Next]_vars

-----------------------------------------------------------------------------
\* Type invariant of the pallet's storage; BoundedVec never exceeds its bound.
TypeOK ==
    /\ block \in Nat
    /\ DataQueue \in Seq(DataCommand)
    /\ IpfsCnt \in 0 .. MaxU64
    /\ DOMAIN IpfsAsset \subseteq Cids
    /\ IpfsAsset \in [DOMAIN IpfsAsset -> Ipfs]
    /\ IpfsAssetOwned \in [Accounts -> Seq(Cids)]
    /\ \A a \in Accounts : Len(IpfsAssetOwned[a]) <= MaxIpfsOwned

\* The counter never falls below the number of assets, however often a result is
\* repeated, so checked_sub(1).unwrap() in submit_ipfs_delete_results cannot panic.
CountCoversAssets == Cardinality(DOMAIN IpfsAsset) <= IpfsCnt

\* An asset always has somebody in its owners map: remove_ownership cannot empty
\* it, because its signer is in the map and may not remove itself.
OwnersNonEmpty == \A cid \in DOMAIN IpfsAsset : DOMAIN IpfsAsset[cid].owners # {}

\* A command is never older than one block, and in an odd block it is from that
\* block: on_initialize clears the queue, so at most two workers see a command.
QueueFresh ==
    \A i \in DOMAIN DataQueue :
        DataQueue[i].at \in IF block % 2 = 1 THEN {block} ELSE {block - 1, block}

HasOwner(cid) ==
    Exists(cid) /\ \E a \in DOMAIN IpfsAsset[cid].owners : IpfsAsset[cid].owners[a] = "Owner"

\* An asset whose last Owner stepped down is frozen: no user call changes its owners
\* map any more; only the results of a repeated add or of a delete do.
OwnerlessIsFrozen ==
    [][\A cid \in DOMAIN IpfsAsset :
         ~HasOwner(cid) =>
            \/ ~Exists(cid)'
            \/ HasOwner(cid)' /\ IpfsCnt' = IpfsCnt + 1
            \/ (IpfsAsset[cid].owners)' = IpfsAsset[cid].owners]_vars

\* Only an Owner that changes its own layer can leave an asset without an Owner:
\* when the last Owner goes, nobody is removed from the owners map in that step.
OwnerLostOnlyByDemotion ==
    [][\A cid \in DOMAIN IpfsAsset :
         HasOwner(cid) /\ Exists(cid)' /\ ~HasOwner(cid)' =>
            DOMAIN IpfsAsset[cid].owners = DOMAIN (IpfsAsset[cid].owners)']_vars

-----------------------------------------------------------------------------
\* lib.rs:199, IpfsCnt: "Keeps track of the number of IPFS Assets in existence."
\* A second add result for the same cid is counted again.
CntIsNumberOfAssets == IpfsCnt = Cardinality(DOMAIN IpfsAsset)
=============================================================================
