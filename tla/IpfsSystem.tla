----------------------------- MODULE IpfsSystem -----------------------------
(***************************************************************************)
(* pallet-ipfs together with the off-chain workers that serve it: after    *)
(* each block every node may run handle_data_requests on the queue as the  *)
(* block left it, beside the workers of earlier blocks.  Results come back *)
(* as transactions, signed with the node's key and ordered by its nonce.   *)
(* Unlike in IpfsPallet, results come from workers only.                   *)
(***************************************************************************)
EXTENDS IpfsPallet

CONSTANTS
    Nodes,    \* nodes with a key of the pallet in their keystore
    CidOf,    \* payload -> the cid an IPFS node gives it
    MaxIssued \* bound: commands of a behaviour

ASSUME SystemAssumption == CidOf \in [Data -> Cids] /\ MaxIssued \in Nat

VARIABLES
    workers,  \* node -> block -> the off-chain worker of that block, while it runs
    nonce,    \* node -> nonce of its account, on chain
    pool,     \* node -> nonce -> result transaction in the transaction pool
    issued,   \* history: every command queued so far
    served,   \* history: the commands an IPFS node has carried out
    taken     \* history: a result included in this block has emptied the queue

sysVars == <<block, DataQueue, IpfsCnt, IpfsAsset, IpfsAssetOwned,
             workers, nonce, pool, issued, served, taken>>

\* Requests to the IPFS node, one after the other, and what an error of one of them
\* can do: "skip" the rest of the command or "abort" the worker (the operator ?).
\* An error that is only logged changes nothing.
Ask(requests, errors) == [requests |-> requests, errors |-> errors]

\* The submission of a result.
Submit == Ask(<<>>, {})

\* Mutant of Plan: the result is sent before the IPFS node is asked.
PlanSubmitFirst(op) == <<Submit, Ask(<<op>>, {"skip"})>>

\* What handle_data_requests does for each command.  Requests to the IPFS node that
\* follow each other are one step: nothing modelled here can tell them apart.
Plan(op) ==
    CASE op = "AddBytes" ->
           <<Ask(<<"Connect", "CatBytes", "Disconnect", "AddBytes">>, {"skip", "abort"}),
             Submit, Ask(<<"InsertPin", "Disconnect">>, {})>>
      [] op = "AddBytesRaw" ->
           <<Ask(<<"Connect", "AddBytes", "Disconnect">>, {"skip", "abort"}),
             Submit, Ask(<<"InsertPin", "Disconnect">>, {})>>
      [] op = "CatBytes" -> <<Ask(<<"CatBytes", "Disconnect">>, {"skip", "abort"})>>
      [] OTHER -> <<Ask(<<op>>, {"skip"}), Submit>>

\* A worker: the commands left, the step of the first one, the nonce it will use.
Worker(cmds, at, n) == [cmds |-> cmds, at |-> at, nonce |-> n]

SysInit ==
    /\ Init
    /\ workers = [node \in Nodes |-> << >>]
    /\ nonce = [node \in Nodes |-> 0]
    /\ pool = [node \in Nodes |-> << >>]
    /\ issued = {}
    /\ served = {}
    /\ taken = FALSE

SysUserCall ==
    /\ UserCall
    /\ issued' = issued \cup Elements(DataQueue')
    /\ Cardinality(issued') <= MaxIssued
    /\ UNCHANGED <<workers, nonce, pool, served, taken>>

\* Block number block is complete and imported: the nodes in up run its off-chain
\* worker, which reads the state that the block left.
EndBlock(up) ==
    /\ NextBlock
    /\ workers' = [node \in Nodes |->
                     IF node \in up /\ DataQueue # <<>>
                     THEN Insert(workers[node], block, Worker(DataQueue, 1, nonce[node]))
                     ELSE workers[node]]
    /\ taken' = FALSE
    /\ UNCHANGED <<nonce, pool, issued, served>>

-----------------------------------------------------------------------------
\* The worker of node for block b

Current(w) == Plan(Head(w.cmds).op)[w.at]

\* The next step of the worker, or of the next command, or the end.
Advanced(w) ==
    IF w.at < Len(Plan(Head(w.cmds).op)) THEN Worker(w.cmds, w.at + 1, w.nonce)
    ELSE Worker(Tail(w.cmds), 1, w.nonce)

\* Mutant of AfterError: a command that failed is tried again after the others.
AfterErrorRequeue(w, error) ==
    CASE error = "skip" -> Worker(Append(Tail(w.cmds), Head(w.cmds)), 1, w.nonce)
      [] error = "abort" -> Worker(<<>>, 1, w.nonce)

\* The rest of the command is skipped, or all that is left to do.
AfterError(w, error) ==
    CASE error = "skip" -> Worker(Tail(w.cmds), 1, w.nonce)
      [] error = "abort" -> Worker(<<>>, 1, w.nonce)

SetWorker(node, b, w) ==
    workers' = [workers EXCEPT ![node] = IF w.cmds = <<>> THEN RemoveKey(@, b)
                                         ELSE Insert(@, b, w)]

\* ipfs_request returns a response, or an error because the request failed or the
\* deadline that all commands share has passed.
Request(node, b) ==
    LET w == workers[node][b]
    IN  /\ Current(w) # Submit
        /\ \/ /\ SetWorker(node, b, Advanced(w))
              /\ served' = served \cup {Head(w.cmds)}
           \/ /\ \E error \in Current(w).errors : SetWorker(node, b, AfterError(w, error))
              /\ UNCHANGED served
        /\ UNCHANGED <<vars, nonce, pool, issued, taken>>

\* The call that reports the result of a command.
ResultOf(cmd) ==
    [call |-> IF cmd.op = "AddBytesRaw" THEN "AddBytes" ELSE cmd.op,
     cid |-> IF cmd.op = "AddBytesRaw" THEN CidOf[cmd.arg] ELSE cmd.arg,
     who |-> cmd.who]

\* send_signed_transaction: the pool takes the transaction, beside or instead of one
\* with its nonce, or refuses it.  Only a transaction that was taken uses up the nonce
\* in the worker's view; one whose nonce is in use on chain by now is never included.
SendSigned(node, b) ==
    LET w == workers[node][b]
    IN  /\ Current(w) = Submit
        /\ \/ /\ pool' = IF w.nonce < nonce[node] THEN pool
                         ELSE [pool EXCEPT ![node] = Insert(@, w.nonce, ResultOf(Head(w.cmds)))]
              /\ SetWorker(node, b, Worker(Advanced(w).cmds, Advanced(w).at, w.nonce + 1))
           \/ /\ UNCHANGED pool
              /\ SetWorker(node, b, Advanced(w))
        /\ UNCHANGED <<vars, nonce, issued, served, taken>>

\* Mutant of Include: an unpin result is taken for a delete result.
IncludeUnpinDeletes(node) ==
    /\ nonce[node] \in DOMAIN pool[node]
    /\ LET tx == pool[node][nonce[node]]
       IN  \/ tx.call = "AddBytes" /\ submit_ipfs_add_results(tx.who, tx.cid)
           \/ tx.call \in {"RemovePin", "RemoveBlock"} /\ submit_ipfs_delete_results(tx.cid)
           \/ tx.call = "InsertPin" /\ UNCHANGED vars
    /\ nonce' = [nonce EXCEPT ![node] = @ + 1]
    /\ pool' = [pool EXCEPT ![node] = RemoveKey(@, nonce[node])]
    /\ taken' = (taken \/ DataQueue' # DataQueue)
    /\ UNCHANGED <<workers, issued, served>>

\* A block includes the node's next transaction; a pin or unpin result for an asset
\* that is gone is refused.
Include(node) ==
    /\ nonce[node] \in DOMAIN pool[node]
    /\ LET tx == pool[node][nonce[node]]
       IN  \/ tx.call = "AddBytes" /\ submit_ipfs_add_results(tx.who, tx.cid)
           \/ tx.call = "RemoveBlock" /\ submit_ipfs_delete_results(tx.cid)
           \/ tx.call = "InsertPin" /\ submit_ipfs_pin_results(tx.cid)
           \/ tx.call = "RemovePin" /\ submit_ipfs_unpin_results(tx.cid)
           \/ tx.call \in {"InsertPin", "RemovePin"} /\ ~Exists(tx.cid) /\ UNCHANGED vars
    /\ nonce' = [nonce EXCEPT ![node] = @ + 1]
    /\ pool' = [pool EXCEPT ![node] = RemoveKey(@, nonce[node])]
    /\ taken' = (taken \/ DataQueue' # DataQueue)
    /\ UNCHANGED <<workers, issued, served>>

\* A node stops: its workers are gone, and so may be the transactions it submitted.
Restart(node) ==
    /\ workers[node] # << >> \/ pool[node] # << >>
    /\ workers' = [workers EXCEPT ![node] = << >>]
    /\ pool' \in {pool, [pool EXCEPT ![node] = << >>]}
    /\ UNCHANGED <<vars, nonce, issued, served, taken>>

WorkerStep(node) == \E b \in DOMAIN workers[node] : Request(node, b) \/ SendSigned(node, b)

SysNext ==
    \/ SysUserCall
    \/ \E up \in SUBSET Nodes : EndBlock(up)
    \/ \E node \in Nodes : WorkerStep(node) \/ Include(node) \/ Restart(node)

SysSpec == SysInit /\ [][SysNext]_sysVars

\* Every request returns by its deadline, so a worker always takes its next step.
SysFairSpec == SysSpec /\ \A node \in Nodes : WF_sysVars(WorkerStep(node))

-----------------------------------------------------------------------------
\* Properties

\* A worker has a command to serve and is within its plan; the pool has no transaction
\* whose nonce is used up.
SysTypeOK ==
    /\ issued \subseteq DataCommand
    /\ served \subseteq issued
    /\ nonce \in [Nodes -> Nat]
    /\ taken \in BOOLEAN
    /\ \A node \in Nodes :
         /\ DOMAIN workers[node] \subseteq 1 .. block - 1
         /\ \A b \in DOMAIN workers[node] :
              LET w == workers[node][b]
              IN  w.cmds # <<>> /\ w.at \in DOMAIN Plan(Head(w.cmds).op) /\ w.nonce \in Nat
         /\ \A k \in DOMAIN pool[node] : k >= nonce[node]

\* An IPFS node has carried out a command that the given result reports.
Justified(result) == \E c \in served : ResultOf(c) = result

Result(call, cid, who) == [call |-> call, cid |-> cid, who |-> who]

\* Every result on its way to the chain, and every asset on it, goes back to a command
\* that a user issued and an IPFS node carried out: handle_data_requests reports no
\* command that failed, whatever is delayed, repeated or lost.
ResultsWereServed ==
    /\ \A node \in Nodes : \A k \in DOMAIN pool[node] : Justified(pool[node][k])
    /\ \A cid \in DOMAIN IpfsAsset : \E a \in Accounts : Justified(Result("AddBytes", cid, a))

\* A command is in the queue until the block it was issued in is complete, so that the
\* workers of that block can serve it, unless a result included in the same block took
\* the queue: submit_ipfs_*_results drop the commands of other users.
CommandsOffered ==
    \A c \in issued : c.at = block => Has(DataQueue, c) \/ taken

\* An asset disappears, or loses its pin, only after an IPFS node removed its block or
\* its pin because a user once asked for that.
ChangesWereOrdered ==
    [][\A cid \in DOMAIN IpfsAsset :
         /\ ~Exists(cid)' => \E a \in Accounts : Justified(Result("RemoveBlock", cid, a))
         /\ Exists(cid)' /\ IpfsAsset[cid].pinned /\ ~(IpfsAsset[cid].pinned)' =>
              \E a \in Accounts : Justified(Result("RemovePin", cid, a))]_sysVars

\* create_ipfs_asset checks what its sender owns when the command is queued; by the time
\* the result is applied the asset may be somebody else's.  An account leaves the owners
\* of an asset that stays only if an Owner of before remains Owner (remove_ownership),
\* or if the whole record was replaced for the sender of an add that was carried out.
OwnersReplacedByAdd ==
    [][\A cid \in DOMAIN IpfsAsset :
         Exists(cid)' /\ ~(DOMAIN IpfsAsset[cid].owners \subseteq DOMAIN IpfsAsset'[cid].owners) =>
            \/ \E a \in Accounts : IsOwner(cid, a) /\ IsOwner(cid, a)'
            \/ \E a \in Accounts : /\ IpfsAsset'[cid] = NewAsset(a)
                                   /\ Justified(Result("AddBytes", cid, a))]_sysVars

\* The worker of block b only serves commands of blocks b and b - 1, and of b - 1 only
\* if b is even: a command is served by two workers of a node at most.
ServedTwiceAtMost ==
    \A node \in Nodes : \A b \in DOMAIN workers[node] :
      \A i \in DOMAIN workers[node][b].cmds :
        workers[node][b].cmds[i].at \in IF b % 2 = 1 THEN {b} ELSE {b - 1, b}

\* Every off-chain worker ends, unless its node stops before: no error path of
\* handle_data_requests leaves it where it was.
WorkersEnd ==
    \A node \in Nodes : \A b \in 1 .. MaxBlock - 1 :
      (b \in DOMAIN workers[node]) ~> (b \notin DOMAIN workers[node])
=============================================================================
