-------------------------- MODULE IpfsSystemProofs --------------------------
(***************************************************************************)
(* Theorems about pallet-ipfs with its off-chain workers, for every set of *)
(* nodes, accounts and cids and every bound.                               *)
(***************************************************************************)
EXTENDS IpfsSystem, IpfsPalletProofs

\* AddBytesRaw carries a payload, every other command a cid.
WellFormed(c) ==
    /\ c \in DataCommand
    /\ IF c.op = "AddBytesRaw" THEN c.arg \in Data ELSE c.arg \in Cids

\* The blocks whose commands the worker of block b may have.
Window(b) == IF b % 2 = 1 THEN {b} ELSE {b - 1, b}

\* A worker of block b that has something to do: its commands were issued, and it is past
\* the first step of a command only if the IPFS node has carried the command out.
WorkerOK(w, b, iss, srv) ==
    /\ w \in [cmds : Seq(DataCommand), at : Nat, nonce : Nat]
    /\ \A i \in DOMAIN w.cmds : w.cmds[i] \in iss /\ w.cmds[i].at \in Window(b)
    /\ w.cmds # <<>>
    /\ w.at \in DOMAIN Plan(Head(w.cmds).op)
    /\ w.at > 1 => Head(w.cmds) \in srv

WorkersInv ==
    /\ DOMAIN workers = Nodes
    /\ \A node \in Nodes : \A b \in DOMAIN workers[node] :
         b \in 1 .. block - 1 /\ WorkerOK(workers[node][b], b, issued, served)

\* What the calls in the pool report.
Reported == {"AddBytes", "InsertPin", "RemovePin", "RemoveBlock"}

PoolInv ==
    /\ nonce \in [Nodes -> Nat]
    /\ DOMAIN pool = Nodes
    /\ \A node \in Nodes : \A k \in DOMAIN pool[node] :
         /\ k \in Nat /\ k >= nonce[node]
         /\ Justified(pool[node][k]) /\ pool[node][k].call \in Reported

HistoryInv ==
    /\ \A c \in issued : WellFormed(c) /\ c.at <= block
    /\ Elements(DataQueue) \subseteq issued
    /\ served \subseteq issued
    /\ block > 0
    /\ taken \in BOOLEAN
    /\ CommandsOffered

AssetsInv ==
    \A cid \in DOMAIN IpfsAsset : \E a \in Accounts : Justified(Result("AddBytes", cid, a))

\* The inductive invariant.
SysInv == TypeOK /\ QueueFresh /\ HistoryInv /\ WorkersInv /\ PoolInv /\ AssetsInv

-----------------------------------------------------------------------------
\* Every plan asks the IPFS node first and reports afterwards.
LEMMA PlanShape ==
    ASSUME NEW op \in Ops
    PROVE  /\ DOMAIN Plan(op) = 1 .. Len(Plan(op))
           /\ Len(Plan(op)) \in Nat
           /\ 1 \in DOMAIN Plan(op)
           /\ Plan(op)[1] # Submit
           /\ op = "CatBytes" => Len(Plan(op)) = 1
           /\ \A i \in DOMAIN Plan(op) : Plan(op)[i].errors \subseteq {"skip", "abort"}
<1>0. Submit.errors = {}
  BY DEF Submit, Ask
<1>1. CASE op = "AddBytes"
  <2> DEFINE p1 == Ask(<<"Connect", "CatBytes", "Disconnect", "AddBytes">>, {"skip", "abort"})
             p3 == Ask(<<"InsertPin", "Disconnect">>, {})
  <2>1. Plan(op) = <<p1, Submit, p3>>
    BY <1>1 DEF Plan
  <2>2. p1.errors = {"skip", "abort"} /\ p3.errors = {}
    BY DEF Ask
  <2> HIDE DEF p1, p3
  <2> QED
    BY <1>0, <1>1, <2>1, <2>2
<1>2. CASE op = "AddBytesRaw"
  BY <1>0, <1>2 DEF Plan, Ask, Submit
<1>3. CASE op = "CatBytes"
  BY <1>0, <1>3 DEF Plan, Ask
<1>4. CASE op \notin {"AddBytes", "AddBytesRaw", "CatBytes"}
  <2> DEFINE p == Ask(<<op>>, {"skip"})
  <2>1. Plan(op) = <<p, Submit>>
    BY <1>4 DEF Plan
  <2>2. p.errors = {"skip"}
    BY DEF Ask
  <2> HIDE DEF p
  <2> QED
    BY <1>0, <1>4, <2>1, <2>2
<1> QED
  BY <1>1, <1>2, <1>3, <1>4

\* The result of a command names a cid and the sender of the command.
LEMMA ResultType ==
    ASSUME NEW c, WellFormed(c)
    PROVE  /\ ResultOf(c).cid \in Cids /\ ResultOf(c).who \in Accounts
           /\ ResultOf(c) = Result(ResultOf(c).call, ResultOf(c).cid, ResultOf(c).who)
           /\ ResultOf(c).call \in Ops
  BY SystemAssumption DEF WellFormed, ResultOf, Result, DataCommand, Ops

\* The first command of a worker was issued; what is left is as good as what was there.
LEMMA WorkerQueue ==
    ASSUME NEW iss, NEW srv, NEW b, NEW w, WorkerOK(w, b, iss, srv)
    PROVE  /\ Head(w.cmds) \in iss /\ Head(w.cmds) \in DataCommand
           /\ Head(w.cmds).op \in Ops
           /\ Tail(w.cmds) \in Seq(DataCommand)
           /\ \A i \in DOMAIN Tail(w.cmds) :
                Tail(w.cmds)[i] \in iss /\ Tail(w.cmds)[i].at \in Window(b)
<1>1. w.cmds \in Seq(DataCommand) /\ w.cmds # <<>>
  BY DEF WorkerOK
<1>2. Len(w.cmds) \in Nat /\ Len(w.cmds) > 0 /\ 1 \in DOMAIN w.cmds
  BY <1>1
<1>3. Head(w.cmds) = w.cmds[1] /\ w.cmds[1] \in DataCommand
  BY <1>1, <1>2
<1>4. Head(w.cmds).op \in Ops
  BY <1>3 DEF DataCommand
<1>5. Tail(w.cmds) \in Seq(DataCommand)
  BY <1>1
<1>6. \A i \in DOMAIN Tail(w.cmds) : i + 1 \in DOMAIN w.cmds /\ Tail(w.cmds)[i] = w.cmds[i + 1]
  BY <1>1, <1>2
<1> QED
  BY <1>2, <1>3, <1>4, <1>5, <1>6 DEF WorkerOK

\* The parts of a worker.
LEMMA WorkerFields ==
    ASSUME NEW q, NEW a, NEW n
    PROVE  /\ Worker(q, a, n).cmds = q /\ Worker(q, a, n).at = a /\ Worker(q, a, n).nonce = n
           /\ q \in Seq(DataCommand) /\ a \in Nat /\ n \in Nat =>
                Worker(q, a, n) \in [cmds : Seq(DataCommand), at : Nat, nonce : Nat]
  BY DEF Worker

\* A worker that is about to start the first of some commands.
LEMMA FreshWorkerOK ==
    ASSUME NEW iss, NEW srv, NEW b, NEW q \in Seq(DataCommand), q # <<>>, NEW n \in Nat,
           \A i \in DOMAIN q : q[i] \in iss /\ q[i].at \in Window(b)
    PROVE  WorkerOK(Worker(q, 1, n), b, iss, srv)
<1>1. Head(q) \in DataCommand
  OBVIOUS
<1>2. Head(q).op \in Ops
  BY <1>1 DEF DataCommand
<1>3. 1 \in DOMAIN Plan(Head(q).op)
  BY <1>2, PlanShape
<1> QED
  BY <1>3, WorkerFields DEF WorkerOK

\* A worker goes on after a step that succeeded, with the command carried out.
LEMMA AdvancedOK ==
    ASSUME NEW iss, NEW srv, NEW b, NEW w, WorkerOK(w, b, iss, srv), Head(w.cmds) \in srv,
           Advanced(w).cmds # <<>>
    PROVE  WorkerOK(Advanced(w), b, iss, srv)
<1>1. CASE w.at < Len(Plan(Head(w.cmds).op))
  <2>1. w \in [cmds : Seq(DataCommand), at : Nat, nonce : Nat]
    BY DEF WorkerOK
  <2>2. Advanced(w) = [cmds |-> w.cmds, at |-> w.at + 1, nonce |-> w.nonce]
    BY <1>1, <2>1 DEF Advanced, Worker
  <2>3. w.at + 1 \in DOMAIN Plan(Head(w.cmds).op)
    BY <1>1, <2>1, WorkerQueue, PlanShape
  <2> QED
    BY <2>1, <2>2, <2>3 DEF WorkerOK
<1>2. CASE ~(w.at < Len(Plan(Head(w.cmds).op)))
  <2> DEFINE t == Tail(w.cmds)
             n == w.nonce
  <2>1. Advanced(w) = Worker(t, 1, n)
    BY <1>2 DEF Advanced
  <2>2. n \in Nat
    BY DEF WorkerOK
  <2>3. t \in Seq(DataCommand) /\ \A i \in DOMAIN t : t[i] \in iss /\ t[i].at \in Window(b)
    BY WorkerQueue
  <2> HIDE DEF t, n
  <2>4. t # <<>>
    BY <2>1, WorkerFields
  <2> QED
    BY <2>1, <2>2, <2>3, <2>4, FreshWorkerOK
<1> QED
  BY <1>1, <1>2

\* More commands issued and more carried out do no harm.
LEMMA WorkerOKMonotone ==
    ASSUME NEW iss, NEW srv, NEW jss, NEW trv, NEW b, NEW w, WorkerOK(w, b, iss, srv),
           iss \subseteq jss, srv \subseteq trv
    PROVE  WorkerOK(w, b, jss, trv)
  BY DEF WorkerOK

\* SetWorker replaces one worker, or removes it when it has nothing left.
LEMMA SetWorkerOK ==
    ASSUME WorkersInv, NEW iss, NEW srv, issued \subseteq iss, served \subseteq srv,
           NEW node \in Nodes, NEW b \in DOMAIN workers[node], NEW w,
           SetWorker(node, b, w), w.cmds # <<>> => WorkerOK(w, b, iss, srv)
    PROVE  /\ DOMAIN workers' = Nodes
           /\ \A n \in Nodes : \A c \in DOMAIN workers'[n] :
                c \in 1 .. block - 1 /\ WorkerOK(workers'[n][c], c, iss, srv)
<1>1. DOMAIN workers' = Nodes /\ \A n \in Nodes : n # node => workers'[n] = workers[n]
  BY DEF WorkersInv, SetWorker
<1>2. CASE w.cmds = <<>>
  <2>1. workers'[node] = RemoveKey(workers[node], b)
    BY <1>2 DEF WorkersInv, SetWorker
  <2> QED
    BY <1>1, <2>1, WorkerOKMonotone DEF WorkersInv, RemoveKey
<1>3. CASE w.cmds # <<>>
  <2>1. workers'[node] = Insert(workers[node], b, w)
    BY <1>3 DEF WorkersInv, SetWorker
  <2> QED
    BY <1>1, <1>3, <2>1, WorkerOKMonotone DEF WorkersInv, Insert
<1> QED
  BY <1>2, <1>3

-----------------------------------------------------------------------------
\* What a user's call does to the queue: it adds well-formed commands of this block,
\* or leaves it.
LEMMA UserCallQueue ==
    ASSUME TypeOK, UserCall
    PROVE  /\ block' = block
           /\ Elements(DataQueue) \subseteq Elements(DataQueue')
           /\ \A c \in Elements(DataQueue') \ Elements(DataQueue) : WellFormed(c) /\ c.at = block
<1> DEFINE Goal == /\ block' = block
                   /\ Elements(DataQueue) \subseteq Elements(DataQueue')
                   /\ \A c \in Elements(DataQueue') \ Elements(DataQueue) :
                        WellFormed(c) /\ c.at = block
<1>1. ASSUME NEW cmds \in Seq(DataCommand), Enqueue(cmds),
             \A i \in DOMAIN cmds : WellFormed(cmds[i]) /\ cmds[i].at = block
      PROVE  Goal
  <2>1. block' = block /\ DataQueue' = DataQueue \o cmds /\ DataQueue \in Seq(DataCommand)
    BY <1>1 DEF Enqueue, TypeOK
  <2>2. \A i \in DOMAIN DataQueue : i \in DOMAIN DataQueue' /\ DataQueue'[i] = DataQueue[i]
    BY <2>1
  <2>3. \A i \in DOMAIN DataQueue' :
          \/ i \in DOMAIN DataQueue /\ DataQueue'[i] = DataQueue[i]
          \/ i - Len(DataQueue) \in DOMAIN cmds /\ DataQueue'[i] = cmds[i - Len(DataQueue)]
    BY <2>1
  <2> QED
    BY <1>1, <2>1, <2>2, <2>3 DEF Elements
<1>2. ASSUME UNCHANGED <<block, DataQueue>> PROVE Goal
  BY <1>2
<1> HIDE DEF Goal
<1>3. ASSUME NEW op \in Ops, NEW arg, NEW sender \in Accounts,
             IF op = "AddBytesRaw" THEN arg \in Data ELSE arg \in Cids
      PROVE  /\ <<Command(op, arg, sender)>> \in Seq(DataCommand)
             /\ WellFormed(Command(op, arg, sender)) /\ Command(op, arg, sender).at = block
  BY <1>3 DEF Command, DataCommand, WellFormed, TypeOK
<1>4. ASSUME NEW op \in Ops, NEW arg, NEW sender \in Accounts,
             IF op = "AddBytesRaw" THEN arg \in Data ELSE arg \in Cids,
             Enqueue(<<Command(op, arg, sender)>>)
      PROVE  Goal
  <2> DEFINE c == Command(op, arg, sender)
  <2>1. <<c>> \in Seq(DataCommand) /\ WellFormed(c) /\ c.at = block
    BY <1>3, <1>4
  <2>2. Enqueue(<<c>>)
    BY <1>4
  <2> HIDE DEF c
  <2>3. \A i \in DOMAIN <<c>> : <<c>>[i] = c
    OBVIOUS
  <2> QED
    BY <1>1, <2>1, <2>2, <2>3, Zenon
<1>5. ASSUME NEW sender \in Accounts, NEW data \in Data, create_ipfs_asset_raw(sender, data)
      PROVE  Goal
  BY <1>4, <1>5 DEF create_ipfs_asset_raw, Ops
<1>6. ASSUME NEW sender \in Accounts, NEW cid \in Cids,
             \/ create_ipfs_asset(sender, cid) \/ pin_ipfs_asset(sender, cid)
             \/ unpin_ipfs_asset(sender, cid) \/ read_file(sender, cid)
      PROVE  Goal
  BY <1>4, <1>6 DEF create_ipfs_asset, pin_ipfs_asset, unpin_ipfs_asset, read_file, Ops
<1>7. ASSUME NEW sender \in Accounts, NEW cid \in Cids, delete_ipfs_asset(sender, cid)
      PROVE  Goal
  <2> DEFINE p == Command("RemovePin", cid, sender)
             r == Command("RemoveBlock", cid, sender)
  <2>1. p \in DataCommand /\ r \in DataCommand
    BY <1>3 DEF Ops, WellFormed
  <2>2. WellFormed(p) /\ p.at = block /\ WellFormed(r) /\ r.at = block
    BY <1>3 DEF Ops
  <2>3. Enqueue(<<p>> \o <<r>>) \/ Enqueue(<<>> \o <<r>>)
    BY <1>7, Zenon DEF delete_ipfs_asset
  <2> HIDE DEF p, r
  <2>4. CASE Enqueue(<<p>> \o <<r>>)
    <3>1. <<p>> \o <<r>> \in Seq(DataCommand)
      BY <2>1
    <3>2. \A i \in DOMAIN (<<p>> \o <<r>>) :
            (<<p>> \o <<r>>)[i] = p \/ (<<p>> \o <<r>>)[i] = r
      BY <2>1
    <3> QED
      BY <1>1, <2>2, <2>4, <3>1, <3>2, Zenon
  <2>5. CASE Enqueue(<<>> \o <<r>>)
    <3>1. <<>> \o <<r>> = <<r>> /\ <<r>> \in Seq(DataCommand)
      BY <2>1
    <3>2. \A i \in DOMAIN <<r>> : <<r>>[i] = r
      OBVIOUS
    <3> QED
      BY <1>1, <2>2, <2>5, <3>1, <3>2, Zenon
  <2> QED
    BY <2>3, <2>4, <2>5
<1>8. ASSUME NEW sender \in Accounts, NEW cid \in Cids, NEW acct \in Accounts,
             \/ remove_ownership(sender, cid, acct)
             \/ \E layer \in Layers : \/ add_owner(sender, cid, acct, layer)
                                      \/ change_ownership(sender, cid, acct, layer)
      PROVE  Goal
  BY <1>2, <1>8 DEF remove_ownership, add_owner, change_ownership, SetLayer
<1>9. Goal
  BY <1>5, <1>6, <1>7, <1>8 DEF UserCall
<1> QED
  BY <1>9 DEF Goal

\* A user's call keeps the pins, and takes an account out of the owners of an asset only
\* for an Owner who stays one.
LEMMA UserCallAssets ==
    ASSUME TypeOK, UserCall, NEW c \in DOMAIN IpfsAsset
    PROVE  /\ c \in DOMAIN IpfsAsset' /\ IpfsAsset'[c].pinned = IpfsAsset[c].pinned
           /\ \/ DOMAIN IpfsAsset[c].owners \subseteq DOMAIN IpfsAsset'[c].owners
              \/ \E a \in Accounts : IsOwner(c, a) /\ IsOwner(c, a)'
<1> DEFINE Goal == /\ c \in DOMAIN IpfsAsset' /\ IpfsAsset'[c].pinned = IpfsAsset[c].pinned
                   /\ \/ DOMAIN IpfsAsset[c].owners \subseteq DOMAIN IpfsAsset'[c].owners
                      \/ \E a \in Accounts : IsOwner(c, a) /\ IsOwner(c, a)'
<1>0. IpfsAsset[c] \in Ipfs /\ c \in Cids
  BY DEF TypeOK
<1>1. ASSUME NEW cmds, Enqueue(cmds) PROVE Goal
  BY <1>1 DEF Enqueue
<1>2. ASSUME NEW signer \in Accounts, NEW cid \in Cids, NEW acct \in Accounts,
             remove_ownership(signer, cid, acct)
      PROVE  Goal
  <2>1. CASE c # cid
    BY <1>2, <2>1 DEF remove_ownership, TypeOK
  <2>2. CASE c = cid
    <3>1. /\ c \in DOMAIN IpfsAsset'
          /\ IpfsAsset'[c] = Asset(RemoveKey(IpfsAsset[c].owners, acct), IpfsAsset[c].pinned)
      BY <1>2, <2>2 DEF remove_ownership, TypeOK
    <3>2. /\ IpfsAsset'[c].owners = RemoveKey(IpfsAsset[c].owners, acct)
          /\ IpfsAsset'[c].pinned = IpfsAsset[c].pinned
      BY <3>1 DEF Asset
    <3>3. IsOwner(c, signer) /\ signer # acct
      BY <1>2, <2>2 DEF remove_ownership
    <3>4. IsOwner(c, signer)'
      BY <3>1, <3>2, <3>3 DEF IsOwner, Exists, RemoveKey
    <3> QED
      BY <3>1, <3>2, <3>3, <3>4
  <2> QED
    BY <2>1, <2>2
<1>3. ASSUME NEW cid \in Cids, NEW acct \in Accounts, NEW layer \in Layers,
             SetLayer(cid, acct, layer)
      PROVE  Goal
  <2>1. CASE c # cid
    BY <1>3, <2>1 DEF SetLayer, TypeOK
  <2>2. CASE c = cid
    <3>1. /\ c \in DOMAIN IpfsAsset'
          /\ IpfsAsset'[c] = Asset(Insert(IpfsAsset[c].owners, acct, layer), IpfsAsset[c].pinned)
      BY <1>3, <2>2 DEF SetLayer, TypeOK
    <3>2. /\ IpfsAsset'[c].owners = Insert(IpfsAsset[c].owners, acct, layer)
          /\ IpfsAsset'[c].pinned = IpfsAsset[c].pinned
      BY <3>1 DEF Asset
    <3> QED
      BY <3>1, <3>2 DEF Insert
  <2> QED
    BY <2>1, <2>2
<1> HIDE DEF Goal
<1>4. ASSUME NEW a \in Accounts, NEW cid \in Cids,
             \/ create_ipfs_asset(a, cid) \/ pin_ipfs_asset(a, cid) \/ unpin_ipfs_asset(a, cid)
             \/ delete_ipfs_asset(a, cid) \/ read_file(a, cid)
      PROVE  Goal
  BY <1>1, <1>4, Zenon
     DEF create_ipfs_asset, pin_ipfs_asset, unpin_ipfs_asset, delete_ipfs_asset, read_file
<1>5. ASSUME NEW a \in Accounts, NEW d \in Data, create_ipfs_asset_raw(a, d) PROVE Goal
  BY <1>1, <1>5, Zenon DEF create_ipfs_asset_raw
<1>6. ASSUME NEW signer \in Accounts, NEW cid \in Cids, NEW a \in Accounts, NEW layer \in Layers,
             add_owner(signer, cid, a, layer) \/ change_ownership(signer, cid, a, layer)
      PROVE  Goal
  BY <1>3, <1>6, Zenon DEF add_owner, change_ownership
<1>7. Goal
  BY <1>2, <1>4, <1>5, <1>6, Zenon DEF UserCall
<1> QED
  BY <1>7 DEF Goal

-----------------------------------------------------------------------------
\* The result a block includes reports a well-formed command that was carried out.
LEMMA PooledResult ==
    ASSUME SysInv, NEW node \in Nodes, NEW k \in DOMAIN pool[node]
    PROVE  /\ Justified(pool[node][k])
           /\ pool[node][k].cid \in Cids /\ pool[node][k].who \in Accounts
           /\ pool[node][k] = Result(pool[node][k].call, pool[node][k].cid, pool[node][k].who)
           /\ pool[node][k].call \in Reported
<1>1. Justified(pool[node][k]) /\ pool[node][k].call \in Reported
  BY DEF SysInv, PoolInv
<1>2. PICK c \in served : ResultOf(c) = pool[node][k]
  BY <1>1 DEF Justified
<1>3. WellFormed(c)
  BY DEF SysInv, HistoryInv
<1> QED
  BY <1>1, <1>2, <1>3, ResultType

\* What a result does to the assets, and the command it goes back to.
ResultEffect ==
    \E cid \in Cids, who \in Accounts :
      \/ UNCHANGED IpfsAsset
      \/ /\ IpfsAsset' = Insert(IpfsAsset, cid, NewAsset(who))
         /\ Justified(Result("AddBytes", cid, who))
      \/ /\ IpfsAsset' = RemoveKey(IpfsAsset, cid)
         /\ Justified(Result("RemoveBlock", cid, who))
      \/ /\ Exists(cid)
         /\ IpfsAsset' = [IpfsAsset EXCEPT ![cid] = Asset(@.owners, TRUE)]
      \/ /\ Exists(cid)
         /\ IpfsAsset' = [IpfsAsset EXCEPT ![cid] = Asset(@.owners, FALSE)]
         /\ Justified(Result("RemovePin", cid, who))

\* The inclusion of a result is one of the four result calls, or changes nothing; the
\* asset it touches is the one its command named.
LEMMA IncludeStep ==
    ASSUME SysInv, NEW node \in Nodes, Include(node)
    PROVE  /\ [ResultCall]_vars /\ block' = block
           /\ DataQueue' = DataQueue \/ DataQueue' = <<>>
           /\ ResultEffect
<1> DEFINE tx == pool[node][nonce[node]]
           c == tx.cid
           a == tx.who
           Goal == /\ [ResultCall]_vars /\ block' = block
                   /\ DataQueue' = DataQueue \/ DataQueue' = <<>>
                   /\ ResultEffect
<1> USE DEF ResultEffect
<1>0. nonce[node] \in DOMAIN pool[node]
  BY DEF Include
<1>1. /\ Justified(tx) /\ c \in Cids /\ a \in Accounts /\ tx = Result(tx.call, c, a)
      /\ tx.call \in Reported
  BY <1>0, PooledResult
<1>2. ASSUME tx.call = "AddBytes", submit_ipfs_add_results(a, c) PROVE Goal
  <2>1. Justified(Result("AddBytes", c, a))
    BY <1>1, <1>2
  <2> QED
    BY <1>1, <1>2, <2>1, Zenon DEF submit_ipfs_add_results, ResultCall
<1>3. ASSUME tx.call = "RemoveBlock", submit_ipfs_delete_results(c) PROVE Goal
  <2>1. Justified(Result("RemoveBlock", c, a))
    BY <1>1, <1>3
  <2> QED
    BY <1>1, <1>3, <2>1, Zenon DEF submit_ipfs_delete_results, ResultCall
<1>4. ASSUME UNCHANGED vars PROVE Goal
  BY <1>1, <1>4 DEF vars
<1>5. ASSUME submit_ipfs_pin_results(c) PROVE Goal
  <2>1. ResultCall
    BY <1>1, <1>5 DEF ResultCall
  <2> QED
    BY <1>1, <1>5, <2>1, Zenon DEF SetPinned, submit_ipfs_pin_results
<1>6. ASSUME tx.call = "RemovePin", submit_ipfs_unpin_results(c) PROVE Goal
  <2>1. ResultCall
    BY <1>1, <1>6 DEF ResultCall
  <2>2. Justified(Result("RemovePin", c, a))
    BY <1>1, <1>6, SMTT(30)
  <2> QED
    BY <1>1, <1>6, <2>1, <2>2, Zenon DEF SetPinned, submit_ipfs_unpin_results
<1> HIDE DEF Goal
<1>7. Goal
  BY <1>2, <1>3, <1>4, <1>5, <1>6 DEF Include
<1> QED
  BY <1>7, Zenon DEF Goal

\* Every step of the system is a step of the pallet or leaves the pallet alone.
LEMMA StepIsPalletStep ==
    ASSUME SysInv, [SysNext]_sysVars PROVE [Next]_vars
<1>1. ASSUME SysUserCall PROVE Next
  BY <1>1 DEF SysUserCall, Next
<1>2. ASSUME NEW up \in SUBSET Nodes, EndBlock(up) PROVE Next
  BY <1>2 DEF EndBlock, Next
<1>3. ASSUME NEW node \in Nodes, WorkerStep(node) PROVE UNCHANGED vars
  BY <1>3 DEF WorkerStep, Request, SendSigned
<1>4. ASSUME NEW node \in Nodes, Include(node) PROVE [Next]_vars
  BY <1>4, IncludeStep DEF Next
<1>5. ASSUME NEW node \in Nodes, Restart(node) PROVE UNCHANGED vars
  BY <1>5 DEF Restart
<1>6. ASSUME UNCHANGED sysVars PROVE UNCHANGED vars
  BY <1>6 DEF sysVars, vars
<1> QED
  BY <1>1, <1>2, <1>3, <1>4, <1>5, <1>6 DEF SysNext

\* A result stays justified: what an IPFS node has carried out is not forgotten.
LEMMA JustifiedStable ==
    ASSUME served \subseteq served', NEW r, Justified(r) PROVE Justified(r)'
  BY DEF Justified

\* The invariant holds at the start.
LEMMA SysInitInv == ASSUME SysInit PROVE SysInv
<1>1. TypeOK
  BY BoundsAssumption DEF SysInit, Init, TypeOK
<1>2. QueueFresh
  BY DEF SysInit, Init, QueueFresh
<1>3. HistoryInv
  <2>1. taken \in BOOLEAN
    BY Zenon DEF SysInit
  <2>2. issued = {} /\ served = {} /\ Elements(DataQueue) = {} /\ block > 0
    BY DEF SysInit, Init, Elements
  <2> QED
    BY <2>1, <2>2 DEF HistoryInv, CommandsOffered
<1>4. WorkersInv /\ PoolInv
  BY DEF SysInit, WorkersInv, PoolInv
<1>5. AssetsInv
  BY DEF SysInit, Init, AssetsInv
<1> QED
  BY <1>1, <1>2, <1>3, <1>4, <1>5 DEF SysInv

\* A user's call.
LEMMA UserStep == ASSUME SysInv, SysUserCall, TypeOK' PROVE HistoryInv' /\ WorkersInv' /\ PoolInv' /\ AssetsInv'
<1>0. TypeOK /\ HistoryInv /\ WorkersInv /\ PoolInv /\ AssetsInv /\ block \in Nat
  BY DEF SysInv, TypeOK
<1>1. /\ UserCall /\ issued' = issued \cup Elements(DataQueue')
      /\ UNCHANGED <<workers, nonce, pool, served, taken>>
  BY DEF SysUserCall
<1>2. /\ block' = block
      /\ Elements(DataQueue) \subseteq Elements(DataQueue')
      /\ \A c \in Elements(DataQueue') \ Elements(DataQueue) : WellFormed(c) /\ c.at = block
  BY <1>0, <1>1, UserCallQueue
<1>3. HistoryInv'
  <2>1. \A c \in issued' : WellFormed(c) /\ c.at <= block
    BY <1>0, <1>1, <1>2 DEF HistoryInv
  <2>2. CommandsOffered'
    BY <1>0, <1>1, <1>2 DEF HistoryInv, CommandsOffered, Has
  <2> QED
    BY <1>0, <1>1, <1>2, <2>1, <2>2 DEF HistoryInv
<1>4. WorkersInv'
  BY <1>0, <1>1, <1>2, WorkerOKMonotone DEF WorkersInv
<1>5. \A r : Justified(r)' <=> Justified(r)
  BY <1>1 DEF Justified
<1>6. PoolInv'
  BY <1>0, <1>1, <1>5 DEF PoolInv
<1>7. DOMAIN IpfsAsset' = DOMAIN IpfsAsset
  BY <1>0, <1>1, AssetsKept
<1>8. AssetsInv'
  BY <1>0, <1>5, <1>7 DEF AssetsInv
<1> QED
  BY <1>3, <1>4, <1>6, <1>8

\* The end of a block: new workers get the queue as the block left it.
LEMMA BlockStep ==
    ASSUME SysInv, NEW up \in SUBSET Nodes, EndBlock(up)
    PROVE  HistoryInv' /\ WorkersInv' /\ PoolInv' /\ AssetsInv'
<1>0. TypeOK /\ QueueFresh /\ HistoryInv /\ WorkersInv /\ PoolInv /\ AssetsInv /\ block \in Nat
  BY DEF SysInv, TypeOK
<1>1. /\ block' = block + 1 /\ taken' = FALSE
      /\ DataQueue' = DataQueue \/ DataQueue' = <<>>
      /\ UNCHANGED <<IpfsAsset, nonce, pool, issued, served>>
  BY DEF EndBlock, NextBlock, on_initialize
<1>2. HistoryInv'
  <2>1. Elements(DataQueue') \subseteq issued
    BY <1>0, <1>1 DEF HistoryInv, Elements
  <2>2. \A c \in issued : WellFormed(c) /\ c.at <= block + 1 /\ c.at # block + 1
    <3> SUFFICES ASSUME NEW c \in issued
                 PROVE  WellFormed(c) /\ c.at <= block + 1 /\ c.at # block + 1
      OBVIOUS
    <3>1. WellFormed(c) /\ c.at <= block
      BY <1>0 DEF HistoryInv
    <3>2. c.at \in Nat
      BY <3>1 DEF WellFormed, DataCommand
    <3> QED
      BY <1>0, <3>1, <3>2
  <2>3. taken' \in BOOLEAN
    BY <1>1, Zenon
  <2> QED
    BY <1>0, <1>1, <2>1, <2>2, <2>3 DEF HistoryInv, CommandsOffered
<1>3. WorkersInv'
  <2>1. DOMAIN workers' = Nodes
    BY DEF EndBlock
  <2>2. ASSUME NEW node \in Nodes, NEW b \in DOMAIN workers'[node]
        PROVE  b \in 1 .. block /\ WorkerOK(workers'[node][b], b, issued, served)
    <3>1. CASE workers'[node] = workers[node]
      BY <1>0, <2>2, <3>1 DEF WorkersInv
    <3>2. CASE /\ DataQueue # <<>>
               /\ workers'[node] = Insert(workers[node], block, Worker(DataQueue, 1, nonce[node]))
      <4>1. WorkerOK(Worker(DataQueue, 1, nonce[node]), block, issued, served)
        <5>1. DataQueue \in Seq(DataCommand) /\ nonce[node] \in Nat
          BY <1>0 DEF TypeOK, PoolInv
        <5>2. \A i \in DOMAIN DataQueue : DataQueue[i] \in issued /\ DataQueue[i].at \in Window(block)
          BY <1>0 DEF HistoryInv, Elements, QueueFresh, Window
        <5> QED
          BY <3>2, <5>1, <5>2, FreshWorkerOK
      <4>2. CASE b = block
        <5>1. block \in 1 .. block
          BY <1>0 DEF HistoryInv
        <5>2. workers'[node][b] = Worker(DataQueue, 1, nonce[node])
          BY <3>2, <4>2 DEF Insert
        <5> QED
          BY <4>1, <4>2, <5>1, <5>2
      <4>3. CASE b # block
        <5>1. b \in DOMAIN workers[node] /\ workers'[node][b] = workers[node][b]
          BY <2>2, <3>2, <4>3 DEF Insert
        <5> QED
          BY <1>0, <5>1 DEF WorkersInv
      <4> QED
        BY <4>2, <4>3
    <3> QED
      BY <3>1, <3>2 DEF EndBlock
  <2> QED
    BY <1>0, <1>1, <2>1, <2>2 DEF WorkersInv
<1>4. \A r : Justified(r)' <=> Justified(r)
  BY <1>1 DEF Justified
<1>5. PoolInv' /\ AssetsInv'
  BY <1>0, <1>1, <1>4 DEF PoolInv, AssetsInv
<1> QED
  BY <1>2, <1>3, <1>5

\* A request to the IPFS node, answered or failed.
LEMMA RequestStep ==
    ASSUME SysInv, NEW node \in Nodes, NEW b \in DOMAIN workers[node], Request(node, b)
    PROVE  HistoryInv' /\ WorkersInv' /\ PoolInv' /\ AssetsInv'
<1> DEFINE w == workers[node][b]
<1>0. HistoryInv /\ WorkersInv /\ PoolInv /\ AssetsInv /\ WorkerOK(w, b, issued, served)
  BY DEF SysInv, WorkersInv
<1>1. UNCHANGED <<block, DataQueue, IpfsAsset, nonce, pool, issued, taken>>
  BY DEF Request, vars
<1>2. Head(w.cmds) \in issued /\ Head(w.cmds).op \in Ops
  BY <1>0, WorkerQueue
<1>3. ASSUME SetWorker(node, b, Advanced(w)), served' = served \cup {Head(w.cmds)}
      PROVE  WorkersInv' /\ served \subseteq served' /\ served' \subseteq issued
  <2>1. WorkerOK(w, b, issued, served')
    BY <1>0, <1>3, WorkerOKMonotone
  <2>2. Advanced(w).cmds # <<>> => WorkerOK(Advanced(w), b, issued, served')
    BY <1>3, <2>1, AdvancedOK
  <2>3. /\ DOMAIN workers' = Nodes
        /\ \A n \in Nodes : \A c \in DOMAIN workers'[n] :
             c \in 1 .. block - 1 /\ WorkerOK(workers'[n][c], c, issued, served')
    BY <1>0, <1>3, <2>2, SetWorkerOK, Zenon
  <2> QED
    BY <1>0, <1>1, <1>2, <1>3, <2>3, Zenon DEF WorkersInv, HistoryInv
<1>4. ASSUME NEW error \in Current(w).errors, SetWorker(node, b, AfterError(w, error)),
             served' = served
      PROVE  WorkersInv' /\ served \subseteq served' /\ served' \subseteq issued
  <2>1. error \in {"skip", "abort"}
    BY <1>0, <1>2, <1>4, PlanShape, Zenon DEF Current, WorkerOK
  <2> DEFINE v == AfterError(w, error)
  <2>2. v.cmds # <<>> => WorkerOK(v, b, issued, served)
    <3>1. CASE error = "skip"
      <4> DEFINE t == Tail(w.cmds)
                 n == w.nonce
      <4>1. v = Worker(t, 1, n)
        BY <3>1 DEF AfterError
      <4>2. n \in Nat
        BY <1>0 DEF WorkerOK
      <4>3. t \in Seq(DataCommand) /\ \A i \in DOMAIN t : t[i] \in issued /\ t[i].at \in Window(b)
        BY <1>0, WorkerQueue
      <4> HIDE DEF t, n, v
      <4>4. v.cmds = t
        BY <4>1, WorkerFields
      <4> QED
        BY <4>1, <4>2, <4>3, <4>4, FreshWorkerOK
    <3>2. CASE error = "abort"
      <4> DEFINE n == w.nonce
      <4>1. v = Worker(<<>>, 1, n)
        BY <3>2 DEF AfterError
      <4> HIDE DEF n, v
      <4> QED
        BY <4>1, WorkerFields
    <3> QED
      BY <2>1, <3>1, <3>2
  <2> HIDE DEF v
  <2>3. SetWorker(node, b, v)
    BY <1>4 DEF v
  <2>4. /\ DOMAIN workers' = Nodes
        /\ \A n \in Nodes : \A c \in DOMAIN workers'[n] :
             c \in 1 .. block - 1 /\ WorkerOK(workers'[n][c], c, issued, served)
    BY <1>0, <2>2, <2>3, SetWorkerOK, Zenon
  <2> QED
    BY <1>0, <1>1, <1>4, <2>4 DEF WorkersInv, HistoryInv
<1>5. WorkersInv' /\ served \subseteq served' /\ served' \subseteq issued
  BY <1>3, <1>4 DEF Request
<1>6. HistoryInv'
  BY <1>0, <1>1, <1>5, SMTT(30) DEF HistoryInv, CommandsOffered
<1>7. PoolInv' /\ AssetsInv'
  BY <1>0, <1>1, <1>5, JustifiedStable DEF PoolInv, AssetsInv
<1> QED
  BY <1>5, <1>6, <1>7

\* A worker submits a result: the command was carried out before.
LEMMA SendStep ==
    ASSUME SysInv, NEW node \in Nodes, NEW b \in DOMAIN workers[node], SendSigned(node, b)
    PROVE  HistoryInv' /\ WorkersInv' /\ PoolInv' /\ AssetsInv'
<1> DEFINE w == workers[node][b]
           cmd == Head(w.cmds)
<1>0. /\ HistoryInv /\ WorkersInv /\ PoolInv /\ AssetsInv /\ WorkerOK(w, b, issued, served)
      /\ nonce[node] \in Nat
  BY DEF SysInv, WorkersInv, PoolInv
<1>1. UNCHANGED <<block, DataQueue, IpfsAsset, nonce, issued, served, taken>> /\ Current(w) = Submit
  BY Zenon DEF SendSigned, vars
<1>2. cmd \in issued /\ cmd.op \in Ops
  BY <1>0, WorkerQueue, SMTT(30)
<1>3. cmd \in served /\ cmd.op # "CatBytes"
  <2>1. w.at \in DOMAIN Plan(cmd.op) /\ w.at \in Nat /\ Plan(cmd.op)[w.at] = Submit
    BY <1>0, <1>1, Zenon DEF WorkerOK, Current
  <2>2. w.at # 1 /\ w.at \in 1 .. Len(Plan(cmd.op)) /\ Len(Plan(cmd.op)) \in Nat
    BY <1>2, <2>1, PlanShape, Zenon
  <2>3. w.at > 1
    BY <2>1, <2>2
  <2>4. cmd.op # "CatBytes"
    <3>1. cmd.op = "CatBytes" => Len(Plan(cmd.op)) = 1
      BY <1>2, PlanShape, SMTT(30)
    <3>2. w.at <= Len(Plan(cmd.op))
      BY <2>1, <2>2
    <3> QED
      BY <2>1, <2>3, <3>1, <3>2
  <2> QED
    BY <1>0, <2>3, <2>4 DEF WorkerOK
<1>4. Justified(ResultOf(cmd)) /\ ResultOf(cmd).call \in Reported
  BY <1>2, <1>3, Zenon DEF Justified, ResultOf, Reported, Ops
<1>5. WorkersInv'
  <2>1. Advanced(w).cmds # <<>> => WorkerOK(Advanced(w), b, issued, served)
    BY <1>0, <1>3, AdvancedOK, SMTT(30)
  <2> DEFINE q == Advanced(w).cmds
             i == Advanced(w).at
             n == w.nonce + 1
             v == Worker(q, i, n)
  <2>2. SetWorker(node, b, Advanced(w)) \/ SetWorker(node, b, v)
    BY SMTT(30) DEF SendSigned
  <2>3. n \in Nat
    BY <1>0 DEF WorkerOK
  <2>4. q # <<>> => /\ q \in Seq(DataCommand) /\ i \in Nat
                    /\ \A j \in DOMAIN q : q[j] \in issued /\ q[j].at \in Window(b)
                    /\ i \in DOMAIN Plan(Head(q).op)
                    /\ i > 1 => Head(q) \in served
    BY <2>1, Zenon DEF WorkerOK
  <2> HIDE DEF q, i, n
  <2>5. v.cmds = q /\ v.at = i
    BY WorkerFields
  <2>6. q # <<>> => WorkerOK(v, b, issued, served)
    <3>1. q # <<>> => v \in [cmds : Seq(DataCommand), at : Nat, nonce : Nat]
      BY <2>3, <2>4, WorkerFields
    <3> HIDE DEF v
    <3> QED
      BY <2>4, <2>5, <3>1 DEF WorkerOK
  <2> HIDE DEF v
  <2>7. /\ DOMAIN workers' = Nodes
        /\ \A m \in Nodes : \A c \in DOMAIN workers'[m] :
             c \in 1 .. block - 1 /\ WorkerOK(workers'[m][c], c, issued, served)
    BY <1>0, <2>1, <2>2, <2>5, <2>6, SetWorkerOK, Zenon
  <2> QED
    BY <1>1, <2>7 DEF WorkersInv
<1>6. \A r : Justified(r)' <=> Justified(r)
  BY <1>1 DEF Justified
<1>7. PoolInv'
  <2>1. CASE pool' = pool
    BY <1>0, <1>1, <1>6, <2>1, SMTT(30) DEF PoolInv
  <2>2. CASE /\ ~(w.nonce < nonce[node])
             /\ pool' = [pool EXCEPT ![node] = Insert(@, w.nonce, ResultOf(cmd))]
    <3>0. w \in [cmds : Seq(DataCommand), at : Nat, nonce : Nat] /\ nonce[node] \in Nat
      BY <1>0, Zenon DEF WorkerOK
    <3> HIDE DEF cmd, w
    <3>1. w.nonce \in Nat /\ w.nonce >= nonce[node]
      BY <2>2, <3>0
    <3>2. /\ DOMAIN pool' = Nodes
          /\ \A m \in Nodes : m # node => pool'[m] = pool[m]
          /\ pool'[node] = Insert(pool[node], w.nonce, ResultOf(cmd))
      BY <1>0, <2>2 DEF PoolInv
    <3>3. ASSUME NEW k \in DOMAIN pool'[node]
          PROVE  /\ k \in Nat /\ k >= nonce[node]
                 /\ Justified(pool'[node][k]) /\ pool'[node][k].call \in Reported
      <4>1. \/ k = w.nonce /\ pool'[node][k] = ResultOf(cmd)
            \/ k \in DOMAIN pool[node] /\ pool'[node][k] = pool[node][k]
        BY <3>2, <3>3 DEF Insert
      <4> QED
        BY <1>0, <1>4, <3>1, <4>1 DEF PoolInv, cmd
    <3>4. ASSUME NEW m \in Nodes, NEW k \in DOMAIN pool'[m]
          PROVE  /\ k \in Nat /\ k >= nonce[m]
                 /\ Justified(pool'[m][k]) /\ pool'[m][k].call \in Reported
      BY <1>0, <3>2, <3>3, <3>4, SMTT(30) DEF PoolInv
    <3>5. nonce' = nonce /\ served' = served /\ nonce' \in [Nodes -> Nat]
      BY <1>0, <1>1 DEF PoolInv
    <3>6. ASSUME NEW m \in Nodes, NEW k \in DOMAIN pool'[m]
          PROVE  /\ k \in Nat /\ k >= nonce'[m]
                 /\ (\E c \in served' : ResultOf(c) = pool'[m][k]) /\ pool'[m][k].call \in Reported
      BY <3>4, <3>5, <3>6, Zenon DEF Justified
    <3> QED
      BY <3>2, <3>5, <3>6, Zenon DEF PoolInv, Justified
  <2> QED
    BY <2>1, <2>2, Zenon DEF SendSigned
<1>8. HistoryInv' /\ AssetsInv'
  BY <1>0, <1>1, <1>6, Zenon DEF HistoryInv, CommandsOffered, AssetsInv
<1> QED
  BY <1>5, <1>7, <1>8, SMTT(30)

\* A block includes a result.
LEMMA IncludedStep ==
    ASSUME SysInv, NEW node \in Nodes, Include(node)
    PROVE  HistoryInv' /\ WorkersInv' /\ PoolInv' /\ AssetsInv'
<1>0. HistoryInv /\ WorkersInv /\ PoolInv /\ AssetsInv /\ nonce[node] \in Nat
  BY DEF SysInv, PoolInv
<1>1. /\ block' = block /\ ResultEffect
      /\ DataQueue' = DataQueue \/ DataQueue' = <<>>
  BY IncludeStep
<1>2. /\ UNCHANGED <<workers, issued, served>>
      /\ taken' = (taken \/ DataQueue' # DataQueue)
      /\ nonce' = [nonce EXCEPT ![node] = @ + 1]
      /\ pool' = [pool EXCEPT ![node] = RemoveKey(@, nonce[node])]
  BY Zenon DEF Include
<1>3. HistoryInv'
  <2>1. taken' \in BOOLEAN /\ (taken => taken') /\ (DataQueue' # DataQueue => taken')
    BY <1>0, <1>2, Zenon DEF HistoryInv
  <2>2. Elements(DataQueue') \subseteq issued
    BY <1>0, <1>1 DEF HistoryInv, Elements
  <2> QED
    BY <1>0, <1>1, <1>2, <2>1, <2>2 DEF HistoryInv, CommandsOffered
<1>4. WorkersInv'
  BY <1>0, <1>1, <1>2 DEF WorkersInv
<1>5. \A r : Justified(r)' <=> Justified(r)
  BY <1>2 DEF Justified
<1>6. PoolInv'
  <2>1. /\ DOMAIN pool' = Nodes
        /\ \A m \in Nodes : m # node => pool'[m] = pool[m] /\ nonce'[m] = nonce[m]
        /\ pool'[node] = RemoveKey(pool[node], nonce[node])
        /\ nonce'[node] = nonce[node] + 1 /\ nonce' \in [Nodes -> Nat]
    BY <1>0, <1>2 DEF PoolInv
  <2>2. ASSUME NEW m \in Nodes, NEW k \in DOMAIN pool'[m]
        PROVE  /\ k \in DOMAIN pool[m] /\ pool'[m][k] = pool[m][k]
               /\ m = node => k # nonce[node]
    BY <2>1, <2>2 DEF RemoveKey
  <2>3. ASSUME NEW m \in Nodes, NEW k \in DOMAIN pool'[m]
        PROVE  /\ k \in Nat /\ k >= nonce'[m]
               /\ (\E c \in served' : ResultOf(c) = pool'[m][k]) /\ pool'[m][k].call \in Reported
    <3>1. /\ k \in Nat /\ k >= nonce[m]
          /\ Justified(pool[m][k]) /\ pool[m][k].call \in Reported
      BY <1>0, <2>2, <2>3 DEF PoolInv
    <3>2. k >= nonce'[m]
      BY <1>0, <2>1, <2>2, <2>3, <3>1
    <3> QED
      BY <1>2, <2>2, <2>3, <3>1, <3>2 DEF Justified
  <2> QED
    BY <2>1, <2>3 DEF PoolInv, Justified
<1>7. AssetsInv'
  BY <1>0, <1>1, <1>5, Zenon DEF AssetsInv, ResultEffect, Insert, RemoveKey
<1> QED
  BY <1>3, <1>4, <1>6, <1>7

\* A node stops.
LEMMA RestartStep ==
    ASSUME SysInv, NEW node \in Nodes, Restart(node)
    PROVE  HistoryInv' /\ WorkersInv' /\ PoolInv' /\ AssetsInv'
<1>0. HistoryInv /\ WorkersInv /\ PoolInv /\ AssetsInv
  BY DEF SysInv
<1>1. /\ UNCHANGED <<block, DataQueue, IpfsAsset, nonce, issued, served, taken>>
      /\ workers' = [workers EXCEPT ![node] = << >>]
      /\ pool' = pool \/ pool' = [pool EXCEPT ![node] = << >>]
  BY DEF Restart, vars
<1>2. \A r : Justified(r)' <=> Justified(r)
  BY <1>1 DEF Justified
<1> QED
  BY <1>0, <1>1, <1>2 DEF HistoryInv, CommandsOffered, WorkersInv, PoolInv, AssetsInv

\* The invariant holds throughout.
THEOREM SysInvariance == SysSpec => []SysInv
<1>1. SysInit => SysInv
  BY SysInitInv
<1>2. SysInv /\ [SysNext]_sysVars => SysInv'
  <2> SUFFICES ASSUME SysInv, [SysNext]_sysVars PROVE SysInv'
    OBVIOUS
  <2>1. TypeOK' /\ QueueFresh'
    BY StepIsPalletStep, TypePreserved, FreshnessPreserved DEF SysInv
  <2>2. CASE UNCHANGED sysVars
    BY <2>2 DEF SysInv, sysVars, TypeOK, QueueFresh, HistoryInv, CommandsOffered, WorkersInv,
                PoolInv, AssetsInv, Justified
  <2>3. CASE SysUserCall
    BY <2>1, <2>3, UserStep DEF SysInv
  <2>4. CASE \E up \in SUBSET Nodes : EndBlock(up)
    BY <2>1, <2>4, BlockStep DEF SysInv
  <2>5. CASE \E node \in Nodes : WorkerStep(node) \/ Include(node) \/ Restart(node)
    BY <2>1, <2>5, RequestStep, SendStep, IncludedStep, RestartStep DEF SysInv, WorkerStep
  <2> QED
    BY <2>2, <2>3, <2>4, <2>5 DEF SysNext
<1> QED
  BY <1>1, <1>2, PTL DEF SysSpec

\* With any number of nodes, however they delay, repeat and lose results, the pallet does
\* what IpfsPallet specifies: all that is proved of the pallet holds in the system.
THEOREM SystemImplementsPallet == SysSpec => Spec
<1>1. SysInit => Init
  BY DEF SysInit
<1>2. SysInv /\ [SysNext]_sysVars => [Next]_vars
  BY StepIsPalletStep
<1> QED
  BY <1>1, <1>2, SysInvariance, PTL DEF SysSpec, Spec

-----------------------------------------------------------------------------
\* A step of the system changes the assets as a user call or as a result may.
LEMMA AssetSteps ==
    ASSUME SysInv, [SysNext]_sysVars
    PROVE  UserCall \/ ResultEffect \/ UNCHANGED IpfsAsset
<1>1. CASE SysUserCall
  BY <1>1 DEF SysUserCall
<1>2. CASE \E up \in SUBSET Nodes : EndBlock(up)
  BY <1>2 DEF EndBlock, NextBlock
<1>3. CASE \E node \in Nodes : WorkerStep(node) \/ Include(node) \/ Restart(node)
  BY <1>3, IncludeStep, Zenon DEF WorkerStep, Request, SendSigned, Restart, vars
<1>4. CASE UNCHANGED sysVars
  BY <1>4 DEF sysVars
<1> QED
  BY <1>1, <1>2, <1>3, <1>4 DEF SysNext

\* What a result does to one asset.
LEMMA EffectOnAsset ==
    ASSUME SysInv, ResultEffect, NEW c \in DOMAIN IpfsAsset
    PROVE  \/ c \in DOMAIN IpfsAsset' /\ IpfsAsset'[c] = IpfsAsset[c]
           \/ \E a \in Accounts : /\ c \in DOMAIN IpfsAsset' /\ IpfsAsset'[c] = NewAsset(a)
                                  /\ Justified(Result("AddBytes", c, a))
           \/ \E a \in Accounts : /\ c \notin DOMAIN IpfsAsset'
                                  /\ Justified(Result("RemoveBlock", c, a))
           \/ c \in DOMAIN IpfsAsset' /\ IpfsAsset'[c] = Asset(IpfsAsset[c].owners, TRUE)
           \/ \E a \in Accounts : /\ c \in DOMAIN IpfsAsset'
                                  /\ IpfsAsset'[c] = Asset(IpfsAsset[c].owners, FALSE)
                                  /\ Justified(Result("RemovePin", c, a))
  BY Zenon DEF ResultEffect, Insert, RemoveKey, Exists

\* Results go back to commands that were served, and nothing is reported that was not:
\* the invariants of IpfsSystem, for every set of nodes.
THEOREM SystemSafety ==
    SysSpec => [](SysTypeOK /\ ResultsWereServed /\ CommandsOffered /\ ServedTwiceAtMost)
<1>1. SysInv => SysTypeOK /\ ResultsWereServed /\ CommandsOffered /\ ServedTwiceAtMost
  <2> SUFFICES ASSUME SysInv
               PROVE  SysTypeOK /\ ResultsWereServed /\ CommandsOffered /\ ServedTwiceAtMost
    OBVIOUS
  <2>0. HistoryInv /\ WorkersInv /\ PoolInv /\ AssetsInv
    BY DEF SysInv
  <2>1. ASSUME NEW node \in Nodes, NEW b \in DOMAIN workers[node]
        PROVE  /\ b \in 1 .. block - 1
               /\ workers[node][b].cmds # <<>> /\ workers[node][b].nonce \in Nat
               /\ workers[node][b].at \in DOMAIN Plan(Head(workers[node][b].cmds).op)
               /\ \A i \in DOMAIN workers[node][b].cmds :
                    workers[node][b].cmds[i].at \in Window(b)
    BY <2>0, <2>1, SMTT(30) DEF WorkersInv, WorkerOK
  <2>2. SysTypeOK
    BY <2>0, <2>1 DEF HistoryInv, PoolInv, WellFormed, SysTypeOK
  <2>3. ServedTwiceAtMost
    BY <2>1, Zenon DEF ServedTwiceAtMost, Window
  <2> QED
    BY <2>0, <2>2, <2>3 DEF HistoryInv, PoolInv, AssetsInv, ResultsWereServed
<1> QED
  BY <1>1, SysInvariance, PTL

\* A command stays in the queue until its block is complete, unless a result in that
\* block took the whole queue, for every set of nodes and accounts.
THEOREM QueueOffered == SysSpec => []CommandsOffered
<1>1. SysInv => CommandsOffered
  BY DEF SysInv, HistoryInv
<1> QED
  BY <1>1, SysInvariance, PTL

\* Nothing is removed or unpinned on chain unless an IPFS node has done so first.
THEOREM ChangesOrdered == SysSpec => ChangesWereOrdered
<1>1. ASSUME SysInv, [SysNext]_sysVars, NEW c \in DOMAIN IpfsAsset
      PROVE  /\ ~Exists(c)' => \E a \in Accounts : Justified(Result("RemoveBlock", c, a))
             /\ Exists(c)' /\ IpfsAsset[c].pinned /\ ~(IpfsAsset[c].pinned)' =>
                  \E a \in Accounts : Justified(Result("RemovePin", c, a))
  <2>0. TypeOK
    BY <1>1 DEF SysInv
  <2>1. CASE UserCall
    BY <1>1, <2>0, <2>1, UserCallAssets, Zenon DEF Exists
  <2>2. CASE ResultEffect
    <3>1. /\ \A a : NewAsset(a).pinned = TRUE
          /\ Asset(IpfsAsset[c].owners, TRUE).pinned = TRUE
      BY DEF NewAsset, Asset
    <3> QED
      BY <1>1, <2>2, <3>1, EffectOnAsset, Zenon DEF Exists
  <2>3. CASE UNCHANGED IpfsAsset
    BY <1>1, <2>3 DEF Exists
  <2> QED
    BY <1>1, <2>1, <2>2, <2>3, AssetSteps
<1>2. SysInv /\ [SysNext]_sysVars =>
        [\A cid \in DOMAIN IpfsAsset :
           /\ ~Exists(cid)' => \E a \in Accounts : Justified(Result("RemoveBlock", cid, a))
           /\ Exists(cid)' /\ IpfsAsset[cid].pinned /\ ~(IpfsAsset[cid].pinned)' =>
                \E a \in Accounts : Justified(Result("RemovePin", cid, a))]_sysVars
  BY <1>1
<1> QED
  BY <1>2, SysInvariance, PTL DEF SysSpec, ChangesWereOrdered

\* An asset that stays keeps one of its Owners, or was replaced for the sender of an add
\* that was carried out.
THEOREM OwnersReplaced == SysSpec => OwnersReplacedByAdd
<1>1. ASSUME SysInv, [SysNext]_sysVars, NEW c \in DOMAIN IpfsAsset,
             Exists(c)', ~(DOMAIN IpfsAsset[c].owners \subseteq DOMAIN IpfsAsset'[c].owners)
      PROVE  \/ \E a \in Accounts : IsOwner(c, a) /\ IsOwner(c, a)'
             \/ \E a \in Accounts : /\ IpfsAsset'[c] = NewAsset(a)
                                    /\ Justified(Result("AddBytes", c, a))
  <2>0. TypeOK
    BY <1>1 DEF SysInv
  <2>1. CASE UserCall
    BY <1>1, <2>0, <2>1, UserCallAssets
  <2>2. CASE ResultEffect
    <3>1. \A p : Asset(IpfsAsset[c].owners, p).owners = IpfsAsset[c].owners
      BY DEF Asset
    <3> QED
      BY <1>1, <2>2, <3>1, EffectOnAsset, Zenon DEF Exists
  <2>3. CASE UNCHANGED IpfsAsset
    BY <1>1, <2>3
  <2> QED
    BY <1>1, <2>1, <2>2, <2>3, AssetSteps
<1>2. SysInv /\ [SysNext]_sysVars =>
        [\A cid \in DOMAIN IpfsAsset :
           Exists(cid)' /\ ~(DOMAIN IpfsAsset[cid].owners \subseteq DOMAIN IpfsAsset'[cid].owners) =>
              \/ \E a \in Accounts : IsOwner(cid, a) /\ IsOwner(cid, a)'
              \/ \E a \in Accounts : /\ IpfsAsset'[cid] = NewAsset(a)
                                     /\ Justified(Result("AddBytes", cid, a))]_sysVars
  BY <1>1
<1> QED
  BY <1>2, SysInvariance, PTL DEF SysSpec, OwnersReplacedByAdd

=============================================================================
