------------------------------- MODULE TxPool -------------------------------
(***************************************************************************)
(* The transaction pool of client/transaction-pool while transactions      *)
(* arrive, blocks are imported and ready transactions are revalidated.     *)
(* Every call takes the lock of the pool; a task awaits the validation of  *)
(* a transaction without it, so that the pool and the chain may change     *)
(* between a validation and the use of its result.                         *)
(***************************************************************************)
EXTENDS TxGraph

CONSTANTS
    Requires,       \* hash -> the tags it requires before anything is on the chain
    ReadyLimit,     \* Options::ready.count
    FutureLimit,    \* Options::future.count
    Orders,         \* two opposite orders of Txs
    MaxBlock,       \* bound on the number of blocks
    MaxBlockTxs,    \* bound on the transactions of a block
    MaxTasks        \* bound on submissions that await their validation

VARIABLES
    pool,           \* the BasePool
    banned,         \* the keys of banned_until
    chain,          \* the blocks, each a sequence of transactions
    maintained,     \* the last block for which the pool took the new-best-block event
    pruned,         \* {}, or the one list of transactions that prune_tags of that block
                    \* has reverified and not resubmitted yet
    tasks,          \* submissions that have been validated: [hash, requires, at]
    members,        \* hashes queued for revalidation
    batch,          \* {}, or the one batch that has been revalidated
    late            \* transactions whose validation was 3 or more prunes old when it was used

vars == <<pool, banned, chain, maintained, pruned, tasks, members, batch, late>>

\* The tags that the first n blocks provide.
OnChain(n) == UNION {Provides[h] : h \in UNION {ToSet(chain[i]) : i \in 1 .. n}}

\* CheckNonce::validate: a transaction whose nonce has been used is stale; one whose nonce
\* is not next requires the one before.
Stale(hash, done) == Provides[hash] \cap done # {}

Validate(hash, done) == [hash |-> hash, requires |-> Requires[hash] \ done]

\* CheckNonce::pre_dispatch for each transaction of a block.
Executes(block, done) ==
    \A i \in DOMAIN block :
      LET before == done \cup UNION {Provides[block[j]] : j \in 1 .. i - 1}
      IN  Requires[block[i]] \subseteq before /\ ~Stale(block[i], before)

Init ==
    /\ pool = EmptyPool
    /\ banned = {}
    /\ chain = <<>>
    /\ maintained = 0
    /\ pruned = {}
    /\ tasks = {}
    /\ members = {}
    /\ batch = {}
    /\ late = {}

Hashes(p) == DOMAIN p.ready \cup DOMAIN p.waiting

\* A validation is late when the tags of a block that was imported after it may have left
\* recently_pruned.
Late(tx) == IF maintained > tx.at + 2 THEN {tx.hash} ELSE {}

\* ValidatedPool::submit of validated transactions, with enforce_limits.
SubmitOne(s, r) == [pool |-> r.pool, ok |-> s.ok \/ r.ok]

Dropping(p, limited) == [pool |-> limited, dropped |-> Hashes(p) \ Hashes(limited)]

Limited(s, order) ==
    IF s.ok THEN Dropping(s.pool, EnforceLimits(s.pool, ReadyLimit, FutureLimit, order))
    ELSE [pool |-> s.pool, dropped |-> {}]

Submitted(p, txs, order) ==
    Limited(FoldLeft(LAMBDA s, tx : SubmitOne(s, Import(s.pool, tx, order)),
                     [pool |-> p, ok |-> FALSE], txs), order)

\* check_is_known
Known(hash) == hash \in banned \/ is_imported(pool, hash)

\* submit_at up to the result of the validation, at the best block.
Verify(hash) ==
    /\ Cardinality(tasks) < MaxTasks
    /\ ~\E tx \in tasks : tx.hash = hash
    /\ LET done == OnChain(Len(chain))
           tx == Validate(hash, done)
       IN  IF Known(hash) \/ Stale(hash, done)
           THEN banned' = banned \cup {hash} /\ UNCHANGED tasks
           ELSE /\ tasks' = tasks \cup {[hash |-> hash, requires |-> tx.requires,
                                         at |-> Len(chain)]}
                /\ UNCHANGED banned
    /\ UNCHANGED <<pool, chain, maintained, pruned, members, batch, late>>

\* The rest of submit_at.
Submit(tx) ==
    /\ tx \in tasks
    /\ tasks' = tasks \ {tx}
    /\ \E order \in Orders :
         \E s \in {Submitted(pool, <<[hash |-> tx.hash, requires |-> tx.requires]>>, order)} :
           pool' = s.pool /\ banned' = banned \cup s.dropped
    /\ late' = late \cup Late(tx)
    /\ UNCHANGED <<chain, maintained, pruned, members, batch>>

\* A block is imported, from this node or another.
NewBlock ==
    /\ Len(chain) < MaxBlock
    /\ \E block \in UNION {[1 .. n -> Txs] : n \in 0 .. MaxBlockTxs} :
         Executes(block, OnChain(Len(chain))) /\ chain' = Append(chain, block)
    /\ UNCHANGED <<pool, banned, maintained, pruned, tasks, members, batch, late>>

\* Pool::prune up to the results of verify: the tags of the block, prune_tags, the ban of
\* the transactions of the block, the validation of those that were pruned.
Prune ==
    /\ pruned = {}
    /\ maintained < Len(chain)
    /\ LET block == chain[maintained + 1]
           tags == FoldLeft(LAMBDA l, h : l \o SetToSeq(Provides[h]), <<>>, block)
           done == OnChain(maintained + 1)
       IN  \E order \in Orders : \E r \in {PruneTags(pool, tags, order)} :
             LET hashes == {r.pruned[i].hash : i \in DOMAIN r.pruned}
                 ban == banned \cup ToSet(block)
                 invalid == {h \in hashes : h \in ban \/ is_imported(r.pool, h) \/ Stale(h, done)}
                 list == Listed(hashes \ invalid, order)
             IN  /\ pool' = r.pool
                 /\ banned' = ban
                 /\ pruned' = {[invalid |-> invalid,
                                valid |-> [i \in DOMAIN list |-> Validate(list[i], done)]]}
    /\ maintained' = maintained + 1
    /\ UNCHANGED <<chain, tasks, members, batch, late>>

\* remove_invalid
Removed(p, hashes, order) == RemoveSubtree(p, Listed(hashes, order), order).pool

\* resubmit_pruned with clear_stale, then the end of maintain: the ready transactions are
\* queued for revalidation.
Expired(hashes) == {h \in hashes : ValidTill[h] <= maintained}

ResubmitPruned ==
    /\ \E xts \in pruned, order \in Orders, expired \in {{}, banned} :
       \E s \in {Submitted(pool, xts.valid, order)} :
       \E stale \in {<<Expired(ToSet(Returned(s.pool))), Expired(DOMAIN s.pool.waiting)>>} :
       \E p \in {Removed(Removed(s.pool, stale[1], order), stale[2], order)} :
         /\ pool' = p
         /\ banned' = (banned \ expired) \cup xts.invalid \cup s.dropped \cup stale[1] \cup stale[2]
         /\ members' = members \cup ToSet(Returned(p))
    /\ pruned' = {}
    /\ UNCHANGED <<chain, maintained, tasks, batch, late>>

\* The revalidation worker: prepare_batch and the validation at the last block it has
\* been told of.
Revalidate ==
    /\ batch = {}
    /\ members # {}
    /\ LET at == IF pruned = {} THEN maintained ELSE maintained - 1
           ready == members \cap DOMAIN pool.ready
           invalid == {h \in ready : Stale(h, OnChain(at))}
       IN  batch' = {[invalid |-> invalid, at |-> at,
                      valid |-> {Validate(h, OnChain(at)) : h \in ready \ invalid}]}
    /\ members' = {}
    /\ UNCHANGED <<pool, banned, chain, maintained, pruned, tasks, late>>

RemoveInvalid ==
    /\ \E b \in batch, order \in Orders :
         /\ b.invalid # {}
         /\ pool' = Removed(pool, b.invalid, order)
         /\ banned' = banned \cup b.invalid
         /\ batch' = {[b EXCEPT !.invalid = {}]}
    /\ UNCHANGED <<chain, maintained, pruned, tasks, members, late>>

\* ValidatedPool::resubmit: out of the pool with all that depends on them, and in again.
Updated(tx, valid) ==
    IF \E v \in valid : v.hash = tx.hash THEN CHOOSE v \in valid : v.hash = tx.hash ELSE tx

TakeOne(w, hash, r) ==
    [pool |-> r.pool, list |-> w.list \o r.removed,
     updated |-> w.updated \ ({hash} \cup {r.removed[i].hash : i \in DOMAIN r.removed})]

RECURSIVE TakeOut(_, _)
TakeOut(w, order) ==
    IF w.updated = {} THEN w
    ELSE LET hash == Head(Listed(w.updated, order))
         IN  TakeOut(TakeOne(w, hash, RemoveSubtree(w.pool, <<hash>>, order)), order)

Resubmit ==
    /\ \E b \in batch, order \in Orders :
       \E out \in {TakeOut([pool |-> pool, updated |-> {v.hash : v \in b.valid}, list |-> <<>>],
                           order)} :
         LET txs == [i \in DOMAIN out.list |-> Updated(out.list[i], b.valid)]
         IN  /\ b.invalid = {}
             /\ pool' = ImportAll(out.pool, txs, order)
             /\ late' = late \cup UNION {Late([hash |-> txs[i].hash, at |-> b.at]) :
                                           i \in DOMAIN txs}
    /\ batch' = {}
    /\ UNCHANGED <<banned, chain, maintained, pruned, tasks, members>>

\* remove_invalid by the block author, for a transaction that failed in its block.
AuthorRemoves(hash) ==
    /\ InReady(pool, hash)
    /\ \E order \in Orders : pool' = Removed(pool, {hash}, order)
    /\ banned' = banned \cup {hash}
    /\ UNCHANGED <<chain, maintained, pruned, tasks, members, batch, late>>

Next ==
    \/ \E hash \in Txs : Verify(hash)
    \/ \E tx \in tasks : Submit(tx)
    \/ NewBlock
    \/ Prune
    \/ ResubmitPruned
    \/ Revalidate
    \/ RemoveInvalid
    \/ Resubmit
    \/ \E hash \in Txs : AuthorRemoves(hash)

Spec == Init /\ [][Next]_vars
-----------------------------------------------------------------------------
\* ready.rs HASH_READY, "every hash retrieved from `provided_tags` is always present in `ready`",
\* and future.rs WAITING_PROOF, "every hash from `wanted_tags` is always present in `waiting`":
\* the expects and the assert_eq of prune_tags rest on them.  Also the other way round:
\* what a transaction in the pool provides or waits for is indexed, no transaction is in
\* both queues, and best holds transactions in ready only.
PoolIndexed ==
    /\ DOMAIN pool.ready \cap DOMAIN pool.waiting = {}
    /\ \A tag \in DOMAIN pool.provided_tags :
         LET h == pool.provided_tags[tag] IN InReady(pool, h) /\ tag \in Provides[h]
    /\ \A h \in DOMAIN pool.ready :
         \A tag \in Provides[h] : tag \in DOMAIN pool.provided_tags /\ pool.provided_tags[tag] = h
    /\ pool.best \subseteq DOMAIN pool.ready
    /\ ToSet(pool.insertion) = DOMAIN pool.ready /\ IsInjective(pool.insertion)
    /\ ToSet(pool.imported) = DOMAIN pool.waiting /\ IsInjective(pool.imported)
    /\ \A tag \in DOMAIN pool.wanted_tags :
         /\ pool.wanted_tags[tag] # {}
         /\ \A h \in pool.wanted_tags[tag] : InFuture(pool, h)
    /\ \A h \in DOMAIN pool.waiting :
         /\ pool.waiting[h].missing_tags # {}
         /\ \A tag \in pool.waiting[h].missing_tags :
              tag \in DOMAIN pool.wanted_tags /\ h \in pool.wanted_tags[tag]

\* No transaction is stuck in future for a tag that is there: neither one that a ready
\* transaction provides nor, base_pool.rs recently_pruned ("make sure we don't accidentally
\* put transactions to future in case they were just stuck in verification"), one of a
\* block that was pruned while the transaction was validated.  recently_pruned remembers
\* two blocks, so a validation that took longer is excepted.
FutureWaits ==
    \A h \in DOMAIN pool.waiting :
      /\ pool.waiting[h].missing_tags \cap DOMAIN pool.provided_tags = {}
      /\ pool.waiting[h].missing_tags \cap OnChain(maintained) # {} => h \in late

\* ready.rs get, "never return transaction that requires a tag, which was not provided by
\* one of the previously returned transactions" or by the chain.
Ordered(seq) ==
    \A i \in DOMAIN seq :
      Requires[seq[i]] \subseteq OnChain(Len(chain)) \cup UNION {Provides[seq[j]] : j \in 1 .. i - 1}

\* A block author who asks for the ready transactions is given all of them, each after those
\* it depends on, although pruning, replacement, limits and revalidation have taken
\* transactions out of the middle of chains.
ReadyOffered ==
    LET offered == Returned(pool)
    IN  ToSet(offered) = DOMAIN pool.ready /\ Ordered(offered)
=============================================================================
