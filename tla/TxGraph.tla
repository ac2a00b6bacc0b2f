------------------------------- MODULE TxGraph -------------------------------
(***************************************************************************)
(* The dependency graph of the transaction pool: ready.rs, future.rs and   *)
(* base_pool.rs of client/transaction-pool, as operators on a pool p.      *)
(* A validated transaction is [hash, requires]; what else the pool looks   *)
(* at depends on the hash alone.                                           *)
(***************************************************************************)
EXTENDS Naturals, FiniteSets, Sequences, FiniteSetsExt, SequencesExt

CONSTANTS
    Txs,        \* hashes of transactions
    Provides,   \* hash -> the tags it provides
    Priority,   \* hash -> priority
    ValidTill,  \* hash -> block at which it becomes invalid
    MaxPriority \* u64::MAX

\* unlocks, a list of hashes, is kept without its order, which no result depends on: how
\* often each hash occurs.
Linked(unlocks) == {h \in Txs : unlocks[h] > 0}

EmptyPool ==
    [ready |-> << >>,           \* hash -> [requires, unlocks, requires_offset]
     insertion |-> <<>>,        \* the hashes in ready by insertion_id
     provided_tags |-> << >>,   \* tag -> hash in ready
     best |-> {},
     waiting |-> << >>,         \* hash -> [requires, missing_tags]
     imported |-> <<>>,         \* the hashes in waiting by imported_at
     wanted_tags |-> << >>,     \* tag -> hashes in waiting
     recently_pruned |-> <<{}, {}>>] \* the slot that prune_tags overwrites next comes first

InReady(p, h) == h \in DOMAIN p.ready
InFuture(p, h) == h \in DOMAIN p.waiting
is_imported(p, h) == InReady(p, h) \/ InFuture(p, h)

Without(map, keys) == Restrict(map, DOMAIN map \ keys)

\* The elements of S as they come in order, or the other way round: the iteration order
\* of a HashSet is one of the two.
Listed(S, order) == SelectSeq(order, LAMBDA h : h \in S)

-----------------------------------------------------------------------------
\* future.rs

\* WaitingTransaction::new
missing_tags(p, tx) ==
    {tag \in tx.requires : /\ tag \notin DOMAIN p.provided_tags
                           /\ tag \notin p.recently_pruned[1] \cup p.recently_pruned[2]}

FutureImport(p, tx, missing) ==
    [p EXCEPT
       !.waiting = [h \in DOMAIN @ \cup {tx.hash} |->
                      IF h = tx.hash THEN [requires |-> tx.requires, missing_tags |-> missing]
                      ELSE @[h]],
       !.imported = Append(@, tx.hash),
       !.wanted_tags = [tag \in DOMAIN @ \cup missing |->
                          (IF tag \in DOMAIN @ THEN @[tag] ELSE {})
                            \cup (IF tag \in missing THEN {tx.hash} ELSE {})]]

\* satisfy_tags: the pool without the transactions that became ready, and these.
SatisfyTags(p, tags, order) ==
    LET got(h) == {tag \in tags \cap DOMAIN p.wanted_tags : h \in p.wanted_tags[tag]}
        waiting == [h \in DOMAIN p.waiting |->
                      [p.waiting[h] EXCEPT !.missing_tags = @ \ got(h)]]
        became == {h \in DOMAIN waiting : got(h) # {} /\ waiting[h].missing_tags = {}}
        list == Listed(became, order)
    IN  [pool |-> [p EXCEPT !.waiting = Without(waiting, became),
                            !.imported = SelectSeq(@, LAMBDA h : h \notin became),
                            !.wanted_tags = Without(@, tags)],
         became_ready |-> [i \in DOMAIN list |->
                             [hash |-> list[i], requires |-> waiting[list[i]].requires]]]

\* Mutant of WantedWithout: wanted_tags is left as it was.
WantedStill(p, gone) == p.wanted_tags

\* wanted_tags without the transactions in gone.
WantedWithout(p, gone) ==
    LET left(tag) == p.wanted_tags[tag] \ {h \in gone : tag \in p.waiting[h].missing_tags}
    IN  [tag \in {t \in DOMAIN p.wanted_tags : left(t) # {}} |-> left(tag)]

FutureRemove(p, hashes) ==
    LET gone == hashes \cap DOMAIN p.waiting
    IN  [p EXCEPT !.waiting = Without(@, gone),
                  !.imported = SelectSeq(@, LAMBDA h : h \notin gone),
                  !.wanted_tags = WantedWithout(p, gone)]

-----------------------------------------------------------------------------
\* ready.rs

\* remove_item: the first occurrence goes, if there is one.
RemoveItem(unlocks, h, times) == [unlocks EXCEPT ![h] = IF @ > times THEN @ - times ELSE 0]

\* The tags among tags that q, a transaction in ready, provides according to the map.
FromProvider(p, tags, q) ==
    {tag \in tags : tag \in DOMAIN p.provided_tags /\ p.provided_tags[tag] = q}

\* One round of remove_subtree_with_tag_filter.  The loop "remove from unlocks" binds hash
\* anew, to the transaction that unlocks the removed one: it takes that hash out of
\* its own list, and the removed transaction stays in the list.
RemoveOne(p, hash, filter) ==
    LET tx == p.ready[hash]
        tags == Provides[hash] \ filter
        p1 == [p EXCEPT !.ready = Without(@, {hash}), !.provided_tags = Without(@, tags)]
    IN  [p1 EXCEPT
           !.ready = [q \in DOMAIN @ |->
                        [@[q] EXCEPT !.unlocks =
                           RemoveItem(@, q, Cardinality(FromProvider(p1, tx.requires, q)))]],
           !.insertion = SelectSeq(@, LAMBDA h : h # hash),
           !.best = @ \ {hash}]

RECURSIVE RemoveLoop(_, _, _, _, _)
RemoveLoop(p, to_remove, filter, removed, order) ==
    IF to_remove = <<>> THEN [pool |-> p, removed |-> removed]
    ELSE LET hash == Last(to_remove)
             tx == p.ready[hash]
             more == IF Provides[hash] \subseteq filter THEN <<>>
                     ELSE Listed(Linked(tx.unlocks), order)
         IN  IF ~InReady(p, hash) THEN RemoveLoop(p, Front(to_remove), filter, removed, order)
             ELSE RemoveLoop(RemoveOne(p, hash, filter), Front(to_remove) \o more, filter,
                             Append(removed, [hash |-> hash, requires |-> tx.requires]), order)

\* ReadyTransactions::remove_subtree and BasePool::remove_subtree
ReadyRemoveSubtree(p, hashes, order) == RemoveLoop(p, hashes, {}, <<>>, order)

\* The second half: those that wait go, after the removed ones of r.
RemoveWaiting(r, hashes) ==
    LET waiting == SelectSeq(hashes, LAMBDA h : InFuture(r.pool, h))
    IN  [pool |-> FutureRemove(r.pool, ToSet(hashes)),
         removed |-> r.removed \o [i \in DOMAIN waiting |->
                       [hash |-> waiting[i], requires |-> r.pool.waiting[waiting[i]].requires]]]

RemoveSubtree(p, hashes, order) == RemoveWaiting(ReadyRemoveSubtree(p, hashes, order), hashes)

\* replace_previous: whom the transaction would replace, and at what price.
Replaced(p, hash) == {p.provided_tags[tag] : tag \in Provides[hash] \cap DOMAIN p.provided_tags}

old_priority(p, hash) ==
    Min({MaxPriority, MapThenSumSet(LAMBDA h : Priority[h], Replaced(p, hash) \cap DOMAIN p.ready)})

\* A transaction none of whose required tags is provided in ready needs no other first.
goes_to_best(given) == given = {}

\* ReadyTransactions::import, after replace_previous: r is the pool without those it
\* replaces, unlocks what they unlocked.
ReadyInsert(r, tx, unlocks) ==
    LET hash == tx.hash
        given == tx.requires \cap DOMAIN r.pool.provided_tags
        entry == [requires |-> tx.requires, unlocks |-> unlocks,
                  requires_offset |-> Cardinality(tx.requires \ given)]
    IN  [ok |-> TRUE, replaced |-> r.removed,
         pool |-> [r.pool EXCEPT
           !.ready = [q \in DOMAIN @ \cup {hash} |->
                        IF q = hash THEN entry
                        ELSE [@[q] EXCEPT !.unlocks[hash] =
                                @ + Cardinality(FromProvider(r.pool, given, q))]],
           !.insertion = Append(@, hash),
           !.provided_tags = [tag \in DOMAIN @ \cup Provides[hash] |->
                                IF tag \in Provides[hash] THEN hash ELSE @[tag]],
           !.best = IF goes_to_best(given) THEN @ \cup {hash} ELSE @]]

ReadyImport(p, tx, order) ==
    LET replaced == Replaced(p, tx.hash)
        unlocks == [h \in Txs |->
                      MapThenSumSet(LAMBDA q : p.ready[q].unlocks[h], replaced \cap DOMAIN p.ready)]
    IN  IF replaced # {} /\ old_priority(p, tx.hash) >= Priority[tx.hash]
        THEN [ok |-> FALSE, pool |-> p, replaced |-> <<>>]
        ELSE ReadyInsert(RemoveLoop(p, Listed(replaced, order), Provides[tx.hash], <<>>, order),
                         tx, unlocks)

\* Mutant of NowReady: one tag more has to be satisfied.
LateReady(before, after, requires) == before < requires /\ requires < after

\* Does requires_offset meet the number of required tags on its way from before to after?
NowReady(before, after, requires) == before < requires /\ requires <= after

\* One transaction out of ready because of a tag, as ReadyTransactions::prune_tags takes
\* it; the transactions it unlocked may become best.
PruneOne(p, hash, tag) ==
    LET tx == p.ready[hash]
        p1 == [p EXCEPT !.ready = Without(@, {hash}), !.provided_tags = Without(@, {tag})]
        offset(h) == p1.ready[h].requires_offset
        more(h) == offset(h) + tx.unlocks[h]
        entry(h) == [p1.ready[h] EXCEPT
                       !.unlocks = RemoveItem(@, hash, Cardinality(FromProvider(p1, tx.requires, h))),
                       !.requires_offset = more(h)]
        unlocked == {h \in DOMAIN p1.ready :
                       NowReady(offset(h), more(h), Cardinality(p1.ready[h].requires))}
    IN  [p1 EXCEPT !.ready = [h \in DOMAIN @ |-> entry(h)],
                   !.insertion = SelectSeq(@, LAMBDA h : h # hash),
                   !.provided_tags = Without(@, Provides[hash]),
                   !.best = (@ \ {hash}) \cup unlocked]

\* The transactions before hash that unlock nothing else: they are pruned as well.
Previous(p, requires) ==
    {q \in DOMAIN p.ready : FromProvider(p, requires, q) # {} /\ Linked(p.ready[q].unlocks) = {}}

\* The pool p after PruneOne, and what is left of the work w.
PruneMore(p, w, tx) ==
    [w EXCEPT !.pool = p,
              !.to_remove = Front(@) \o SetToSeq(UNION {Provides[q] : q \in Previous(p, tx.requires)}),
              !.removed = Append(@, tx)]

RECURSIVE PruneLoop(_)
PruneLoop(w) ==
    IF w.to_remove = <<>> THEN w
    ELSE LET tag == Last(w.to_remove)
             hash == w.pool.provided_tags[tag]
         IN  PruneLoop(IF tag \in DOMAIN w.pool.provided_tags /\ InReady(w.pool, hash)
                       THEN PruneMore(PruneOne(w.pool, hash, tag), w,
                                      [hash |-> hash, requires |-> w.pool.ready[hash].requires])
                       ELSE [w EXCEPT !.pool.provided_tags = Without(@, {tag}),
                                      !.to_remove = Front(@)])

-----------------------------------------------------------------------------
\* BestIterator of ready.rs

\* TransactionRef: does a come before b?
Before(p, a, b) ==
    \/ Priority[a] > Priority[b]
    \/ /\ Priority[a] = Priority[b]
       /\ \/ ValidTill[a] < ValidTill[b]
          \/ /\ ValidTill[a] = ValidTill[b]
             /\ \E i, j \in DOMAIN p.insertion : p.insertion[i] = a /\ p.insertion[j] = b /\ i < j

\* best_or_awaiting for a transaction that the one returned unlocks.
UnlockOne(p, it, hash) ==
    LET waits == hash \in DOMAIN it.awaiting
        satisfied == 1 + (IF waits THEN it.awaiting[hash] ELSE p.ready[hash].requires_offset)
    IN  IF ~waits /\ ~InReady(p, hash) THEN it
        ELSE IF satisfied >= Cardinality(p.ready[hash].requires)
        THEN [best |-> it.best \cup {hash}, awaiting |-> Without(it.awaiting, {hash})]
        ELSE [it EXCEPT !.awaiting = [h \in DOMAIN @ \cup {hash} |->
                                        IF h = hash THEN satisfied ELSE @[h]]]

\* One round of next.
Unlocked(p, it, hash) ==
    LET unlocks == p.ready[hash].unlocks
        list == FoldSet(LAMBDA h, l : l \o [i \in 1 .. unlocks[h] |-> h], <<>>, Linked(unlocks))
    IN  FoldLeft(LAMBDA i, h : UnlockOne(p, i, h), [it EXCEPT !.best = @ \ {hash}], list)

RECURSIVE Iterate(_, _)
Iterate(p, it) ==
    IF it.best = {} THEN <<>>
    ELSE LET hash == CHOOSE a \in it.best : \A b \in it.best \ {a} : Before(p, a, b)
         IN  <<hash>> \o Iterate(p, Unlocked(p, it, hash))

\* What ready() returns while nothing changes the pool.
Returned(p) == Iterate(p, [best |-> p.best, awaiting |-> << >>])

-----------------------------------------------------------------------------
\* base_pool.rs

\* import_to_ready on the work w = [pool, to_import, promoted, removed, first, ok]: one
\* round for tx, after s took out of future what tx unlocks.  When the first transaction is
\* refused, those that its tags took out of future are not imported.
Imported(w, s, tx, r) ==
    [pool |-> r.pool,
     to_import |-> IF w.first /\ ~r.ok THEN <<>> ELSE Front(w.to_import) \o s.became_ready,
     promoted |-> IF r.ok /\ ~w.first THEN Append(w.promoted, tx.hash) ELSE w.promoted,
     removed |-> w.removed \o r.replaced,
     first |-> FALSE,
     ok |-> w.ok /\ (r.ok \/ ~w.first)]

ImportSatisfied(w, s, tx, order) == Imported(w, s, tx, ReadyImport(s.pool, tx, order))

RECURSIVE ImportLoop(_, _)
ImportLoop(w, order) ==
    IF w.to_import = <<>> THEN w
    ELSE LET tx == Last(w.to_import)
         IN  ImportLoop(ImportSatisfied(w, SatisfyTags(w.pool, Provides[tx.hash], order), tx, order),
                        order)

\* The test for a cycle that ends import_to_ready.
Checked(w, hash, order) ==
    IF \E i \in DOMAIN w.removed : w.removed[i].hash = hash
    THEN [ok |-> FALSE, pool |-> ReadyRemoveSubtree(w.pool, w.promoted, order).pool]
    ELSE [ok |-> w.ok, pool |-> w.pool]

ImportToReady(p, tx, order) ==
    Checked(ImportLoop([pool |-> p, to_import |-> <<tx>>, promoted |-> <<>>, removed |-> <<>>,
                        first |-> TRUE, ok |-> TRUE], order),
            tx.hash, order)

\* BasePool::import
Import(p, tx, order) ==
    LET missing == missing_tags(p, tx)
    IN  IF is_imported(p, tx.hash) THEN [ok |-> FALSE, pool |-> p]
        ELSE IF missing # {} THEN [ok |-> TRUE, pool |-> FutureImport(p, tx, missing)]
        ELSE ImportToReady(p, tx, order)

ImportAll(p, txs, order) == FoldLeft(LAMBDA q, tx : Import(q, tx, order).pool, p, txs)

\* enforce_limits, with limits on the number of transactions.
RECURSIVE EnforceLimits(_, _, _, _)
EnforceLimits(p, ready, future, order) ==
    LET worst == IF Len(p.insertion) > ready THEN p.insertion ELSE p.imported
    IN  IF Len(p.insertion) > ready \/ Len(p.imported) > future
        THEN EnforceLimits(RemoveSubtree(p, <<Head(worst)>>, order).pool, ready, future, order)
        ELSE p

\* Mutant of RecentlyPruned: the tags of the last block only.
LastPruned(p, tags) == <<ToSet(tags), ToSet(tags)>>

RecentlyPruned(p, tags) == <<p.recently_pruned[2], ToSet(tags)>>

\* BasePool::prune_tags, on the work of PruneLoop with the transactions to import
PruneTag(w, s, tag) ==
    PruneLoop([w EXCEPT !.pool = s.pool, !.to_remove = <<tag>>,
                        !.to_import = @ \o s.became_ready])

PrunedTags(w, slots, order) ==
    [pruned |-> w.removed,
     pool |-> FoldLeft(LAMBDA q, tx : ImportToReady(q, tx, order).pool,
                       [w.pool EXCEPT !.recently_pruned = slots], w.to_import)]

PruneTags(p, tags, order) ==
    PrunedTags(FoldLeft(LAMBDA w, tag : PruneTag(w, SatisfyTags(w.pool, {tag}, order), tag),
                        [pool |-> p, to_remove |-> <<>>, removed |-> <<>>, to_import |-> <<>>], tags),
               RecentlyPruned(p, tags), order)
=============================================================================
