------------------------------ MODULE StateDb ------------------------------
(***************************************************************************)
(* The state database (client/state-db): the overlay of non-canonical      *)
(* blocks, the pruning window of canonical ones, their journals on disk,   *)
(* and the pins readers hold, driven the way Backend (client/db) drives    *)
(* it: one import or finality operation at a time, whose changes stay      *)
(* pending until the database transaction is written.                      *)
(*                                                                         *)
(* Mode: PruningMode::Constrained over a database without reference        *)
(* counting (count_insertions is true, as with RocksDB).  A trie node is a *)
(* key: its value is its content's preimage, so it is left out.  A block's *)
(* changeset is what turns its parent's set of nodes into its own.         *)
(***************************************************************************)
EXTENDS Integers, SequencesExt

CONSTANTS
  Blocks,             \* block hashes
  NoBlock,            \* not a block: None
  ParentOf,           \* Blocks -> Blocks \cup {NoBlock}
  NumberOf,           \* Blocks -> Nat
  StateOf,            \* Blocks -> SUBSET Keys: the nodes of the block's state
  FirstBlocks,        \* the blocks whose state may be the first one stored
  Keys,               \* trie nodes
  MaxBlocks,          \* Constraints::max_blocks
  Delay,              \* canonicalization_delay
  MaxBlocksPerLevel,  \* MAX_BLOCKS_PER_LEVEL
  MaxPins             \* bound: state references held at one time

ASSUME StateDbAssumption ==
  /\ NoBlock \notin Blocks /\ IsFiniteSet(Blocks)
  /\ ParentOf \in [Blocks -> Blocks \cup {NoBlock}]
  /\ NumberOf \in [Blocks -> Nat]
  /\ \A b \in Blocks : ParentOf[b] # NoBlock => NumberOf[ParentOf[b]] + 1 = NumberOf[b]
  /\ StateOf \in [Blocks -> SUBSET Keys]
  /\ FirstBlocks \subseteq Blocks
  /\ MaxBlocks \in Nat /\ Delay \in Nat /\ MaxBlocksPerLevel \in Nat \ {0} /\ MaxPins \in Nat

VARIABLES
  (* NonCanonicalOverlay *)
  lastCanonicalized,        \* None, or [hash, number]
  levels,                   \* Seq(SUBSET [hash, index]): the overlays of each block number
  parents,                  \* the blocks with an entry in `parents`
  values,                   \* Keys -> reference count
  pendingCanonicalizations, \* Seq(Blocks)
  pendingInsertions,        \* Seq(Blocks)
  overlayPinned,            \* the blocks with an entry in the overlay's `pinned`
  pinnedInsertions,         \* discarded blocks kept for a pin -> pins below them
  (* RefWindow *)
  deathRows,                \* Seq([hash, deleted])
  deathIndex,               \* key -> number of the row that deletes it
  pendingNumber,            \* number of the first row
  noted,                    \* pending_canonicalizations: rows not applied yet
  pendingPrunings,
  (* StateDbSync *)
  pinned,                   \* Blocks -> state references held
  (* the backend *)
  db,                       \* what is on disk
  tx,                       \* the disk as the open transaction would leave it
  op,                       \* the operation that holds the import lock
  first,                    \* the block whose state was the first one stored
  leaked,                   \* nodes whose deletion a failed commit forgot
  grafted                   \* a block was inserted on a discarded one that a pin kept

overlayVars == <<lastCanonicalized, levels, parents, values, pendingCanonicalizations,
                 pendingInsertions, overlayPinned, pinnedInsertions>>
windowVars  == <<deathRows, deathIndex, pendingNumber, noted, pendingPrunings>>
history     == <<leaked, grafted>>
vars        == <<overlayVars, windowVars, pinned, db, tx, op, first, history>>

None == [hash |-> NoBlock, number |-> -1]

Idle == [phase |-> "idle", block |-> NoBlock]

EmptyFunction == [x \in {} |-> 0]

(* A block and its ancestors: the least set with the block that is closed  *)
(* under ParentOf.                                                         *)
Closed(S) == \A x \in S : ParentOf[x] # NoBlock => ParentOf[x] \in S

Path == [b \in Blocks |-> {x \in Blocks : \A S \in SUBSET Blocks : b \in S /\ Closed(S) => x \in S}]

(* The changeset of block b.  The first state stored has no parent state   *)
(* to differ from.                                                          *)
ParentState(b) ==
  IF ParentOf[b] = NoBlock \/ b = first THEN {} ELSE StateOf[ParentOf[b]]

Inserted(b) == StateOf[b] \ ParentState(b)

Deleted(b) == ParentState(b) \ StateOf[b]

-----------------------------------------------------------------------------
(* Queries *)

Hashes(level) == {o.hash : o \in level}

InLevels == UNION {Hashes(levels[i]) : i \in 1..Len(levels)}

frontBlockNumber == lastCanonicalized.number + 1

(* best_canonical / last_canonicalized_block_number; -1 is None. *)
bestCanonical ==
  IF lastCanonicalized = None /\ pendingCanonicalizations # <<>>
  THEN Len(pendingCanonicalizations)
  ELSE lastCanonicalized.number + Len(pendingCanonicalizations)

overlayHaveBlock(b) ==
  /\ b \in parents \cup ToSet(pendingInsertions)
  /\ b \notin ToSet(pendingCanonicalizations)

windowHaveBlock(b) ==
  \E i \in pendingPrunings + 1 .. Len(deathRows) : deathRows[i].hash = b

isPruned(b) ==
  IF NumberOf[b] > bestCanonical
  THEN ~overlayHaveBlock(b)
  ELSE NumberOf[b] < pendingNumber + pendingPrunings \/ ~windowHaveBlock(b)

haveStateAt(b) == ~isPruned(b)

(* The nodes StateDb::get finds: in the overlay, else on disk. *)
Readable == {k \in Keys : values[k] > 0} \cup db.data

-----------------------------------------------------------------------------
(* Reference counts of the overlay *)

(* Mutant: a node inserted by several blocks is counted once. *)
InsertValuesOnce(vals, bs) ==
  [k \in Keys |-> IF \E b \in bs : k \in Inserted(b) THEN 1 ELSE vals[k]]

(* insert_values, for a set of blocks. *)
InsertValues(vals, bs) ==
  [k \in Keys |-> vals[k] + Cardinality({b \in bs : k \in Inserted(b)})]

(* discard_values, for a set of blocks: a missing value is left missing. *)
DiscardValues(vals, bs) ==
  [k \in Keys |-> LET n == Cardinality({b \in bs : k \in Inserted(b)})
                  IN  IF vals[k] > n THEN vals[k] - n ELSE 0]

WithoutKeys(f, S) == [x \in DOMAIN f \ S |-> f[x]]

-----------------------------------------------------------------------------
(* The pruning window *)

(* Mutant: the new row is indexed one too high. *)
ImportRowOffByOne(w, n, b) ==
  [rows  |-> Append(w.rows, [hash |-> b, deleted |-> Deleted(b)]),
   index |-> [k \in DOMAIN w.index \cup Deleted(b) |->
                IF k \in Deleted(b) THEN n + Len(w.rows) + 1 ELSE w.index[k]]]

(* Mutant: a node inserted again stays in the index. *)
ImportRowKeepsIndex(w, n, b) ==
  LET back(i) == {k \in Inserted(b) : k \in DOMAIN w.index /\ w.index[k] = n + i - 1}
  IN  [rows  |-> Append([i \in 1..Len(w.rows) |-> [w.rows[i] EXCEPT !.deleted = @ \ back(i)]],
                        [hash |-> b, deleted |-> Deleted(b)]),
       index |-> [k \in DOMAIN w.index \cup Deleted(b) |->
                    IF k \in Deleted(b) THEN n + Len(w.rows) ELSE w.index[k]]]

(* RefWindow::import: block b's insertions leave the death rows, its       *)
(* deletions become the last row.  w is [rows, index], n the number of the *)
(* first row.                                                              *)
ImportRow(w, n, b) ==
  LET back(i) == {k \in Inserted(b) : k \in DOMAIN w.index /\ w.index[k] = n + i - 1}
      rows    == [i \in 1..Len(w.rows) |->
                    [w.rows[i] EXCEPT !.deleted = @ \ back(i)]]
      kept    == WithoutKeys(w.index, Inserted(b))
  IN  [rows  |-> Append(rows, [hash |-> b, deleted |-> Deleted(b)]),
       index |-> [k \in DOMAIN kept \cup Deleted(b) |->
                    IF k \in Deleted(b) THEN n + Len(w.rows) ELSE kept[k]]]

(* Mutant: pinned blocks are pruned like the others. *)
PruneCountUnpinned(rows) ==
  Max({m \in 0 .. Len(rows) - pendingPrunings :
         \A i \in 1..m : Len(rows) - (pendingPrunings + i - 1) > MaxBlocks})

(* StateDbSync::prune: how many rows of the window go. *)
PruneCount(rows) ==
  Max({m \in 0 .. Len(rows) - pendingPrunings :
         \A i \in 1..m :
           /\ Len(rows) - (pendingPrunings + i - 1) > MaxBlocks
           /\ pinned[rows[pendingPrunings + i].hash] = 0})

(* Mutant: the last row to prune is not deleted from. *)
DeadKeysButLast(rows, n) == UNION {rows[pendingPrunings + i].deleted : i \in 1 .. n - 1}

(* prune_one, n times: what is deleted from the state column. *)
DeadKeys(rows, n) == UNION {rows[pendingPrunings + i].deleted : i \in 1..n}

-----------------------------------------------------------------------------
(* Start: the overlay and the window are read back from their journals. *)

(* The blocks of the journal with the given number. *)
JournalLevel(disk, number) ==
  {[hash |-> disk.journal[<<number, i>>], index |-> i] :
     i \in {i \in 0 .. MaxBlocksPerLevel - 1 : <<number, i>> \in DOMAIN disk.journal}}

(* The first level without a journal record ends the overlay. *)
JournalDepth(disk) ==
  LET last == disk.lastCanonical.number
  IN  IF disk.lastCanonical = None THEN 0
      ELSE Cardinality({m \in Range(NumberOf) :
                          m > last /\ \A j \in last + 1 .. m : JournalLevel(disk, j) # {}})

JournalLevels(disk) ==
  [j \in 1..JournalDepth(disk) |-> JournalLevel(disk, disk.lastCanonical.number + j)]

JournalBlocks(disk) ==
  UNION {Hashes(JournalLevels(disk)[j]) : j \in 1..JournalDepth(disk)}

(* RefWindow::new: the records from last_pruned + 1 on, up to the first    *)
(* that is missing, are imported in order.                                 *)
JournalStart(disk) == disk.lastPruned + 1

JournalLen(disk) ==
  Cardinality({m \in DOMAIN disk.pruning :
                 m >= JournalStart(disk) /\ JournalStart(disk) .. m \subseteq DOMAIN disk.pruning})

JournalWindow(disk) ==
  LET n == JournalStart(disk)
      w[j \in 0..JournalLen(disk)] ==
        IF j = 0 THEN [rows |-> <<>>, index |-> EmptyFunction]
        ELSE ImportRow(w[j - 1], n, disk.pruning[n + j - 1])
  IN  w[JournalLen(disk)]

(* StateDbSync::new on the given disk. *)
Started(disk) ==
  /\ lastCanonicalized' = disk.lastCanonical
  /\ levels' = JournalLevels(disk)
  /\ parents' = JournalBlocks(disk)
  /\ values' = InsertValues([k \in Keys |-> 0], JournalBlocks(disk))
  /\ pendingCanonicalizations' = <<>>
  /\ pendingInsertions' = <<>>
  /\ overlayPinned' = {}
  /\ pinnedInsertions' = EmptyFunction
  /\ deathRows' = JournalWindow(disk).rows
  /\ deathIndex' = JournalWindow(disk).index
  /\ pendingNumber' = JournalStart(disk)
  /\ noted' = 0
  /\ pendingPrunings' = 0
  /\ pinned' = [b \in Blocks |-> 0]

EmptyDisk ==
  [data |-> {}, lastCanonical |-> None, journal |-> EmptyFunction,
   lastPruned |-> -1, pruning |-> EmptyFunction, headers |-> {}, finalized |-> NoBlock]

Init ==
  /\ lastCanonicalized = None
  /\ levels = <<>>
  /\ parents = {}
  /\ values = [k \in Keys |-> 0]
  /\ pendingCanonicalizations = <<>>
  /\ pendingInsertions = <<>>
  /\ overlayPinned = {}
  /\ pinnedInsertions = EmptyFunction
  /\ deathRows = <<>>
  /\ deathIndex = EmptyFunction
  /\ pendingNumber = 0
  /\ noted = 0
  /\ pendingPrunings = 0
  /\ pinned = [b \in Blocks |-> 0]
  /\ db = EmptyDisk
  /\ tx = EmptyDisk
  /\ op = Idle
  /\ first = NoBlock
  /\ leaked = {}
  /\ grafted = FALSE

-----------------------------------------------------------------------------
(* Pins *)

(* StateDb::pin, once it has found the block.  The overlay does not pin a  *)
(* block whose insertion is pending.                                       *)
Pin(b) ==
  /\ pinned' = [pinned EXCEPT ![b] = @ + 1]
  /\ overlayPinned' = overlayPinned \cup
       (IF pinned[b] = 0 /\ b \notin ToSet(pendingInsertions) THEN {b} ELSE {})

CanPin(b) == overlayHaveBlock(b) \/ windowHaveBlock(b)

(* Mutant: unpin does not walk to the ancestors. *)
UnpinWalkSelf(b) == {b} \cap DOMAIN pinnedInsertions

(* The discarded blocks the overlay's unpin walks over, from b towards its *)
(* ancestors, until one is not kept for a pin.                             *)
UnpinWalk(b) ==
  {x \in Path[b] : \A y \in Path[b] :
     NumberOf[y] >= NumberOf[x] => /\ y \in DOMAIN pinnedInsertions
                                   /\ y # x => y \in parents}

(* StateDb::unpin of a block with a reference; the last one also unpins    *)
(* the overlay.                                                            *)
Unpin(b) ==
  LET walk == IF pinned[b] = 1 /\ b \in overlayPinned THEN UnpinWalk(b) ELSE {}
      gone == {x \in walk : pinnedInsertions[x] = 1}
  IN  /\ pinned' = [pinned EXCEPT ![b] = @ - 1]
      /\ overlayPinned' = IF pinned[b] = 1 THEN overlayPinned \ {b} ELSE overlayPinned
      /\ pinnedInsertions' = [x \in DOMAIN pinnedInsertions \ gone |->
                                IF x \in walk THEN pinnedInsertions[x] - 1
                                              ELSE pinnedInsertions[x]]
      /\ values' = DiscardValues(values, gone)
      /\ parents' = parents \ gone

(* The block whose state the open import operation holds. *)
HeldByOp ==
  IF op.phase \in {"open", "inserted"} /\ op.block \notin {first, NoBlock} THEN ParentOf[op.block] ELSE NoBlock

Readers == SumFunction(pinned) - (IF HeldByOp = NoBlock THEN 0 ELSE 1)

(* Backend::state_at: a reader takes a reference to a block's state.       *)
(* have_state_at is read before pin, under its own lock, so what it said   *)
(* may be stale: only pin's own check is a guard.                          *)
StateAt(b) ==
  /\ b \in db.headers
  /\ CanPin(b)
  /\ Readers < MaxPins
  /\ Pin(b)
  /\ UNCHANGED <<lastCanonicalized, levels, parents, values, pendingCanonicalizations,
                 pendingInsertions, pinnedInsertions, windowVars, db, tx, op, first, history>>

(* Drop for RefTrackingState. *)
DropState(b) ==
  /\ pinned[b] > (IF HeldByOp = b THEN 1 ELSE 0)
  /\ Unpin(b)
  /\ UNCHANGED <<lastCanonicalized, levels, pendingCanonicalizations, pendingInsertions,
                 windowVars, db, tx, op, first, history>>

-----------------------------------------------------------------------------
(* An operation of the backend, under the import lock *)

(* begin_operation and begin_state_operation of an import: the parent's    *)
(* state is referenced.  The client refuses a block at or below the last   *)
(* finalized number.  The first state is not computed from a parent.       *)
BeginImport(b) ==
  /\ op = Idle
  /\ b \notin db.headers
  /\ op' = [phase |-> "open", block |-> b]
  /\ \/ /\ db.headers = {} /\ b \in FirstBlocks /\ first \in {NoBlock, b}
        /\ first' = b
        /\ UNCHANGED <<pinned, overlayPinned>>
     \/ /\ ParentOf[b] \in db.headers /\ NumberOf[b] > NumberOf[db.finalized]
        /\ haveStateAt(ParentOf[b]) /\ CanPin(ParentOf[b])
        /\ Pin(ParentOf[b])
        /\ UNCHANGED first
  /\ UNCHANGED <<lastCanonicalized, levels, parents, values, pendingCanonicalizations,
                 pendingInsertions, pinnedInsertions, windowVars, db, tx, history>>

(* An operation that only finalizes blocks (apply_finality). *)
BeginFinality ==
  /\ op = Idle
  /\ db.headers # {}
  /\ op' = [phase |-> "open", block |-> NoBlock]
  /\ UNCHANGED <<overlayVars, windowVars, pinned, db, tx, first, history>>

(* The checks of NonCanonicalOverlay::insert. *)
FirstInsert(b) == levels = <<>> /\ lastCanonicalized = None /\ NumberOf[b] > 0

InsertAccepted(b) ==
  lastCanonicalized # None =>
    /\ NumberOf[b] \in frontBlockNumber .. frontBlockNumber + Len(levels)
    /\ IF NumberOf[b] = frontBlockNumber
       THEN lastCanonicalized = [hash |-> ParentOf[b], number |-> NumberOf[b] - 1]
       ELSE ParentOf[b] \in parents

AvailableIndex(level) ==
  Min({i \in 0..MaxBlocksPerLevel : \A o \in level : o.index # i})

(* The block was discarded, and is in the overlay for a pin only. *)
DiscardedBlock(b) == b \in DOMAIN pinnedInsertions /\ b # lastCanonicalized.hash

(* insert_block *)
InsertBlock ==
  LET b      == op.block
      at     == IF levels = <<>> THEN 1 ELSE NumberOf[b] - frontBlockNumber + 1
      pushed == IF at > Len(levels) THEN Append(levels, {}) ELSE levels
      index  == AvailableIndex(pushed[at])
      newLast == IF FirstInsert(b)
                 THEN [hash |-> ParentOf[b], number |-> NumberOf[b] - 1]
                 ELSE lastCanonicalized
  IN  /\ op.phase = "open" /\ b # NoBlock
      /\ InsertAccepted(b)
      /\ Cardinality(pushed[at]) < MaxBlocksPerLevel
      /\ lastCanonicalized' = newLast
      /\ levels' = [pushed EXCEPT ![at] = @ \cup {[hash |-> b, index |-> index]}]
      /\ parents' = parents \cup {b}
      /\ values' = InsertValues(values, {b})
      /\ pendingInsertions' = Append(pendingInsertions, b)
      /\ tx' = [tx EXCEPT !.journal = (<<NumberOf[b], index>> :> b) @@ @,
                          !.lastCanonical = IF FirstInsert(b) THEN newLast ELSE @,
                          !.headers = @ \cup {b}]
      /\ op' = [op EXCEPT !.phase = "inserted"]
      /\ grafted' = (grafted \/ DiscardedBlock(ParentOf[b]))
      /\ UNCHANGED <<pendingCanonicalizations, overlayPinned, pinnedInsertions, windowVars,
                     pinned, db, first, leaked>>

(* into_cache_changes: the parent's state is released before finality. *)
ReleaseParent ==
  /\ op.phase = "inserted"
  /\ op' = [op EXCEPT !.phase = "released"]
  /\ IF HeldByOp # NoBlock THEN Unpin(HeldByOp)
     ELSE UNCHANGED <<pinned, overlayPinned, pinnedInsertions, values, parents>>
  /\ UNCHANGED <<lastCanonicalized, levels, pendingCanonicalizations, pendingInsertions,
                 windowVars, db, tx, first, history>>

(* Mutant: every deeper overlay goes, the winner's children included. *)
DiscardedAll(at, h) == UNION {levels[i] : i \in at .. Len(levels)}

(* discard_descendants: the rivals of h in level `at`, and the blocks that *)
(* descend from them.                                                      *)
Lost(at, h) ==
  LET rivals == Hashes(levels[at]) \ {h}
  IN  {y \in UNION {Hashes(levels[i]) : i \in at .. Len(levels)} : Path[y] \cap rivals # {}}

(* discard_journals: what canonicalizing h takes out of the overlay. *)
Discarded(at, h) ==
  {o \in UNION {levels[i] : i \in at .. Len(levels)} : o.hash \in Lost(at, h) \cup {h}}

(* canonicalize_block: canonicalize, note_canonical and prune.  `next` is  *)
(* the transaction so far.                                                 *)
CanonicalizeBlock(h, next) ==
  LET at     == Len(pendingCanonicalizations) + 1
      keys   == {<<NumberOf[o.hash], o.index>> : o \in Discarded(at, h)}
      w      == ImportRow([rows |-> deathRows, index |-> deathIndex], pendingNumber, h)
      n      == PruneCount(w.rows)
      from   == pendingNumber + pendingPrunings
      record == (pendingNumber + Len(deathRows)) :> h
  IN  /\ at <= Len(levels) /\ h \in Hashes(levels[at])
      /\ pendingCanonicalizations' = Append(pendingCanonicalizations, h)
      /\ deathRows' = w.rows
      /\ deathIndex' = w.index
      /\ noted' = noted + 1
      /\ pendingPrunings' = pendingPrunings + n
      /\ tx' = [next EXCEPT
                  !.data = (@ \cup Inserted(h)) \ DeadKeys(w.rows, n),
                  !.lastCanonical = [hash |-> h, number |-> frontBlockNumber + at - 1],
                  !.journal = WithoutKeys(@, keys),
                  !.lastPruned = IF n > 0 THEN from + n - 1 ELSE @,
                  !.pruning = WithoutKeys(record @@ @, from .. from + n - 1)]

Untouched == UNCHANGED <<pendingCanonicalizations, deathRows, deathIndex, noted, pendingPrunings>>

(* note_finalized: h is canonicalized if its state is there and its number *)
(* is not canonical already.                                               *)
NoteFinalized(h) ==
  LET next == [tx EXCEPT !.finalized = h]
  IN  /\ IF haveStateAt(h) /\ NumberOf[h] > bestCanonical
         THEN CanonicalizeBlock(h, next)
         ELSE tx' = next /\ Untouched
      /\ UNCHANGED <<lastCanonicalized, levels, parents, values, pendingInsertions,
                     overlayPinned, pinnedInsertions, pendingNumber, pinned, db, first, history>>

(* One of the operation's finalized_blocks, a child of the last one; an    *)
(* import finalizes ancestors of its block.                                *)
FinalizeBlock(h) ==
  /\ op.phase = "open"
  /\ h \in db.headers
  /\ op.block # NoBlock => h \in Path[op.block]
  /\ ParentOf[h] = tx.finalized
  /\ NoteFinalized(h)
  /\ UNCHANGED op

(* The imported block is final itself.  A first state always is. *)
FinalizeImported ==
  /\ op.phase = "released"
  /\ op.block = first \/ ParentOf[op.block] = tx.finalized
  /\ NoteFinalized(op.block)
  /\ op' = [op EXCEPT !.phase = "done"]

(* force_delayed_canonicalize, for the block h of the best chain; which    *)
(* chain is best is consensus' choice, among those through the last        *)
(* finalized block.                                                        *)
ForceDue ==
  /\ NumberOf[op.block] > Delay
  /\ NumberOf[op.block] - Delay > Max({bestCanonical, 0})

ForceCanonicalize(h) ==
  /\ op.phase = "released" /\ op.block # first
  /\ ForceDue
  /\ h \in db.headers
  /\ NumberOf[h] = NumberOf[op.block] - Delay
  /\ h \in Path[tx.finalized] \/ tx.finalized \in Path[h]
  /\ IF haveStateAt(h) THEN CanonicalizeBlock(h, tx) ELSE UNCHANGED tx /\ Untouched
  /\ op' = [op EXCEPT !.phase = "done"]
  /\ UNCHANGED <<lastCanonicalized, levels, parents, values, pendingInsertions,
                 overlayPinned, pinnedInsertions, pendingNumber, pinned, db, first, history>>

(* The transaction is written. *)
Commit ==
  /\ \/ op.phase = "done"
     \/ op.phase = "released" /\ op.block # first /\ ~ForceDue
     \/ op.phase = "open" /\ op.block = NoBlock
  /\ db' = tx
  /\ op' = [op EXCEPT !.phase = "committed"]
  /\ UNCHANGED <<overlayVars, windowVars, pinned, tx, first, history>>

(* Mutant: several canonicalizations advance the number by one. *)
AppliedNumberOnce(n) == lastCanonicalized.number + 1

(* The number of the last of n applied canonicalizations. *)
AppliedNumber(n) == lastCanonicalized.number + n

(* apply_pending of the overlay and of the window.  A block that leaves    *)
(* the overlay with pins at it, or at descendants that are lost with it, is *)
(* kept.                                                                   *)
ApplyPending ==
  LET n    == Len(pendingCanonicalizations)
      won  == ToSet(pendingCanonicalizations)
      lost == UNION {Lost(i, pendingCanonicalizations[i]) : i \in 1..n}
      pins(x) == IF x \in won THEN Cardinality({x} \cap overlayPinned)
                 ELSE Cardinality({y \in lost \cap overlayPinned : x \in Path[y]})
      kept == {x \in won \cup lost : pins(x) # 0}
      gone == (won \cup lost) \ kept
      pruned == UNION {deathRows[i].deleted : i \in 1..pendingPrunings}
  IN  /\ op.phase = "committed"
      /\ levels' = [i \in 1 .. Len(levels) - n |-> {o \in levels[n + i] : o.hash \notin lost}]
      /\ parents' = parents \ gone
      /\ values' = DiscardValues(values, gone)
      /\ pinnedInsertions' = [x \in DOMAIN pinnedInsertions \cup kept |->
                                IF x \in kept THEN pins(x) ELSE pinnedInsertions[x]]
      /\ lastCanonicalized' =
           IF n = 0 THEN lastCanonicalized
           ELSE [hash |-> pendingCanonicalizations[n], number |-> AppliedNumber(n)]
      /\ pendingCanonicalizations' = <<>>
      /\ pendingInsertions' = <<>>
      /\ deathRows' = SubSeq(deathRows, pendingPrunings + 1, Len(deathRows))
      /\ deathIndex' = WithoutKeys(deathIndex, pruned)
      /\ pendingNumber' = pendingNumber + pendingPrunings
      /\ noted' = 0
      /\ pendingPrunings' = 0
      /\ op' = Idle
      /\ UNCHANGED <<overlayPinned, pinned, db, tx, first, history>>

(* Any step of the operation fails, the write included: the operation is   *)
(* dropped, and the parent's state with it.                                *)
Fail ==
  /\ op.phase \in {"open", "inserted", "released", "done"}
  /\ op' = [op EXCEPT !.phase = "failed"]
  /\ tx' = db
  /\ IF HeldByOp # NoBlock THEN Unpin(HeldByOp)
     ELSE UNCHANGED <<pinned, overlayPinned, pinnedInsertions, values, parents>>
  /\ UNCHANGED <<lastCanonicalized, levels, pendingCanonicalizations, pendingInsertions,
                 windowVars, db, first, history>>

(* The level revert_insertions finds the block in. *)
LevelOfPending(b) == CHOOSE i \in 1..Len(levels) : b \in Hashes(levels[i])

(* revert_pending of the window and of the overlay.  The search for the    *)
(* block's level panics at an empty one.                                   *)
RevertPending ==
  LET rows == Len(deathRows) - noted
      late == {k \in DOMAIN deathIndex : deathIndex[k] >= rows + pendingNumber}
      b    == Head(pendingInsertions)
      at   == LevelOfPending(b)
      left == [levels EXCEPT ![at] = {o \in @ : o.hash # b}]
  IN  /\ op.phase = "failed"
      /\ deathRows' = SubSeq(deathRows, 1, rows)
      /\ deathIndex' = WithoutKeys(deathIndex, late)
      /\ noted' = 0
      /\ pendingPrunings' = 0
      /\ pendingCanonicalizations' = <<>>
      /\ pendingInsertions' = <<>>
      /\ IF pendingInsertions = <<>>
         THEN UNCHANGED <<levels, parents, values>>
         ELSE /\ \A i \in 1..at : levels[i] # {}
              /\ levels' = IF left[at] = {} THEN Front(left) ELSE left
              /\ parents' = parents \ {b}
              /\ values' = DiscardValues(values, {b})
      /\ op' = Idle
      /\ leaked' = leaked \cup UNION {Inserted(deathRows[i].hash) : i \in rows + 1 .. Len(deathRows)}
      /\ UNCHANGED <<lastCanonicalized, overlayPinned, pinnedInsertions, pendingNumber,
                     pinned, db, tx, first, grafted>>

(* The process stops at any point and starts again on what is on disk. *)
Restart ==
  /\ Started(db)
  /\ tx' = db
  /\ op' = Idle
  /\ UNCHANGED <<db, first, history>>

Next ==
  \/ \E b \in Blocks : StateAt(b) \/ DropState(b) \/ BeginImport(b)
                  \/ FinalizeBlock(b) \/ ForceCanonicalize(b)
  \/ BeginFinality \/ InsertBlock \/ ReleaseParent \/ FinalizeImported
  \/ Commit \/ ApplyPending \/ Fail \/ RevertPending \/ Restart

Spec == Init /\ [][Next]_vars

-----------------------------------------------------------------------------
(* Properties *)

Heads == [hash : Blocks \cup {NoBlock}, number : Nat \cup {-1}]

DiskOK(disk) ==
  /\ disk.data \subseteq Keys
  /\ disk.lastCanonical \in Heads
  /\ DOMAIN disk.journal \subseteq Range(NumberOf) \X (0 .. MaxBlocksPerLevel - 1)
  /\ Range(disk.journal) \cup Range(disk.pruning) \subseteq Blocks
  /\ disk.lastPruned \in Nat \cup {-1}
  /\ DOMAIN disk.pruning \subseteq Nat
  /\ disk.headers \subseteq Blocks
  /\ disk.finalized \in Blocks \cup {NoBlock}

(* Type correctness: every journal key names a level and an index below    *)
(* the sibling limit, every row of the death index is one of the window's. *)
TypeOK ==
  /\ lastCanonicalized \in Heads
  /\ levels \in Seq(SUBSET [hash : Blocks, index : 0 .. MaxBlocksPerLevel - 1])
  /\ parents \subseteq Blocks
  /\ values \in [Keys -> Nat]
  /\ pendingCanonicalizations \in Seq(Blocks) /\ pendingInsertions \in Seq(Blocks)
  /\ overlayPinned \subseteq Blocks
  /\ DOMAIN pinnedInsertions \subseteq Blocks
  /\ \A b \in DOMAIN pinnedInsertions : pinnedInsertions[b] \in Nat \ {0}
  /\ deathRows \in Seq([hash : Blocks, deleted : SUBSET Keys])
  /\ DOMAIN deathIndex \subseteq Keys
  /\ \A k \in DOMAIN deathIndex :
       deathIndex[k] \in pendingNumber .. pendingNumber + Len(deathRows) - 1
  /\ pendingPrunings \in 0..Len(deathRows)
  /\ noted \in 0..Len(deathRows)
  /\ pinned \in [Blocks -> Nat]
  /\ DiskOK(db) /\ DiskOK(tx)
  /\ op \in [phase : {"idle", "open", "inserted", "released", "done", "committed", "failed"},
             block : Blocks \cup {NoBlock}]
  /\ first \in Blocks \cup {NoBlock}

(* A block whose state is_pruned says is there can be read in full: every  *)
(* node of its state is in the overlay or on disk, whatever is pending,    *)
(* reverted, pruned or restarted in between.  This is about the blocks of  *)
(* the window and those that descend from the canonical head on disk: a    *)
(* fork that lost is on its way out, or is there for a pin only.           *)
AvailableStateReadable ==
  ~grafted =>
    \A b \in db.headers :
      haveStateAt(b) /\ (windowHaveBlock(b) \/ db.lastCanonical.hash \in Path[b])
        => StateOf[b] \subseteq Readable

(* prune stops at a pinned block: while a reader holds a canonical block's *)
(* state, no step makes it unavailable or takes one of its nodes away.     *)
PinnedNotPruned ==
  [][~grafted' =>
       \A b \in Blocks :
         windowHaveBlock(b) /\ pinned[b] > 0 /\ pinned'[b] > 0
           => haveStateAt(b)' /\ StateOf[b] \subseteq Readable']_vars

(* The journals are enough: between operations a restart finds the same    *)
(* canonical head, the same window and the same blocks in the overlay, and *)
(* it prunes no less than the running node.                                *)
RestartRecovers ==
  op = Idle =>
    LET rows == JournalWindow(db).rows
    IN  /\ db.headers # {} => db.lastCanonical = lastCanonicalized
        /\ Len(rows) = Len(deathRows)
        /\ \A i \in 1..Len(rows) : rows[i].hash = deathRows[i].hash
        /\ ~grafted => /\ JournalBlocks(db) = InLevels
                       /\ \A i \in 1..Len(rows) : deathRows[i].deleted \subseteq rows[i].deleted

(* death_index and death_rows say the same, so import always removes a     *)
(* re-inserted node from the row that would delete it.                     *)
DeathIndexExact ==
  /\ \A k \in DOMAIN deathIndex : k \in deathRows[deathIndex[k] - pendingNumber + 1].deleted
  /\ ~grafted =>
       \A i \in 1..Len(deathRows) : \A k \in deathRows[i].deleted :
         k \in DOMAIN deathIndex /\ deathIndex[k] = pendingNumber + i - 1

(* The overlay and the window meet: the number the overlay gives the next  *)
(* canonical block and the journal number of the next row differ by the    *)
(* number of the first state, applied, pending, reverted or restarted.     *)
WindowsAligned ==
  db.headers # {} =>
    frontBlockNumber + Len(pendingCanonicalizations)
      = NumberOf[first] + pendingNumber + Len(deathRows)

(* A discarded block is kept in memory only while a pin needs it: when the *)
(* last reader is gone, unpin has dropped every one.                       *)
KeptOnlyForPins ==
  (\A b \in Blocks : pinned[b] = 0) => DOMAIN pinnedInsertions = {}

(* A node stays on disk only while the last canonical block or one of the  *)
(* window uses it or a row will delete it, but for those whose deletion    *)
(* revert_pending forgot, as its comment says.                             *)
NoGarbage ==
  ~grafted =>
    db.data \subseteq
      UNION {StateOf[b] : b \in {db.lastCanonical.hash} \cap Blocks}
        \cup UNION {StateOf[deathRows[i].hash] : i \in 1..Len(deathRows)}
        \cup UNION {deathRows[i].deleted : i \in 1..Len(deathRows)}
        \cup leaked

(* StateDb::pin, "Prevents pruning of specified block and its descendants": *)
(* a block the overlay has registered a pin for can be read in full.       *)
PinPreventsPruning ==
  \A b \in overlayPinned : StateOf[b] \subseteq Readable
=============================================================================
