---------------------------- MODULE StorageLock ----------------------------
(***************************************************************************)
(* The expiring lock off-chain workers take in local storage               *)
(* (primitives/runtime/src/offchain/storage_lock.rs), over the             *)
(* compare-and-set of the node's off-chain database                        *)
(* (client/db/src/offchain.rs), whose per-key mutexes live in a map that   *)
(* is cleaned up after every use.  The workers run concurrently: each      *)
(* storage access is a step of its own.  A lock's deadline is a time and a *)
(* block number (BlockAndTime); with MaxBlock = 0 no lock would expire, and *)
(* the time-only lock is the case in which the block part has passed.      *)
(***************************************************************************)
EXTENDS Integers, FiniteSets

CONSTANTS
  Workers,      \* concurrent runs of an off-chain worker
  Duration,     \* expiration_duration
  BlockOffset,  \* expiration_block_number_offset
  MaxTime,      \* bound of the clock
  MaxBlock      \* bound of the block number

ASSUME LockAssumption ==
  /\ IsFiniteSet(Workers)
  /\ Duration \in Nat /\ BlockOffset \in Nat
  /\ MaxTime \in Nat /\ MaxBlock \in Nat

VARIABLES
  now, block,  \* the clock, and the number of the best block
  at,          \* the block each worker's run was started for
  cell,        \* the lock's entry in storage: None, Garbage or a deadline
  mutexes,     \* `locks`: the mutex the map has for the key, 0 if none
  pc,          \* where each worker is in lock, extend_lock or compare_and_set
  deadline,    \* the deadline the worker means to write
  seen,        \* the entry mutate read
  mutex,       \* the mutex compare_and_set cloned, 0 if none
  isSet,       \* what compare_and_set found
  held,        \* the deadline of the worker's StorageLockGuard, None without one
  overrun      \* some guard has outlived its deadline

local == <<pc, at, deadline, seen, mutex, isSet, held>>
vars  == <<now, block, cell, mutexes, overrun, local>>

None    == [time |-> -1, block |-> -1]   \* no entry
Garbage == [time |-> -2, block |-> -2]   \* an entry that does not decode

Deadlines == [time : Nat, block : Nat]

(* BlockAndTime::deadline, for a worker of block b. *)
Deadline(b) == [time |-> now + Duration, block |-> b + BlockOffset]

(* BlockAndTime::has_expired at time t for a worker of block b: both parts *)
(* must have passed.                                                       *)
Passed(d, t, b) == t > d.time /\ b > d.block

(* The deadline has passed for the worker of the best block. *)
Expired(d) == Passed(d, now, block)

Holders == {w \in Workers : held[w] # None}

(* Mutant: an active lock is taken over. *)
MayLockAlways(w) == TRUE

(* try_lock_inner's closure: no entry, an undecodable one, or an expired   *)
(* lock.                                                                   *)
MayLock(w) == seen[w] \in {None, Garbage} \/ Passed(seen[w], now, at[w])

(* extend_active_lock's closure: a lock that is present and active. *)
MayExtend(w) == seen[w] \notin {None, Garbage} /\ ~Passed(seen[w], now, at[w])

-----------------------------------------------------------------------------
Init ==
  /\ now = 0 /\ block = 0
  /\ at = [w \in Workers |-> 0]
  /\ cell \in {None, Garbage}
  /\ mutexes = 0
  /\ pc = [w \in Workers |-> "idle"]
  /\ deadline = [w \in Workers |-> None]
  /\ seen = [w \in Workers |-> None]
  /\ mutex = [w \in Workers |-> 0]
  /\ isSet = [w \in Workers |-> FALSE]
  /\ held = [w \in Workers |-> None]
  /\ overrun = FALSE

(* lock and try_lock compute the deadline first, in a run of the worker    *)
(* that was started for the best block or for an earlier one.              *)
BeginLock(w) ==
  /\ pc[w] = "idle" /\ held[w] = None
  /\ \E b \in 0 .. block :
       /\ at' = [at EXCEPT ![w] = b]
       /\ deadline' = [deadline EXCEPT ![w] = Deadline(b)]
  /\ pc' = [pc EXCEPT ![w] = "read"]
  /\ UNCHANGED <<now, block, cell, mutexes, seen, mutex, isSet, held, overrun>>

(* mutate reads the entry, for try_lock_inner or for extend_lock on a guard. *)
ReadEntry(w) ==
  /\ pc[w] = IF held[w] = None THEN "read" ELSE "idle"
  /\ seen' = [seen EXCEPT ![w] = cell]
  /\ pc' = [pc EXCEPT ![w] = "decide"]
  /\ UNCHANGED <<now, block, cell, mutexes, at, deadline, mutex, isSet, held, overrun>>

(* The closure accepts, with a new deadline if it is extend_lock's. *)
Accept(w) ==
  /\ pc[w] = "decide"
  /\ IF held[w] = None THEN MayLock(w) ELSE MayExtend(w)
  /\ pc' = [pc EXCEPT ![w] = "cas"]
  /\ deadline' = [deadline EXCEPT ![w] = IF held[w] = None THEN @ ELSE Deadline(at[w])]
  /\ UNCHANGED <<now, block, cell, mutexes, at, seen, mutex, isSet, held, overrun>>

(* What the call computed goes with it. *)
Return(w) ==
  /\ pc' = [pc EXCEPT ![w] = "idle"]
  /\ deadline' = [deadline EXCEPT ![w] = None]
  /\ seen' = [seen EXCEPT ![w] = None]
  /\ isSet' = [isSet EXCEPT ![w] = FALSE]

(* The closure fails: try_lock and extend_lock return, and lock sleeps and *)
(* begins again.                                                           *)
Refuse(w) ==
  /\ pc[w] = "decide"
  /\ ~(IF held[w] = None THEN MayLock(w) ELSE MayExtend(w))
  /\ Return(w)
  /\ UNCHANGED <<now, block, cell, mutexes, at, mutex, held, overrun>>

-----------------------------------------------------------------------------
(* A mutex no call has a clone of. *)
NewMutex ==
  CHOOSE m \in 1 .. Cardinality(Workers) + 1 : \A v \in Workers : mutex[v] # m

(* compare_and_set takes the key's mutex from the map, or puts one there. *)
CloneMutex(w) ==
  /\ pc[w] = "cas"
  /\ mutexes' = IF mutexes # 0 THEN mutexes ELSE NewMutex
  /\ mutex' = [mutex EXCEPT ![w] = mutexes']
  /\ pc' = [pc EXCEPT ![w] = "wait"]
  /\ UNCHANGED <<now, block, cell, at, deadline, seen, isSet, held, overrun>>

(* The mutex is locked, and the entry compared with what mutate read. *)
Compare(w) ==
  /\ pc[w] = "wait"
  /\ \A v \in Workers : ~(pc[v] = "compared" /\ mutex[v] = mutex[w])
  /\ isSet' = [isSet EXCEPT ![w] = (cell = seen[w])]
  /\ pc' = [pc EXCEPT ![w] = "compared"]
  /\ UNCHANGED <<now, block, cell, mutexes, at, deadline, seen, mutex, held, overrun>>

(* Mutant: a comparison that fails is tried again. *)
SetOrCompareAgain(w) ==
  /\ pc[w] = "compared"
  /\ IF isSet[w]
     THEN /\ cell' = deadline[w]
          /\ held' = [held EXCEPT ![w] = deadline[w]]
          /\ overrun' = (overrun \/ Expired(deadline[w]))
          /\ pc' = [pc EXCEPT ![w] = "clean"]
     ELSE /\ pc' = [pc EXCEPT ![w] = "wait"]
          /\ UNCHANGED <<cell, held, overrun>>
  /\ UNCHANGED <<now, block, mutexes, at, deadline, seen, mutex, isSet>>

(* The entry is written if it was as expected, and the mutex unlocked. *)
Set(w) ==
  /\ pc[w] = "compared"
  /\ IF isSet[w]
     THEN /\ cell' = deadline[w]
          /\ held' = [held EXCEPT ![w] = deadline[w]]
          /\ overrun' = (overrun \/ Expired(deadline[w]))
     ELSE UNCHANGED <<cell, held, overrun>>
  /\ pc' = [pc EXCEPT ![w] = "clean"]
  /\ UNCHANGED <<now, block, mutexes, at, deadline, seen, mutex, isSet>>

(* Mutant: the mutex leaves the map while others wait for it. *)
LastCloneAlways(w) == TRUE

(* Mutant: the mutex never leaves the map. *)
LastCloneNever(w) == FALSE

(* Arc::get_mut succeeds on the map's mutex: there is no other clone. *)
LastClone(w) == \A v \in Workers \ {w} : mutex[v] # mutexes

(* The clone is dropped, and the mutex leaves the map with the last one. *)
CleanMutex(w) ==
  /\ pc[w] = "clean"
  /\ mutexes' = IF LastClone(w) THEN 0 ELSE mutexes
  /\ mutex' = [mutex EXCEPT ![w] = 0]
  /\ Return(w)
  /\ UNCHANGED <<now, block, cell, at, held, overrun>>

-----------------------------------------------------------------------------
(* Drop for StorageLockGuard: unlock clears the entry, whoever wrote it. *)
DropGuard(w) ==
  /\ pc[w] = "idle" /\ held[w] # None
  /\ cell' = None
  /\ held' = [held EXCEPT ![w] = None]
  /\ UNCHANGED <<now, block, mutexes, pc, at, deadline, seen, mutex, isSet, overrun>>

(* forget, or the end of a worker that does not unwind: the entry stays. *)
Forget(w) ==
  /\ pc[w] = "idle" /\ held[w] # None
  /\ held' = [held EXCEPT ![w] = None]
  /\ UNCHANGED <<now, block, cell, mutexes, pc, at, deadline, seen, mutex, isSet, overrun>>

(* Time passes, or a block is imported. *)
Advance ==
  /\ \/ now < MaxTime /\ now' = now + 1 /\ UNCHANGED block
     \/ block < MaxBlock /\ block' = block + 1 /\ UNCHANGED now
  /\ overrun' = (overrun \/ \E w \in Holders : Passed(held[w], now', block'))
  /\ UNCHANGED <<cell, mutexes, local>>

(* The workers and the map of mutexes end with the process. *)
ProcessEnds ==
  /\ mutexes' = 0
  /\ at' = [w \in Workers |-> 0]
  /\ pc' = [w \in Workers |-> "idle"]
  /\ deadline' = [w \in Workers |-> None]
  /\ seen' = [w \in Workers |-> None]
  /\ mutex' = [w \in Workers |-> 0]
  /\ isSet' = [w \in Workers |-> FALSE]
  /\ held' = [w \in Workers |-> None]

(* Mutant: the entry does not persist. *)
RestartClears ==
  ProcessEnds /\ cell' = None /\ UNCHANGED <<now, block, overrun>>

(* The node restarts: the entry persists. *)
Restart == ProcessEnds /\ UNCHANGED <<now, block, cell, overrun>>

Step(w) ==
  \/ BeginLock(w) \/ ReadEntry(w) \/ Accept(w) \/ Refuse(w)
  \/ CloneMutex(w) \/ Compare(w) \/ Set(w) \/ CleanMutex(w)
  \/ DropGuard(w) \/ Forget(w)

Next == (\E w \in Workers : Step(w)) \/ Advance \/ Restart

Spec == Init /\ [][Next]_vars

(* A thread that may run does, and the mutex (parking_lot, eventually      *)
(* fair) does not pass a waiting thread over for ever.                     *)
Fairness ==
  \A w \in Workers :
    /\ WF_vars(CloneMutex(w)) /\ WF_vars(Set(w)) /\ WF_vars(CleanMutex(w))
    /\ SF_vars(Compare(w))

FairSpec == Spec /\ Fairness

-----------------------------------------------------------------------------
(* Every value the lock and the map of mutexes can hold. *)
TypeOK ==
  /\ now \in Nat /\ block \in Nat
  /\ at \in [Workers -> Nat] /\ \A w \in Workers : at[w] <= block
  /\ cell \in Deadlines \cup {None, Garbage}
  /\ mutexes \in Nat
  /\ pc \in [Workers -> {"idle", "read", "decide", "cas", "wait", "compared", "clean"}]
  /\ deadline \in [Workers -> Deadlines \cup {None}]
  /\ seen \in [Workers -> Deadlines \cup {None, Garbage}]
  /\ mutex \in [Workers -> Nat]
  /\ isSet \in [Workers -> BOOLEAN]
  /\ held \in [Workers -> Deadlines \cup {None}]
  /\ overrun \in BOOLEAN

(* Two compare_and_set calls are never between the comparison and the      *)
(* write at once, although each call may remove the key's mutex from the   *)
(* map while others wait for it or ask for it.                             *)
CompareExclusive ==
  \A v, w \in Workers : pc[v] = "compared" /\ pc[w] = "compared" => v = w

(* The map forgets the key's mutex when nobody uses it: compare_and_set    *)
(* leaves no entry behind.                                                 *)
MutexesCleaned == (\A w \in Workers : mutex[w] = 0) => mutexes = 0

(* As long as no guard has outlived its deadline, one worker at a time has *)
(* a guard, and the entry in storage is that guard's, so that no other     *)
(* worker can take the lock.                                               *)
GuardExclusive ==
  ~overrun => /\ \A v, w \in Holders : v = w
              /\ \A w \in Holders : cell = held[w]

(* A guard that is dropped or extended in time gives up its own lock, and   *)
(* an active lock whose owner forgot it or crashed is left alone by every  *)
(* other worker.                                                           *)
ActiveLockKept ==
  [][~overrun /\ cell \in Deadlines /\ ~Expired(cell) /\ cell' # cell
       => \E w \in Workers : held[w] = cell]_vars

(* Every compare_and_set returns. *)
CompareAndSetReturns ==
  \A w \in Workers : pc[w] = "cas" ~> pc[w] = "idle"

=============================================================================
