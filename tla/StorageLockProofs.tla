------------------------- MODULE StorageLockProofs -------------------------
(***************************************************************************)
(* Proofs about StorageLock, for any set of workers, any expiry and any    *)
(* bounds of the clock and of the block number.                            *)
(***************************************************************************)
EXTENDS StorageLock, FiniteSetTheorems, TLAPS

(* The inductive invariant adds two facts.  The map's mutex is the one     *)
(* every running call has cloned, and a call that is past try_lock_inner's *)
(* closure read an entry that is free and stays free until it is written.  *)
MutexInv ==
  /\ \A w \in Workers : pc[w] \in {"wait", "compared", "clean"} <=> mutex[w] # 0
  /\ \A w \in Workers : mutex[w] # 0 => mutex[w] = mutexes

FreeEntry(d) == d \in {None, Garbage} \/ Expired(d)

GuardInv ==
  /\ \A w \in Workers :
       pc[w] \in {"read", "cas", "wait", "compared"} => deadline[w] \in Deadlines
  /\ \A w \in Workers :
       pc[w] = "decide" /\ held[w] = None => deadline[w] \in Deadlines
  /\ \A w \in Workers :
       pc[w] \in {"cas", "wait", "compared"} /\ held[w] = None => FreeEntry(seen[w])
  /\ ~overrun => /\ \A w \in Holders : ~Expired(held[w])
                 /\ \A w \in Workers :
                      pc[w] = "compared" /\ isSet[w] /\ held[w] = None
                        => Holders = {} /\ FreeEntry(cell)

IInv == TypeOK /\ MutexInv /\ CompareExclusive /\ MutexesCleaned /\ GuardExclusive /\ GuardInv

-----------------------------------------------------------------------------
(* None and Garbage are not deadlines, so that an entry tells them apart. *)
LEMMA MarksAreNoDeadlines ==
  /\ None \notin Deadlines /\ Garbage \notin Deadlines /\ None # Garbage
  BY DEF None, Garbage, Deadlines

(* A new deadline is a deadline, whatever the time and the block. *)
LEMMA DeadlineType ==
  ASSUME TypeOK, NEW b \in Nat PROVE Deadline(b) \in Deadlines
  BY LockAssumption DEF TypeOK, Deadline, Deadlines

(* The mutex put into an empty map is one no running call has cloned. *)
LEMMA NewMutexFresh ==
  ASSUME TypeOK, MutexInv, mutexes = 0
  PROVE  NewMutex \in Nat \ {0}
  <1>1. Cardinality(Workers) \in Nat
    BY LockAssumption, FS_CardinalityType
  <1>2. 1 \in 1 .. Cardinality(Workers) + 1
    BY <1>1
  <1>3. \A v \in Workers : mutex[v] # 1
    BY DEF MutexInv, TypeOK
  <1> QED
    BY <1>1, <1>2, <1>3 DEF NewMutex

(* A deadline that has passed stays passed: the clock and the best block   *)
(* only advance.                                                           *)
LEMMA ExpiryStable ==
  ASSUME TypeOK, now' \in Nat, block' \in Nat, now' >= now, block' >= block,
         NEW d \in Deadlines, Expired(d)
  PROVE  Expired(d)'
  BY DEF Expired, Passed, Deadlines, TypeOK

(* What a worker finds expired is expired for the best block. *)
LEMMA PassedExpired ==
  ASSUME TypeOK, NEW w \in Workers, NEW d \in Deadlines, Passed(d, now, at[w])
  PROVE  Expired(d)
  BY DEF Expired, Passed, Deadlines, TypeOK

-----------------------------------------------------------------------------
(* The values the lock starts from have their types and no worker has the  *)
(* lock.                                                                   *)
LEMMA InitInv == ASSUME Init PROVE IInv
  <1>1. Holders = {}
    BY DEF Init, Holders
  <1>2. TypeOK
    <2>1. isSet \in [Workers -> BOOLEAN] /\ overrun \in BOOLEAN
      BY Zenon DEF Init
    <2>2. pc \in [Workers -> {"idle", "read", "decide", "cas", "wait", "compared", "clean"}]
      BY DEF Init
    <2>3. now \in Nat /\ block \in Nat /\ at \in [Workers -> Nat]
            /\ \A w \in Workers : at[w] <= block
      BY DEF Init
    <2>4. cell \in Deadlines \cup {None, Garbage} /\ mutexes \in Nat
            /\ mutex \in [Workers -> Nat]
      BY DEF Init
    <2>5. /\ deadline \in [Workers -> Deadlines \cup {None}]
          /\ seen \in [Workers -> Deadlines \cup {None, Garbage}]
          /\ held \in [Workers -> Deadlines \cup {None}]
      BY DEF Init
    <2> QED BY <2>1, <2>2, <2>3, <2>4, <2>5 DEF TypeOK
  <1>3. MutexInv /\ CompareExclusive /\ MutexesCleaned
    BY DEF Init, MutexInv, CompareExclusive, MutexesCleaned
  <1>4. GuardExclusive /\ GuardInv
    BY <1>1 DEF Init, GuardExclusive, GuardInv
  <1> QED
    BY <1>2, <1>3, <1>4 DEF IInv

(* Every step of the lock, of compare_and_set and of the node keeps the    *)
(* types.                                                                  *)
LEMMA NextType == ASSUME IInv, [Next]_vars PROVE TypeOK'
  <1> USE DEF IInv
  <1>1. ASSUME NEW w \in Workers, BeginLock(w) PROVE TypeOK'
    <2>1. PICK b \in 0 .. block :
            /\ at' = [at EXCEPT ![w] = b]
            /\ deadline' = [deadline EXCEPT ![w] = Deadline(b)]
      BY <1>1, Zenon DEF BeginLock
    <2>2. b \in Nat /\ b <= block /\ Deadline(b) \in Deadlines
      BY DeadlineType DEF TypeOK
    <2> QED BY <1>1, <2>1, <2>2 DEF BeginLock, TypeOK
  <1>2. ASSUME NEW w \in Workers, ReadEntry(w) PROVE TypeOK'
    BY <1>2 DEF ReadEntry, TypeOK
  <1>3. ASSUME NEW w \in Workers, Accept(w) PROVE TypeOK'
    <2>1. Deadline(at[w]) \in Deadlines
      BY DeadlineType DEF TypeOK
    <2> QED BY <1>3, <2>1 DEF Accept, TypeOK
  <1>4. ASSUME NEW w \in Workers, Refuse(w) PROVE TypeOK'
    BY <1>4 DEF Refuse, Return, TypeOK
  <1>5. ASSUME NEW w \in Workers, CloneMutex(w) PROVE TypeOK'
    <2>1. mutexes' \in Nat
      BY <1>5, NewMutexFresh DEF CloneMutex, TypeOK
    <2> QED BY <1>5, <2>1 DEF CloneMutex, TypeOK
  <1>6. ASSUME NEW w \in Workers, Compare(w) PROVE TypeOK'
    <2>1. (cell = seen[w]) \in BOOLEAN
      OBVIOUS
    <2>2. isSet' \in [Workers -> BOOLEAN]
      BY <1>6, <2>1, Zenon DEF Compare, TypeOK
    <2> QED BY <1>6, <2>2 DEF Compare, TypeOK
  <1>7. ASSUME NEW w \in Workers, Set(w) PROVE TypeOK'
    <2>1. deadline[w] \in Deadlines
      BY <1>7 DEF Set, GuardInv
    <2>2. CASE isSet[w]
      BY <1>7, <2>1, <2>2 DEF Set, TypeOK
    <2>3. CASE ~isSet[w]
      BY <1>7, <2>3 DEF Set, TypeOK
    <2> QED BY <2>2, <2>3
  <1>8. ASSUME NEW w \in Workers, CleanMutex(w) PROVE TypeOK'
    BY <1>8 DEF CleanMutex, Return, TypeOK
  <1>9. ASSUME NEW w \in Workers, DropGuard(w) PROVE TypeOK'
    BY <1>9 DEF DropGuard, TypeOK
  <1>10. ASSUME NEW w \in Workers, Forget(w) PROVE TypeOK'
    <2>1. cell = held[w] => cell \in Deadlines \cup {None}
      BY DEF TypeOK
    <2> QED BY <1>10, <2>1 DEF Forget, TypeOK
  <1>11. ASSUME Advance PROVE TypeOK'
    BY <1>11 DEF Advance, local, TypeOK
  <1>12. ASSUME Restart PROVE TypeOK'
    BY <1>12 DEF Restart, ProcessEnds, TypeOK
  <1>13. ASSUME UNCHANGED vars PROVE TypeOK'
    BY <1>13, SMTT(30) DEF vars, local, TypeOK
  <1> QED
    BY <1>1, <1>2, <1>3, <1>4, <1>5, <1>6, <1>7, <1>8, <1>9, <1>10, <1>11,
       <1>12, <1>13 DEF Next, Step

(* Every step keeps the map's mutex the one all running calls share, so    *)
(* that only one of them is between the comparison and the write.          *)
LEMMA NextMutex ==
  ASSUME IInv, [Next]_vars
  PROVE  MutexInv' /\ CompareExclusive' /\ MutexesCleaned'
  <1> DEFINE P == MutexInv /\ CompareExclusive /\ MutexesCleaned
  <1>0. TypeOK /\ MutexInv /\ CompareExclusive /\ MutexesCleaned
    BY DEF IInv
  <1> USE <1>0 DEF TypeOK, MutexInv, CompareExclusive, MutexesCleaned
  <1>1. ASSUME NEW w \in Workers, BeginLock(w) PROVE P'
    BY <1>1 DEF BeginLock
  <1>2. ASSUME NEW w \in Workers, ReadEntry(w) PROVE P'
    BY <1>2 DEF ReadEntry
  <1>3. ASSUME NEW w \in Workers, Accept(w) PROVE P'
    BY <1>3 DEF Accept
  <1>4. ASSUME NEW w \in Workers, Refuse(w) PROVE P'
    BY <1>4 DEF Refuse, Return
  <1>5. ASSUME NEW w \in Workers, CloneMutex(w) PROVE P'
    <2>1. mutexes' # 0 /\ mutex'[w] = mutexes'
      BY <1>5, NewMutexFresh DEF CloneMutex
    <2>2. \A v \in Workers : v # w => mutex'[v] = mutex[v] /\ pc'[v] = pc[v]
      BY <1>5 DEF CloneMutex
    <2>3. pc'[w] = "wait"
      BY <1>5 DEF CloneMutex
    <2>4. \A v \in Workers : mutex[v] # 0 => mutex[v] = mutexes'
      BY <1>5 DEF CloneMutex
    <2> QED BY <2>1, <2>2, <2>3, <2>4
  <1>6. ASSUME NEW w \in Workers, Compare(w) PROVE P'
    <2>1. \A v \in Workers : pc[v] # "compared"
      BY <1>6 DEF Compare
    <2> QED BY <1>6, <2>1 DEF Compare
  <1>7. ASSUME NEW w \in Workers, Set(w) PROVE P'
    BY <1>7 DEF Set
  <1>8. ASSUME NEW w \in Workers, CleanMutex(w) PROVE P'
    <2>1. mutex'[w] = 0 /\ pc'[w] = "idle"
      BY <1>8 DEF CleanMutex, Return
    <2>2. \A v \in Workers : v # w => mutex'[v] = mutex[v] /\ pc'[v] = pc[v]
      BY <1>8 DEF CleanMutex, Return
    <2>3. mutexes' = 0 \/ mutexes' = mutexes
      BY <1>8 DEF CleanMutex
    <2>4. mutexes' = 0 <=> LastClone(w) \/ mutexes = 0
      BY <1>8 DEF CleanMutex
    <2>5. LastClone(w) => \A v \in Workers : v # w => mutex[v] = 0
      BY DEF LastClone
    <2>6. ~LastClone(w) => \E v \in Workers : v # w /\ mutex[v] = mutexes
      BY DEF LastClone
    <2> QED BY <2>1, <2>2, <2>3, <2>4, <2>5, <2>6
  <1>9. ASSUME NEW w \in Workers, DropGuard(w) PROVE P'
    BY <1>9 DEF DropGuard
  <1>10. ASSUME NEW w \in Workers, Forget(w) PROVE P'
    BY <1>10 DEF Forget
  <1>11. ASSUME Advance PROVE P'
    BY <1>11 DEF Advance, local
  <1>12. ASSUME Restart PROVE P'
    BY <1>12 DEF Restart, ProcessEnds
  <1>13. ASSUME UNCHANGED vars PROVE P'
    BY <1>13 DEF vars, local
  <1> QED
    BY <1>1, <1>2, <1>3, <1>4, <1>5, <1>6, <1>7, <1>8, <1>9, <1>10, <1>11,
       <1>12, <1>13 DEF Next, Step

(* Every step keeps the lock with one guard, as long as no guard outlives  *)
(* its deadline.                                                           *)
LEMMA NextGuard ==
  ASSUME IInv, [Next]_vars, TypeOK' PROVE GuardExclusive' /\ GuardInv'
  <1> DEFINE P == GuardExclusive /\ GuardInv
  <1>0. TypeOK /\ CompareExclusive /\ GuardExclusive /\ GuardInv
    BY DEF IInv
  <1> USE <1>0, MarksAreNoDeadlines DEF Holders, FreeEntry
  <1>t. ASSUME UNCHANGED <<now, block>> PROVE \A d : Expired(d)' <=> Expired(d)
    BY <1>t DEF Expired, Passed
  <1>1. ASSUME NEW w \in Workers, BeginLock(w) PROVE P'
    <2>1. deadline'[w] \in Deadlines
      BY <1>1, DeadlineType DEF BeginLock, TypeOK
    <2>2. \A v \in Workers : v # w => pc'[v] = pc[v] /\ deadline'[v] = deadline[v]
      BY <1>1 DEF BeginLock, TypeOK
    <2>3. pc'[w] = "read"
      BY <1>1 DEF BeginLock, TypeOK
    <2>4. UNCHANGED <<now, block, cell, seen, isSet, held, overrun>>
      BY <1>1, SMTT(30) DEF BeginLock
    <2> QED BY <1>t, <2>1, <2>2, <2>3, <2>4 DEF GuardExclusive, GuardInv
  <1>2. ASSUME NEW w \in Workers, ReadEntry(w) PROVE P'
    <2>1. \A v \in Workers : v # w => pc'[v] = pc[v] /\ seen'[v] = seen[v]
      BY <1>2 DEF ReadEntry, TypeOK
    <2>2. pc'[w] = "decide" /\ (held[w] = None => pc[w] = "read")
      BY <1>2 DEF ReadEntry, TypeOK
    <2>3. UNCHANGED <<now, block, cell, deadline, isSet, held, overrun>>
      BY <1>2 DEF ReadEntry
    <2> QED BY <1>t, <2>1, <2>2, <2>3 DEF GuardExclusive, GuardInv
  <1>3. ASSUME NEW w \in Workers, Accept(w) PROVE P'
    <2>1. \A v \in Workers : v # w => pc'[v] = pc[v] /\ deadline'[v] = deadline[v]
      BY <1>3 DEF Accept, TypeOK
    <2>2. pc'[w] = "cas"
      BY <1>3 DEF Accept, TypeOK
    <2>3. deadline'[w] \in Deadlines
      BY <1>3, DeadlineType DEF Accept, TypeOK, GuardInv
    <2>4. held[w] = None => FreeEntry(seen[w])
      BY <1>3, PassedExpired DEF Accept, MayLock, TypeOK
    <2>5. UNCHANGED <<now, block, cell, seen, isSet, held, overrun>>
      BY <1>3 DEF Accept
    <2> QED BY <1>t, <2>1, <2>2, <2>3, <2>4, <2>5 DEF GuardExclusive, GuardInv
  <1>4. ASSUME NEW w \in Workers, Refuse(w) PROVE P'
    <2>1. \A v \in Workers : v # w =>
            /\ pc'[v] = pc[v] /\ deadline'[v] = deadline[v]
            /\ seen'[v] = seen[v] /\ isSet'[v] = isSet[v]
      BY <1>4 DEF Refuse, Return, TypeOK
    <2>2. pc'[w] = "idle"
      BY <1>4 DEF Refuse, Return, TypeOK
    <2>3. UNCHANGED <<now, block, cell, held, overrun>>
      BY <1>4 DEF Refuse
    <2> QED BY <1>t, <2>1, <2>2, <2>3 DEF GuardExclusive, GuardInv
  <1>5. ASSUME NEW w \in Workers, CloneMutex(w) PROVE P'
    <2>1. \A v \in Workers : v # w => pc'[v] = pc[v]
      BY <1>5 DEF CloneMutex, TypeOK
    <2>2. pc[w] = "cas" /\ pc'[w] = "wait"
      BY <1>5 DEF CloneMutex, TypeOK
    <2>3. UNCHANGED <<now, block, cell, deadline, seen, isSet, held, overrun>>
      BY <1>5 DEF CloneMutex
    <2> QED BY <1>t, <2>1, <2>2, <2>3 DEF GuardExclusive, GuardInv
  <1>6. ASSUME NEW w \in Workers, Compare(w) PROVE P'
    <2>1. \A v \in Workers : v # w => pc'[v] = pc[v] /\ isSet'[v] = isSet[v]
      BY <1>6 DEF Compare, TypeOK
    <2>2. pc[w] = "wait" /\ pc'[w] = "compared" /\ (isSet'[w] <=> cell = seen[w])
      BY <1>6, Zenon DEF Compare, TypeOK
    <2>3. UNCHANGED <<now, block, cell, deadline, seen, held, overrun>>
      BY <1>6 DEF Compare
    <2>4. ASSUME ~overrun, cell = seen[w], held[w] = None
          PROVE  Holders = {} /\ FreeEntry(cell)
      <3>1. FreeEntry(cell)
        BY <2>2, <2>4 DEF GuardInv
      <3>2. \A v \in Holders : cell = held[v] /\ ~Expired(held[v]) /\ held[v] \in Deadlines
        BY <2>4 DEF GuardInv, GuardExclusive, TypeOK
      <3> QED BY <3>1, <3>2
    <2> QED BY <1>t, <2>1, <2>2, <2>3, <2>4 DEF GuardExclusive, GuardInv
  <1>7. ASSUME NEW w \in Workers, Set(w) PROVE P'
    <2>1. \A v \in Workers : v # w => pc'[v] = pc[v] /\ pc[v] # "compared"
      BY <1>7 DEF Set, TypeOK, CompareExclusive
    <2>2. pc[w] = "compared" /\ pc'[w] = "clean"
      BY <1>7 DEF Set, TypeOK
    <2>3. UNCHANGED <<now, block, deadline, seen, isSet>>
      BY <1>7 DEF Set
    <2>4. CASE ~isSet[w]
      <3>1. UNCHANGED <<cell, held, overrun>>
        BY <1>7, <2>4 DEF Set
      <3> QED BY <1>t, <2>1, <2>2, <2>3, <3>1, SMTT(30) DEF GuardExclusive, GuardInv
    <2>5. CASE isSet[w]
      <3>1. /\ cell' = deadline[w] /\ deadline[w] \in Deadlines /\ held'[w] = deadline[w]
            /\ \A v \in Workers : v # w => held'[v] = held[v]
        BY <1>7, <2>5, <2>2 DEF Set, TypeOK, GuardInv
      <3>2. ~overrun' => ~overrun /\ ~Expired(deadline[w])
        BY <1>7, <2>5, Zenon DEF Set
      <3>3. ~overrun => \A v \in Workers : v # w => held[v] = None
        BY <2>2, <2>5 DEF GuardInv, GuardExclusive
      <3>4. GuardExclusive'
        BY <3>1, <3>2, <3>3 DEF GuardExclusive
      <3>5. GuardInv'
        BY <1>t, <2>1, <2>2, <2>3, <3>1, <3>2, <3>3 DEF GuardInv
      <3> QED BY <3>4, <3>5
    <2> QED BY <2>4, <2>5
  <1>8. ASSUME NEW w \in Workers, CleanMutex(w) PROVE P'
    <2>1. \A v \in Workers : v # w =>
            /\ pc'[v] = pc[v] /\ deadline'[v] = deadline[v]
            /\ seen'[v] = seen[v] /\ isSet'[v] = isSet[v]
      BY <1>8 DEF CleanMutex, Return, TypeOK
    <2>2. pc'[w] = "idle"
      BY <1>8 DEF CleanMutex, Return, TypeOK
    <2>3. UNCHANGED <<now, block, cell, held, overrun>>
      BY <1>8 DEF CleanMutex
    <2> QED BY <1>t, <2>1, <2>2, <2>3 DEF GuardExclusive, GuardInv
  <1>9. ASSUME NEW w \in Workers, DropGuard(w) PROVE P'
    <2>1. \A v \in Workers : v # w => held'[v] = held[v]
      BY <1>9 DEF DropGuard, TypeOK
    <2>2. pc[w] = "idle" /\ held[w] # None /\ held'[w] = None /\ cell' = None
      BY <1>9 DEF DropGuard, TypeOK
    <2>3. UNCHANGED <<now, block, pc, deadline, seen, isSet, overrun>>
      BY <1>9 DEF DropGuard
    <2>4. ~overrun => Holders' = {}
      BY <2>1, <2>2 DEF GuardExclusive
    <2> QED BY <1>t, <2>1, <2>2, <2>3, <2>4 DEF GuardExclusive, GuardInv
  <1>10. ASSUME NEW w \in Workers, Forget(w) PROVE P'
    <2>1. \A v \in Workers : v # w => held'[v] = held[v]
      BY <1>10 DEF Forget, TypeOK
    <2>2. pc[w] = "idle" /\ held'[w] = None
      BY <1>10 DEF Forget, TypeOK
    <2>3. UNCHANGED <<now, block, cell, pc, deadline, seen, isSet, overrun>>
      BY <1>10, SMTT(30) DEF Forget
    <2> QED BY <1>t, <2>1, <2>2, <2>3 DEF GuardExclusive, GuardInv
  <1>11. ASSUME Advance PROVE P'
    <2>1. now' \in Nat /\ block' \in Nat /\ now' >= now /\ block' >= block
      BY <1>11 DEF Advance, TypeOK
    <2>2. UNCHANGED <<cell, pc, deadline, seen, isSet, held>>
      BY <1>11 DEF Advance, local
    <2>3. ~overrun' => ~overrun /\ \A w \in Holders : ~Passed(held[w], now', block')
      BY <1>11, Zenon DEF Advance
    <2>4. ~overrun' => \A w \in Holders' : ~Expired(held[w])'
      BY <2>2, <2>3 DEF Expired
    <2>5. \A d \in Deadlines \cup {None, Garbage} : FreeEntry(d) => FreeEntry(d)'
      BY <2>1, ExpiryStable
    <2>6. \A w \in Workers : FreeEntry(seen[w]) => FreeEntry(seen[w])'
      BY <2>2, <2>5 DEF TypeOK
    <2>7. FreeEntry(cell) => FreeEntry(cell)'
      BY <2>2, <2>5 DEF TypeOK
    <2> HIDE DEF FreeEntry
    <2> QED BY <2>2, <2>3, <2>4, <2>6, <2>7 DEF GuardExclusive, GuardInv
  <1>12. ASSUME Restart PROVE P'
    <2>1. \A w \in Workers : pc'[w] = "idle" /\ held'[w] = None
      BY <1>12 DEF Restart, ProcessEnds
    <2> QED BY <2>1 DEF GuardExclusive, GuardInv
  <1>13. ASSUME UNCHANGED vars PROVE P'
    BY <1>13, <1>t, Zenon DEF vars, local, GuardExclusive, GuardInv
  <1> QED
    BY <1>1, <1>2, <1>3, <1>4, <1>5, <1>6, <1>7, <1>8, <1>9, <1>10, <1>11,
       <1>12, <1>13 DEF Next, Step

-----------------------------------------------------------------------------
(* The inductive invariant holds throughout. *)
THEOREM Invariance == Spec => []IInv
  <1>1. Init => IInv
    BY InitInv
  <1>2. IInv /\ [Next]_vars => IInv'
    <2> SUFFICES ASSUME IInv, [Next]_vars PROVE IInv'
      OBVIOUS
    <2> QED BY NextType, NextMutex, NextGuard DEF IInv
  <1> QED BY <1>1, <1>2, PTL DEF Spec

(* compare_and_set is exclusive per key, however many workers call it:     *)
(* removing the mutex from the map after each call loses nothing.          *)
THEOREM CompareIsExclusive == Spec => []CompareExclusive
  <1>1. IInv => CompareExclusive
    BY DEF IInv
  <1> QED BY <1>1, Invariance, PTL

(* compare_and_set leaves no mutex behind in the map once the calls that   *)
(* use it have returned, a restart of the node included.                   *)
THEOREM MapIsCleaned == Spec => []MutexesCleaned
  <1>1. IInv => MutexesCleaned
    BY DEF IInv
  <1> QED BY <1>1, Invariance, PTL

(* Two workers never own a guard at once unless one of them kept it past   *)
(* its deadline.                                                           *)
THEOREM GuardIsExclusive == Spec => []GuardExclusive
  <1>1. IInv => GuardExclusive
    BY DEF IInv
  <1> QED BY <1>1, Invariance, PTL

(* While every guard is given up in time, an active lock is only ever      *)
(* changed when a worker owns it: one that was or whose worker  *)
(* crashed, lasts until it expires.                                        *)
THEOREM ActiveLockIsKept == Spec => ActiveLockKept
  <1> DEFINE K == ~overrun /\ cell \in Deadlines /\ ~Expired(cell) /\ cell' # cell
                    => \E w \in Workers : held[w] = cell
  <1>1. ASSUME IInv, [Next]_vars PROVE K
    <2> SUFFICES ASSUME ~overrun, cell \in Deadlines, ~Expired(cell), cell' # cell
                 PROVE  \E w \in Workers : held[w] = cell
      OBVIOUS
    <2>1. ASSUME NEW w \in Workers, Set(w) PROVE held[w] = cell
      <3>1. isSet[w] /\ pc[w] = "compared"
        BY <2>1 DEF Set
      <3>2. held[w] # None
        BY <1>1, <3>1, MarksAreNoDeadlines, SMTT(30) DEF IInv, GuardInv, FreeEntry
      <3> QED BY <1>1, <3>2 DEF IInv, GuardExclusive, Holders
    <2>2. ASSUME NEW w \in Workers, DropGuard(w) PROVE held[w] = cell
      BY <1>1, <2>2 DEF DropGuard, IInv, GuardExclusive, Holders
    <2>3. \E w \in Workers : Set(w) \/ DropGuard(w)
      BY <1>1 DEF Next, Step, BeginLock, ReadEntry, Accept, Refuse, CloneMutex, Compare,
             CleanMutex, Forget, Advance, Restart, vars
    <2> QED BY <2>1, <2>2, <2>3
  <1>2. ASSUME IInv, [Next]_vars PROVE [K]_vars
    BY <1>1, <1>2
  <1> QED BY <1>2, Invariance, PTL DEF Spec, ActiveLockKept

=============================================================================
