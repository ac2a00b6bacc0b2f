---------------------------- MODULE FrameStorage ----------------------------
(***************************************************************************)
(* The storage vocabulary of FRAME that the pallets are written in:        *)
(* StorageMap values are functions on the keys that are present, and a     *)
(* Vec or BoundedVec is a sequence.                                        *)
(***************************************************************************)
EXTENDS Integers, Sequences, FiniteSets

\* StorageMap::insert: the key is present afterwards, whatever it held before.
Insert(map, key, value) ==
    [k \in DOMAIN map \cup {key} |-> IF k = key THEN value ELSE map[k]]

\* Mutant of RemoveKey: the removal is forgotten.
KeepKey(map, key) == map

\* StorageMap::remove and take: removing an absent key changes nothing.
RemoveKey(map, key) == [k \in DOMAIN map \ {key} |-> map[k]]

\* The elements of a Vec.
Elements(vec) == {vec[i] : i \in DOMAIN vec}

\* The accounts of a vector of (account, power) pairs, the identifiers of one of messages.
Firsts(pairs) == [i \in DOMAIN pairs |-> pairs[i][1]]

\* No element is in the vector twice.
NoRepeat(vec) == \A i, j \in DOMAIN vec : vec[i] = vec[j] => i = j

\* slice::contains
Has(vec, x) == x \in Elements(vec)

\* iter().position(..): the first index that holds x, if one does.
Position(vec, x) ==
    CHOOSE i \in DOMAIN vec : vec[i] = x /\ \A j \in DOMAIN vec : vec[j] = x => i <= j

\* Vec::swap_remove: the last element takes the place of the removed one.
SwapRemove(vec, i) ==
    [j \in 1 .. Len(vec) - 1 |-> IF j = i THEN vec[Len(vec)] ELSE vec[j]]

\* "if let Some(pos) = position(..) { swap_remove(pos) }"
SwapRemoveFirst(vec, x) ==
    IF Has(vec, x) THEN SwapRemove(vec, Position(vec, x)) ELSE vec

\* Mutant of CanPush: one element too many.
CanPushAtBound(vec, bound) == Len(vec) <= bound

\* BoundedVec::try_push succeeds only below the bound.
CanPush(vec, bound) == Len(vec) < bound

\* What try_push leaves in storage, in the successful and in the refused case.
TryPush(vec, x, bound) == IF CanPush(vec, bound) THEN Append(vec, x) ELSE vec

\* Vec::retain: the elements in keep stay, in their order.
Retain(vec, keep) ==
    LET kept[i \in 0 .. Len(vec)] ==
          IF i = 0 THEN <<>>
          ELSE IF vec[i] \in keep THEN Append(kept[i - 1], vec[i]) ELSE kept[i - 1]
    IN  kept[Len(vec)]

\* Vectors of accounts, which are numbers, in the order of Ord
SortedVec(vec) == \A i, j \in DOMAIN vec : i < j => vec[i] <= vec[j]

CountBelow(vec, x) == Cardinality({i \in DOMAIN vec : vec[i] < x})
CountUpTo(vec, x) == Cardinality({i \in DOMAIN vec : vec[i] <= x})

\* slice::sort: position k has the element that fewer than k others are below.
Sort(vec) ==
    [k \in DOMAIN vec |->
        CHOOSE x \in Elements(vec) : CountBelow(vec, x) < k /\ k <= CountUpTo(vec, x)]

Occurrences(vec, x) == Cardinality({i \in DOMAIN vec : vec[i] = x})

\* What vec has more often than other.
Excess(vec, other) ==
    {x \in Elements(vec) : Occurrences(vec, x) > Occurrences(other, x)}
=============================================================================
