-------------------------- MODULE MembersDiffProofs --------------------------
(***************************************************************************)
(* Proofs about compute_members_diff_sorted, for vectors of any length.    *)
(***************************************************************************)
EXTENDS MembersDiff, VecFacts

\* An element is at some index, and of the type of the vector.
LEMMA VecElements ==
    ASSUME NEW S, NEW vec \in Seq(S)
    PROVE  /\ \A x \in Elements(vec) : \E i \in 1 .. Len(vec) : x = vec[i]
           /\ \A i \in 1 .. Len(vec) : vec[i] \in S
BY DEF Elements

\* An empty vector has no element.
LEMMA EmptyElements == Elements(<<>>) = {}
BY DEF Elements

\* What the loop reads and writes has its type.
THEOREM TypeCorrect == Spec => []TypeOK
<1>1. Init => TypeOK
  BY VectorsAssumption DEF Init, TypeOK
<1>2. TypeOK /\ [Next]_vars => TypeOK'
  <2> SUFFICES ASSUME TypeOK, [Next]_vars PROVE TypeOK'
    OBVIOUS
  <2>1. CASE Same
    BY <2>1 DEF Same, TypeOK, args, SomeOld, SomeNew
  <2>2. CASE Outgo
    BY <2>2 DEF Outgo, OldGoes, TypeOK, args, SomeOld
  <2>3. CASE Income
    BY <2>3 DEF Income, TypeOK, args, SomeNew
  <2>4. CASE UNCHANGED vars
    BY <2>4 DEF vars, TypeOK
  <2> QED BY <2>1, <2>2, <2>3, <2>4 DEF Next
<1> QED BY <1>1, <1>2, PTL DEF Spec

\* Every member the loop has passed is accounted for.
Passed ==
    /\ \A i \in 1 .. Len(old_members) :
         i < o => old_members[i] \in Elements(new_members) \cup Elements(outgoing)
    /\ \A j \in 1 .. Len(new_members) :
         j < n => new_members[j] \in Elements(old_members) \cup Elements(incoming)

\* No member who is gone from the new vector is missing from outgoing, and no new one
\* from incoming, even when a vector is not sorted.
THEOREM DiffComplete == Spec => []NoneForgotten
<1>1. Init => Passed
  BY VectorsAssumption DEF Init, Passed
<1>2. TypeOK /\ Passed /\ [Next]_vars => Passed'
  <2> SUFFICES ASSUME TypeOK, Passed, [Next]_vars PROVE Passed'
    OBVIOUS
  <2>1. CASE Same
    <3>1. /\ old_members[o] \in Elements(new_members)
          /\ new_members[n] \in Elements(old_members)
      BY <2>1 DEF Same, Elements, TypeOK, SomeOld, SomeNew
    <3> QED BY <2>1, <3>1 DEF Same, Passed, args, TypeOK, SomeOld, SomeNew
  <2>2. CASE Outgo
    <3>1. Elements(outgoing') = Elements(outgoing) \cup {old_members[o]}
      BY <2>2, AppendFacts DEF Outgo, OldGoes, SomeOld, TypeOK
    <3> QED BY <2>2, <3>1 DEF Outgo, Passed, args, TypeOK
  <2>3. CASE Income
    <3>1. Elements(incoming') = Elements(incoming) \cup {new_members[n]}
      BY <2>3, AppendFacts DEF Income, SomeNew, TypeOK
    <3> QED BY <2>3, <3>1 DEF Income, Passed, args, TypeOK
  <2>4. CASE UNCHANGED vars
    BY <2>4 DEF vars, Passed
  <2> QED BY <2>1, <2>2, <2>3, <2>4 DEF Next
<1>3. TypeOK /\ Passed => NoneForgotten
  <2> SUFFICES ASSUME TypeOK, Passed, Done PROVE NoneForgotten
    BY DEF NoneForgotten
  <2>1. o > Len(old_members) /\ n > Len(new_members)
    BY DEF Done, SomeOld, SomeNew, TypeOK
  <2>2. \A i \in 1 .. Len(old_members) :
          old_members[i] \in Elements(new_members) \cup Elements(outgoing)
    BY <2>1 DEF Passed, TypeOK
  <2>3. \A j \in 1 .. Len(new_members) :
          new_members[j] \in Elements(old_members) \cup Elements(incoming)
    BY <2>1 DEF Passed, TypeOK
  <2>4. /\ \A x \in Elements(old_members) :
             \E i \in 1 .. Len(old_members) : x = old_members[i]
        /\ \A x \in Elements(new_members) :
             \E j \in 1 .. Len(new_members) : x = new_members[j]
    BY VecElements DEF TypeOK
  <2> QED BY <2>2, <2>3, <2>4 DEF NoneForgotten
<1> QED BY <1>1, <1>2, <1>3, TypeCorrect, PTL DEF Spec

\* The merge invariant: everything passed on one side is below everything still to
\* come on the other, and what is outgoing is nowhere among the new members.
Merged ==
    Strict(old_members) /\ Strict(new_members) =>
      /\ \A i \in 1 .. Len(old_members), j \in 1 .. Len(new_members) :
           /\ i < o /\ n <= j => old_members[i] < new_members[j]
           /\ o <= i /\ j < n => new_members[j] < old_members[i]
      /\ \A x \in Elements(outgoing), j \in 1 .. Len(new_members) : x # new_members[j]

\* A member of both vectors is never outgoing when both are strictly sorted.
THEOREM DiffExact == Spec => []StayingKept
<1>1. Init => Merged
  BY VectorsAssumption, EmptyElements DEF Init, Merged
<1>2. TypeOK /\ Merged /\ [Next]_vars => Merged'
  <2> SUFFICES ASSUME TypeOK, Merged, [Next]_vars,
                      Strict(old_members), Strict(new_members),
                      UNCHANGED <<old_members, new_members>>
               PROVE  Merged'
    BY DEF Merged, Next, Same, Outgo, Income, args, vars
  <2> DEFINE old == old_members
             new == new_members
  <2>1. /\ \A i \in 1 .. Len(old) : old[i] \in Int
        /\ \A j \in 1 .. Len(new) : new[j] \in Int
        /\ \A i, k \in 1 .. Len(old) : i < k => old[i] < old[k]
        /\ \A j, k \in 1 .. Len(new) : j < k => new[j] < new[k]
    <3>1. /\ \A i \in 1 .. Len(old) : old[i] \in Int
          /\ \A j \in 1 .. Len(new) : new[j] \in Int
      BY VectorsAssumption, VecElements, Zenon DEF TypeOK
    <3>2. DOMAIN old = 1 .. Len(old) /\ DOMAIN new = 1 .. Len(new)
      BY DEF TypeOK
    <3> QED BY <3>1, <3>2, Zenon DEF Strict
  <2>2. CASE Same
    <3>1. /\ o \in 1 .. Len(old) /\ n \in 1 .. Len(new) /\ old[o] = new[n]
          /\ o' = o + 1 /\ n' = n + 1 /\ outgoing' = outgoing
      BY <2>2 DEF Same, SomeOld, SomeNew, TypeOK
    <3>2. ASSUME NEW i \in 1 .. Len(old), NEW j \in 1 .. Len(new)
          PROVE  /\ i < o' /\ n' <= j => old[i] < new[j]
                 /\ o' <= i /\ j < n' => new[j] < old[i]
      <4>1. CASE i = o
        BY <2>1, <3>1, <4>1
      <4>2. CASE j = n
        BY <2>1, <3>1, <4>2
      <4>3. CASE i # o /\ j # n
        BY <2>1, <3>1, <4>3 DEF Merged
      <4> QED BY <4>1, <4>2, <4>3
    <3> QED BY <3>1, <3>2 DEF Merged
  <2>3. CASE Outgo
    <3>1. /\ o \in 1 .. Len(old) /\ n \in Nat /\ o' = o + 1 /\ n' = n
          /\ n <= Len(new) => old[o] < new[n]
      BY <2>3 DEF Outgo, OldGoes, SomeOld, SomeNew, TypeOK
    <3>2. \A j \in 1 .. Len(new) : n <= j => old[o] < new[j]
      <4> SUFFICES ASSUME NEW j \in 1 .. Len(new), n <= j PROVE old[o] < new[j]
        OBVIOUS
      <4>1. n \in 1 .. Len(new)
        BY DEF TypeOK
      <4>2. old[o] < new[n] /\ (n = j \/ new[n] < new[j])
        BY <2>1, <3>1, <4>1
      <4> QED BY <2>1, <3>1, <4>1, <4>2
    <3>3. \A j \in 1 .. Len(new) : j < n => new[j] < old[o]
      BY <3>1 DEF Merged
    <3>4. \A j \in 1 .. Len(new) : old[o] # new[j]
      BY <2>1, <3>1, <3>2, <3>3
    <3>5. Elements(outgoing') = Elements(outgoing) \cup {old[o]}
      BY <2>3, <3>1, AppendFacts DEF Outgo, TypeOK
    <3>6. \A x \in Elements(outgoing'), j \in 1 .. Len(new) : x # new[j]
      BY <3>4, <3>5 DEF Merged
    <3>7. ASSUME NEW i \in 1 .. Len(old), NEW j \in 1 .. Len(new)
          PROVE  /\ i < o' /\ n' <= j => old[i] < new[j]
                 /\ o' <= i /\ j < n' => new[j] < old[i]
      BY <3>1, <3>2, <3>7 DEF Merged
    <3> QED BY <3>6, <3>7 DEF Merged
  <2>4. CASE Income
    <3>1. /\ n \in 1 .. Len(new) /\ o \in Nat /\ n' = n + 1 /\ o' = o /\ outgoing' = outgoing
      BY <2>4 DEF Income, SomeNew, TypeOK
    <3>2. o <= Len(old) => new[n] < old[o]
      <4>1. o <= Len(old) => old[o] # new[n] /\ ~(old[o] < new[n]) /\ o \in 1 .. Len(old)
        BY <2>4 DEF Income, OldGoes, SomeOld, SomeNew, TypeOK
      <4> QED BY <2>1, <3>1, <4>1
    <3>3. \A i \in 1 .. Len(old) : o <= i => new[n] < old[i]
      <4> SUFFICES ASSUME NEW i \in 1 .. Len(old), o <= i PROVE new[n] < old[i]
        OBVIOUS
      <4>1. o \in 1 .. Len(old)
        BY DEF TypeOK
      <4>2. new[n] < old[o] /\ (o = i \/ old[o] < old[i])
        BY <2>1, <3>1, <3>2, <4>1
      <4> QED BY <2>1, <3>1, <4>1, <4>2
    <3>4. ASSUME NEW i \in 1 .. Len(old), NEW j \in 1 .. Len(new)
          PROVE  /\ i < o' /\ n' <= j => old[i] < new[j]
                 /\ o' <= i /\ j < n' => new[j] < old[i]
      BY <3>1, <3>3, <3>4 DEF Merged
    <3> QED BY <3>1, <3>4 DEF Merged
  <2>5. CASE UNCHANGED vars
    BY <2>5 DEF vars, Merged
  <2> QED BY <2>2, <2>3, <2>4, <2>5 DEF Next
<1>3. TypeOK /\ Merged => StayingKept
  <2>1. TypeOK => \A x \in Elements(new_members) :
                    \E j \in 1 .. Len(new_members) : x = new_members[j]
    BY VecElements DEF TypeOK
  <2> QED BY <2>1 DEF Merged, StayingKept
<1> QED BY <1>1, <1>2, <1>3, TypeCorrect, PTL DEF Spec

-----------------------------------------------------------------------------
\* What is outgoing has been passed more often among the old members than among the
\* new ones and comes up no more among these; what is incoming, the other way round.
Balanced ==
    /\ SortedVec(old_members) /\ SortedVec(new_members)
    /\ \A x : /\ x \in Elements(outgoing) <=>
                   CountIn(old_members, o - 1, x) > CountIn(new_members, n - 1, x)
              /\ x \in Elements(incoming) <=>
                   CountIn(new_members, n - 1, x) > CountIn(old_members, o - 1, x)
    /\ \A x \in Elements(outgoing), j \in 1 .. Len(new_members) : n <= j => x < new_members[j]
    /\ \A x \in Elements(incoming), i \in 1 .. Len(old_members) : o <= i => x < old_members[i]

\* The counts of the next elements, one side at a time.
LEMMA CountStep ==
    ASSUME NEW S, NEW vec \in Seq(S), NEW k \in 1 .. Len(vec), NEW x
    PROVE  /\ CountIn(vec, (k + 1) - 1, x) = CountIn(vec, k - 1, x) + (IF vec[k] = x THEN 1 ELSE 0)
           /\ CountIn(vec, k - 1, x) \in Nat
<1>1. (k + 1) - 1 = k /\ k - 1 \in 0 .. Len(vec)
  OBVIOUS
<1>2. /\ vec[k] = x => CountIn(vec, k, x) = CountIn(vec, k - 1, x) + 1
      /\ vec[k] # x => CountIn(vec, k, x) = CountIn(vec, k - 1, x)
  BY CountInFacts, Zenon
<1>3. CountIn(vec, k - 1, x) \in Nat
  BY <1>1, CountInFacts, Zenon
<1> QED BY <1>1, <1>2, <1>3

\* The counts are numbers all along.
LEMMA CountTypes ==
    ASSUME TypeOK, NEW x
    PROVE  CountIn(old_members, o - 1, x) \in Nat /\ CountIn(new_members, n - 1, x) \in Nat
<1>1. /\ old_members \in Seq(Accounts) /\ new_members \in Seq(Accounts)
      /\ o - 1 \in 0 .. Len(old_members) /\ n - 1 \in 0 .. Len(new_members)
  BY DEF TypeOK
<1> QED BY <1>1, CountInFacts

\* Each arm of the match keeps the counts and the two results in balance.
LEMMA BalanceKept ==
    ASSUME TypeOK, Balanced, [Next]_vars
    PROVE  Balanced'
<1> DEFINE old == old_members
           new == new_members
<1>1. UNCHANGED <<old_members, new_members>>
  BY DEF Next, Same, Outgo, Income, args, vars
<1>2. old \in Seq(Accounts) /\ new \in Seq(Accounts) /\ SortedVec(old) /\ SortedVec(new)
  BY DEF TypeOK, Balanced
<1>3. /\ \A i \in 1 .. Len(old) : old[i] \in Int
      /\ \A j \in 1 .. Len(new) : new[j] \in Int
      /\ \A i, k \in 1 .. Len(old) : i <= k => old[i] <= old[k]
      /\ \A j, k \in 1 .. Len(new) : j <= k => new[j] <= new[k]
  <2>1. /\ \A i \in 1 .. Len(old) : old[i] \in Int
        /\ \A j \in 1 .. Len(new) : new[j] \in Int
    BY <1>2, VectorsAssumption, VecElements, Zenon
  <2>2. DOMAIN old = 1 .. Len(old) /\ DOMAIN new = 1 .. Len(new)
    BY <1>2
  <2>3. /\ \A i, k \in 1 .. Len(old) : i < k => old[i] <= old[k]
        /\ \A j, k \in 1 .. Len(new) : j < k => new[j] <= new[k]
    BY <1>2, <2>2, Zenon DEF SortedVec
  <2> QED BY <2>1, <2>3
<1>4. CASE Same
  <2>1. /\ o \in 1 .. Len(old) /\ n \in 1 .. Len(new) /\ old[o] = new[n]
        /\ o' = o + 1 /\ n' = n + 1 /\ outgoing' = outgoing /\ incoming' = incoming
    BY <1>4 DEF Same, SomeOld, SomeNew, TypeOK
  <2>2. ASSUME NEW x
        PROVE  /\ x \in Elements(outgoing) <=> CountIn(old, o' - 1, x) > CountIn(new, n' - 1, x)
               /\ x \in Elements(incoming) <=> CountIn(new, n' - 1, x) > CountIn(old, o' - 1, x)
    <3>1. /\ CountIn(old, o' - 1, x) = CountIn(old, o - 1, x) + (IF old[o] = x THEN 1 ELSE 0)
          /\ CountIn(old, o - 1, x) \in Nat
      BY <1>2, <2>1, CountStep
    <3>2. /\ CountIn(new, n' - 1, x) = CountIn(new, n - 1, x) + (IF new[n] = x THEN 1 ELSE 0)
          /\ CountIn(new, n - 1, x) \in Nat
      BY <1>2, <2>1, CountStep
    <3>3. /\ x \in Elements(outgoing) <=> CountIn(old, o - 1, x) > CountIn(new, n - 1, x)
          /\ x \in Elements(incoming) <=> CountIn(new, n - 1, x) > CountIn(old, o - 1, x)
      BY Zenon DEF Balanced
    <3> QED BY <2>1, <3>1, <3>2, <3>3
  <2>3. /\ \A x \in Elements(outgoing), j \in 1 .. Len(new) : n' <= j => x < new[j]
        /\ \A x \in Elements(incoming), i \in 1 .. Len(old) : o' <= i => x < old[i]
    <3>1. \A k \in Nat : (n' <= k => n <= k) /\ (o' <= k => o <= k)
      BY <2>1
    <3> QED BY <3>1 DEF Balanced
  <2> QED BY <1>1, <1>2, <2>1, <2>2, <2>3, Zenon DEF Balanced
<1>5. CASE Outgo
  <2>1. /\ o \in 1 .. Len(old) /\ o' = o + 1 /\ n' = n /\ incoming' = incoming
        /\ n \in Nat /\ n <= Len(new) => old[o] < new[n]
        /\ outgoing' = Append(outgoing, old[o]) /\ outgoing \in Seq(Accounts)
    BY <1>5 DEF Outgo, OldGoes, SomeOld, SomeNew, TypeOK
  <2>2. Elements(outgoing') = Elements(outgoing) \cup {old[o]}
    BY <2>1, AppendFacts
  <2>3. old[o] \notin Elements(incoming)
    <3>1. \A x \in Elements(incoming) : x < old[o]
      BY <2>1 DEF Balanced
    <3> QED BY <1>3, <2>1, <3>1
  <2>4. ASSUME NEW x
        PROVE  /\ x \in Elements(outgoing') <=> CountIn(old, o' - 1, x) > CountIn(new, n - 1, x)
               /\ x \in Elements(incoming) <=> CountIn(new, n - 1, x) > CountIn(old, o' - 1, x)
    <3>1. /\ CountIn(old, o' - 1, x) = CountIn(old, o - 1, x) + (IF old[o] = x THEN 1 ELSE 0)
          /\ CountIn(old, o - 1, x) \in Nat
      BY <1>2, <2>1, CountStep
    <3>2. CountIn(new, n - 1, x) \in Nat
      BY CountTypes
    <3>3. /\ x \in Elements(outgoing) <=> CountIn(old, o - 1, x) > CountIn(new, n - 1, x)
          /\ x \in Elements(incoming) <=> CountIn(new, n - 1, x) > CountIn(old, o - 1, x)
      BY Zenon DEF Balanced
    <3>4. CASE x = old[o]
      BY <2>2, <2>3, <3>1, <3>2, <3>3, <3>4
    <3>5. CASE x # old[o]
      BY <2>2, <3>1, <3>2, <3>3, <3>5
    <3> QED BY <3>4, <3>5
  <2>5. \A j \in 1 .. Len(new) : n <= j => old[o] < new[j]
    <3> SUFFICES ASSUME NEW j \in 1 .. Len(new), n <= j PROVE old[o] < new[j]
      OBVIOUS
    <3>1. n \in 1 .. Len(new)
      BY DEF TypeOK
    <3>2. old[o] < new[n] /\ new[n] <= new[j]
      BY <1>3, <2>1, <3>1
    <3> QED BY <1>3, <2>1, <3>1, <3>2
  <2>6. /\ \A x \in Elements(outgoing'), j \in 1 .. Len(new) : n <= j => x < new[j]
        /\ \A x \in Elements(incoming), i \in 1 .. Len(old) : o' <= i => x < old[i]
    <3>1. \A k \in Nat : o' <= k => o <= k
      BY <2>1
    <3> QED BY <2>2, <2>5, <3>1 DEF Balanced
  <2> QED BY <1>1, <1>2, <2>1, <2>4, <2>6, Zenon DEF Balanced
<1>6. CASE Income
  <2>1. /\ n \in 1 .. Len(new) /\ n' = n + 1 /\ o' = o /\ outgoing' = outgoing /\ o \in Nat
        /\ o \in 1 .. Len(old) => ~(old[o] < new[n]) /\ old[o] # new[n]
        /\ incoming' = Append(incoming, new[n]) /\ incoming \in Seq(Accounts)
    BY <1>6 DEF Income, OldGoes, SomeOld, SomeNew, TypeOK
  <2>2. Elements(incoming') = Elements(incoming) \cup {new[n]}
    BY <2>1, AppendFacts
  <2>3. new[n] \notin Elements(outgoing)
    <3>1. \A x \in Elements(outgoing) : x < new[n]
      BY <2>1 DEF Balanced
    <3> QED BY <1>3, <2>1, <3>1
  <2>4. ASSUME NEW x
        PROVE  /\ x \in Elements(outgoing) <=> CountIn(old, o - 1, x) > CountIn(new, n' - 1, x)
               /\ x \in Elements(incoming') <=> CountIn(new, n' - 1, x) > CountIn(old, o - 1, x)
    <3>1. /\ CountIn(new, n' - 1, x) = CountIn(new, n - 1, x) + (IF new[n] = x THEN 1 ELSE 0)
          /\ CountIn(new, n - 1, x) \in Nat
      BY <1>2, <2>1, CountStep
    <3>2. CountIn(old, o - 1, x) \in Nat
      BY CountTypes
    <3>3. /\ x \in Elements(outgoing) <=> CountIn(old, o - 1, x) > CountIn(new, n - 1, x)
          /\ x \in Elements(incoming) <=> CountIn(new, n - 1, x) > CountIn(old, o - 1, x)
      BY Zenon DEF Balanced
    <3>4. CASE x = new[n]
      BY <2>2, <2>3, <3>1, <3>2, <3>3, <3>4
    <3>5. CASE x # new[n]
      BY <2>2, <3>1, <3>2, <3>3, <3>5
    <3> QED BY <3>4, <3>5
  <2>5. \A i \in 1 .. Len(old) : o <= i => new[n] < old[i]
    <3> SUFFICES ASSUME NEW i \in 1 .. Len(old), o <= i PROVE new[n] < old[i]
      OBVIOUS
    <3>1. o \in 1 .. Len(old)
      BY DEF TypeOK
    <3>2. new[n] < old[o] /\ old[o] <= old[i]
      BY <1>3, <2>1, <3>1
    <3> QED BY <1>3, <2>1, <3>1, <3>2
  <2>6. /\ \A x \in Elements(outgoing), j \in 1 .. Len(new) : n' <= j => x < new[j]
        /\ \A x \in Elements(incoming'), i \in 1 .. Len(old) : o <= i => x < old[i]
    <3>1. \A k \in Nat : n' <= k => n <= k
      BY <2>1
    <3> QED BY <2>2, <2>5, <3>1 DEF Balanced
  <2> QED BY <1>1, <1>2, <2>1, <2>4, <2>6, Zenon DEF Balanced
<1>7. CASE UNCHANGED vars
  BY <1>7, Zenon DEF vars, Balanced
<1> QED BY <1>4, <1>5, <1>6, <1>7 DEF Next

\* On sorted vectors of any length, with duplicates or without, the merge computes what
\* one vector has more often than the other: the closed form set_members is modelled with.
THEOREM DiffIsExcess == Spec => []SortedDiff
<1> DEFINE J == SortedVec(old_members) /\ SortedVec(new_members) => Balanced
<1>1. Init => J
  <2> SUFFICES ASSUME Init, SortedVec(old_members), SortedVec(new_members) PROVE Balanced
    OBVIOUS
  <2>1. /\ old_members \in Seq(Accounts) /\ new_members \in Seq(Accounts)
        /\ o - 1 = 0 /\ n - 1 = 0 /\ Elements(incoming) = {} /\ Elements(outgoing) = {}
    BY VectorsAssumption, EmptyElements DEF Init
  <2>2. \A x : CountIn(old_members, 0, x) = 0 /\ CountIn(new_members, 0, x) = 0
    BY <2>1, CountInFacts
  <2> QED BY <2>1, <2>2 DEF Balanced
<1>2. TypeOK /\ J /\ [Next]_vars => J'
  <2> SUFFICES ASSUME TypeOK, J, [Next]_vars, SortedVec(old_members'), SortedVec(new_members')
               PROVE  Balanced'
    OBVIOUS
  <2>1. UNCHANGED <<old_members, new_members>>
    BY DEF Next, Same, Outgo, Income, args, vars
  <2>2. Balanced
    BY <2>1
  <2> QED BY <2>2, BalanceKept
<1>3. TypeOK /\ J => SortedDiff
  <2> SUFFICES ASSUME TypeOK, Balanced, Done
               PROVE  /\ Elements(outgoing) = Excess(old_members, new_members)
                      /\ Elements(incoming) = Excess(new_members, old_members)
    BY DEF SortedDiff
  <2>1. /\ old_members \in Seq(Accounts) /\ new_members \in Seq(Accounts)
        /\ o - 1 = Len(old_members) /\ n - 1 = Len(new_members)
    BY DEF TypeOK, Done, SomeOld, SomeNew
  <2>2. \A x : /\ CountIn(old_members, o - 1, x) = Occurrences(old_members, x)
               /\ CountIn(new_members, n - 1, x) = Occurrences(new_members, x)
    BY <2>1, CountInFacts
  <2>3. \A x : /\ x \in Elements(outgoing) <=> Occurrences(old_members, x) > Occurrences(new_members, x)
               /\ x \in Elements(incoming) <=> Occurrences(new_members, x) > Occurrences(old_members, x)
    BY <2>2, Zenon DEF Balanced
  <2>4. \A x : /\ Occurrences(old_members, x) \in Nat /\ Occurrences(new_members, x) \in Nat
               /\ x \notin Elements(old_members) => Occurrences(old_members, x) = 0
               /\ x \notin Elements(new_members) => Occurrences(new_members, x) = 0
    BY <2>1, OccurrenceFacts
  <2>5. \A x : /\ Occurrences(old_members, x) > Occurrences(new_members, x) => x \in Elements(old_members)
               /\ Occurrences(new_members, x) > Occurrences(old_members, x) => x \in Elements(new_members)
    BY <2>4
  <2> QED BY <2>3, <2>5, Zenon DEF Excess
<1> QED BY <1>1, <1>2, <1>3, TypeCorrect, PTL DEF Spec
=============================================================================
