------------------------------ MODULE VecFacts ------------------------------
(***************************************************************************)
(* Lemmas about the vector operations of FrameStorage, for vectors of any  *)
(* length.  Retain is a recursive function: what it computes is proved by  *)
(* induction on the length, stated as a fact about a set of numbers.       *)
(***************************************************************************)
EXTENDS FrameStorage, FiniteSetTheorems, TLAPS

\* Induction over the naturals as a fact about a set: a counterexample would have a
\* least one, since < is well-founded on Nat.
LEMMA SetInduction ==
    ASSUME NEW T, 0 \in T, \A k \in Nat : k \in T => k + 1 \in T
    PROVE  Nat \subseteq T
<1> DEFINE left == Nat \ T
<1> SUFFICES ASSUME left # {} PROVE FALSE
  OBVIOUS
<1>1. IsWellFoundedOn(OpToRel(<, Nat), Nat)
  BY NatLessThanWellFounded
<1>2. PICK x \in left : \A y \in left : ~(<<y, x>> \in OpToRel(<, Nat))
  BY <1>1, WFMin, Zenon
<1>3. x \in Nat /\ x # 0
  OBVIOUS
<1>4. x - 1 \in Nat /\ x - 1 < x /\ (x - 1) + 1 = x
  BY <1>3
<1>5. x - 1 \in left
  BY <1>4
<1>6. <<x - 1, x>> \in OpToRel(<, Nat)
  BY <1>3, <1>4 DEF OpToRel
<1> QED BY <1>2, <1>5, <1>6

\* One step of the loop of Vec::retain, with the results of the steps before in f.
KeptAt(vec, keep, f, i) ==
    IF i = 0 THEN <<>> ELSE IF vec[i] \in keep THEN Append(f[i - 1], vec[i]) ELSE f[i - 1]

\* The recursive function of Retain exists, so Retain is the last value of the loop.
LEMMA RetainUnfolds ==
    ASSUME NEW S, NEW vec \in Seq(S), NEW keep
    PROVE  \E f : /\ \A i \in 0 .. Len(vec) : f[i] = KeptAt(vec, keep, f, i)
                  /\ Retain(vec, keep) = f[Len(vec)]
<1> DEFINE Good(n, f) == f = [i \in 0 .. n |-> KeptAt(vec, keep, f, i)]
           T == {n \in Nat : \E f : Good(n, f)}
<1>1. 0 \in T
  <2> DEFINE f == [i \in 0 .. 0 |-> <<>>]
  <2>1. Good(0, f)
    BY DEF KeptAt
  <2> QED BY <2>1
<1>2. ASSUME NEW n \in Nat, n \in T PROVE n + 1 \in T
  <2>1. PICK f : Good(n, f)
    BY <1>2
  <2> DEFINE g == [i \in 0 .. n + 1 |-> IF i = n + 1 THEN KeptAt(vec, keep, f, i) ELSE f[i]]
  <2>2. \A i \in 0 .. n : g[i] = f[i]
    OBVIOUS
  <2>3. \A i \in 0 .. n : f[i] = KeptAt(vec, keep, f, i)
    BY <2>1, Zenon
  <2>4. \A i \in 0 .. n + 1 : KeptAt(vec, keep, g, i) = KeptAt(vec, keep, f, i)
    BY <2>2 DEF KeptAt
  <2>5. \A i \in 0 .. n + 1 : g[i] = KeptAt(vec, keep, g, i)
    BY <2>2, <2>3, <2>4
  <2>6. g = [i \in 0 .. n + 1 |-> g[i]]
    OBVIOUS
  <2> HIDE DEF g
  <2>7. Good(n + 1, g)
    BY <2>5, <2>6
  <2> HIDE DEF Good
  <2> QED BY <2>7
<1>3. \E f : Good(Len(vec), f)
  <2> HIDE DEF T, Good
  <2>1. Nat \subseteq T
    BY <1>1, <1>2, SetInduction
  <2>2. Len(vec) \in T
    BY <2>1
  <2> QED BY <2>2 DEF T
<1>4. Retain(vec, keep) = (CHOOSE f : Good(Len(vec), f))[Len(vec)]
  BY Zenon DEF Retain, KeptAt
<1> DEFINE f == CHOOSE f : Good(Len(vec), f)
<1>5. Good(Len(vec), f)
  BY <1>3, Zenon
<1> HIDE DEF f
<1>6. \A i \in 0 .. Len(vec) : f[i] = KeptAt(vec, keep, f, i)
  BY <1>5, Zenon
<1> QED BY <1>4, <1>6, Zenon DEF f

\* Vec::push adds one element.
LEMMA AppendFacts ==
    ASSUME NEW S, NEW vec \in Seq(S), NEW x
    PROVE  /\ Elements(Append(vec, x)) = Elements(vec) \cup {x}
           /\ NoRepeat(vec) /\ x \notin Elements(vec) => NoRepeat(Append(vec, x))
<1>1. /\ DOMAIN Append(vec, x) = 1 .. Len(vec) + 1 /\ DOMAIN vec = 1 .. Len(vec)
      /\ \A i \in 1 .. Len(vec) : Append(vec, x)[i] = vec[i]
      /\ Append(vec, x)[Len(vec) + 1] = x
  OBVIOUS
<1>2. 1 .. Len(vec) + 1 = (1 .. Len(vec)) \cup {Len(vec) + 1} /\ Len(vec) + 1 \notin 1 .. Len(vec)
  OBVIOUS
<1> QED BY <1>1, <1>2 DEF Elements, NoRepeat

\* Vec::retain keeps exactly the elements asked for, in no more places than before.
LEMMA RetainFacts ==
    ASSUME NEW S, NEW vec \in Seq(S), NEW keep
    PROVE  /\ Retain(vec, keep) \in Seq(S)
           /\ Len(Retain(vec, keep)) <= Len(vec)
           /\ Elements(Retain(vec, keep)) = Elements(vec) \cap keep
           /\ NoRepeat(vec) => NoRepeat(Retain(vec, keep))
<1>1. PICK f : /\ \A i \in 0 .. Len(vec) : f[i] = KeptAt(vec, keep, f, i)
               /\ Retain(vec, keep) = f[Len(vec)]
  BY RetainUnfolds
<1> DEFINE Before(i) == {vec[j] : j \in 1 .. i}
           Good(i) == /\ f[i] \in Seq(S) /\ Len(f[i]) <= i
                      /\ Elements(f[i]) = Before(i) \cap keep
                      /\ NoRepeat(vec) => NoRepeat(f[i])
           T == {i \in Nat : i <= Len(vec) => Good(i)}
<1>2. 0 \in T
  <2>1. f[0] = <<>>
    BY <1>1 DEF KeptAt
  <2>2. Good(0)
    BY <2>1 DEF Elements, NoRepeat
  <2> QED BY <2>2
<1>3. ASSUME NEW i \in Nat, i \in T PROVE i + 1 \in T
  <2> SUFFICES ASSUME i + 1 <= Len(vec) PROVE Good(i + 1)
    OBVIOUS
  <2>1. Good(i)
    BY <1>3
  <2>2. /\ f[i + 1] = IF vec[i + 1] \in keep THEN Append(f[i], vec[i + 1]) ELSE f[i]
        /\ vec[i + 1] \in S
    <3>1. i + 1 \in 0 .. Len(vec) /\ i + 1 # 0 /\ (i + 1) - 1 = i
      OBVIOUS
    <3> QED BY <1>1, <3>1 DEF KeptAt
  <2>3. Before(i + 1) = Before(i) \cup {vec[i + 1]}
    <3>1. 1 .. i + 1 = (1 .. i) \cup {i + 1}
      OBVIOUS
    <3> QED BY <3>1
  <2>4. NoRepeat(vec) => vec[i + 1] \notin Before(i)
    BY DEF NoRepeat
  <2> HIDE DEF Before
  <2>5. CASE vec[i + 1] \in keep
    <3>1. f[i + 1] = Append(f[i], vec[i + 1])
      BY <2>2, <2>5
    <3>2. f[i + 1] \in Seq(S) /\ Len(f[i + 1]) <= i + 1
      BY <2>1, <2>2, <3>1
    <3>3. Elements(f[i + 1]) = Elements(f[i]) \cup {vec[i + 1]}
      BY <2>1, <3>1, AppendFacts
    <3>4. NoRepeat(vec) => NoRepeat(f[i + 1])
      BY <2>1, <2>4, <3>1, AppendFacts
    <3> QED BY <2>1, <2>3, <2>5, <3>2, <3>3, <3>4, Zenon
  <2>6. CASE vec[i + 1] \notin keep
    <3>1. f[i + 1] = f[i]
      BY <2>2, <2>6
    <3>2. Len(f[i + 1]) <= i + 1
      BY <2>1, <3>1
    <3> QED BY <2>1, <2>3, <2>6, <3>1, <3>2, Zenon
  <2> QED BY <2>5, <2>6
<1>4. Good(Len(vec))
  <2> HIDE DEF T, Good
  <2>1. Nat \subseteq T
    BY <1>2, <1>3, SetInduction
  <2>2. Len(vec) \in Nat /\ Len(vec) \in T
    BY <2>1
  <2> QED BY <2>2 DEF T
<1>5. Before(Len(vec)) = Elements(vec)
  BY DEF Elements
<1> QED BY <1>1, <1>4, <1>5, Zenon

\* Pushing a pair pushes its account.
LEMMA AppendFirsts ==
    ASSUME NEW S, NEW pairs \in Seq(S), NEW x
    PROVE  Firsts(Append(pairs, x)) = Append(Firsts(pairs), x[1])
<1>1. /\ Append(pairs, x) \in Seq(S \cup {x}) /\ Len(Append(pairs, x)) = Len(pairs) + 1
      /\ \A i \in 1 .. Len(pairs) : Append(pairs, x)[i] = pairs[i]
      /\ Append(pairs, x)[Len(pairs) + 1] = x
      /\ DOMAIN Append(pairs, x) = 1 .. Len(pairs) + 1
  OBVIOUS
<1> DEFINE fs == Firsts(pairs)
           SS == {pairs[i][1] : i \in DOMAIN pairs}
<1>2. fs \in Seq(SS) /\ Len(fs) = Len(pairs) /\ \A i \in 1 .. Len(pairs) : fs[i] = pairs[i][1]
  BY DEF Firsts
<1> HIDE DEF fs, SS
<1>3. /\ Append(fs, x[1]) = [i \in 1 .. Len(pairs) + 1 |-> IF i = Len(pairs) + 1 THEN x[1] ELSE fs[i]]
  BY <1>2
<1>4. \A i \in 1 .. Len(pairs) + 1 :
        Append(pairs, x)[i][1] = IF i = Len(pairs) + 1 THEN x[1] ELSE fs[i]
  BY <1>1, <1>2
<1>5. Firsts(Append(pairs, x)) = [i \in 1 .. Len(pairs) + 1 |-> Append(pairs, x)[i][1]]
  BY <1>1 DEF Firsts
<1> QED BY <1>3, <1>4, <1>5, Zenon DEF fs

\* Two parallel vectors retained by matching conditions stay parallel.
LEMMA RetainFirsts ==
    ASSUME NEW S, NEW T, NEW vec \in Seq(S), NEW pairs \in Seq(T), Firsts(pairs) = vec,
           NEW keep, NEW keepPairs,
           \A i \in DOMAIN vec : pairs[i] \in keepPairs <=> vec[i] \in keep
    PROVE  Firsts(Retain(pairs, keepPairs)) = Retain(vec, keep)
<1>1. PICK f : /\ \A i \in 0 .. Len(vec) : f[i] = KeptAt(vec, keep, f, i)
               /\ Retain(vec, keep) = f[Len(vec)]
  BY RetainUnfolds
<1>2. PICK g : /\ \A i \in 0 .. Len(pairs) : g[i] = KeptAt(pairs, keepPairs, g, i)
               /\ Retain(pairs, keepPairs) = g[Len(pairs)]
  BY RetainUnfolds
<1>3. Len(vec) = Len(pairs) /\ Len(vec) \in Nat /\ DOMAIN vec = 1 .. Len(vec)
      /\ \A i \in 1 .. Len(vec) : vec[i] = pairs[i][1] /\ pairs[i] \in T
  BY DEF Firsts
<1> DEFINE Good(i) == g[i] \in Seq(T) /\ Firsts(g[i]) = f[i]
           I == {i \in Nat : i <= Len(vec) => Good(i)}
<1>4. 0 \in I
  <2>1. f[0] = <<>> /\ g[0] = <<>>
    BY <1>1, <1>2 DEF KeptAt
  <2>2. Good(0)
    BY <2>1 DEF Firsts
  <2> QED BY <2>2
<1>5. ASSUME NEW i \in Nat, i \in I PROVE i + 1 \in I
  <2> SUFFICES ASSUME i + 1 <= Len(vec) PROVE Good(i + 1)
    OBVIOUS
  <2>1. Good(i)
    BY <1>5
  <2>2. i + 1 \in 0 .. Len(vec) /\ i + 1 # 0 /\ (i + 1) - 1 = i /\ i + 1 \in 1 .. Len(vec)
    OBVIOUS
  <2>3. f[i + 1] = IF vec[i + 1] \in keep THEN Append(f[i], vec[i + 1]) ELSE f[i]
    BY <1>1, <2>2 DEF KeptAt
  <2>4. g[i + 1] = IF pairs[i + 1] \in keepPairs THEN Append(g[i], pairs[i + 1]) ELSE g[i]
    BY <1>2, <1>3, <2>2 DEF KeptAt
  <2>5. pairs[i + 1] \in keepPairs <=> vec[i + 1] \in keep
    BY <1>3, <2>2
  <2>6. CASE vec[i + 1] \in keep
    <3>1. f[i + 1] = Append(f[i], vec[i + 1]) /\ g[i + 1] = Append(g[i], pairs[i + 1])
      BY <2>3, <2>4, <2>5, <2>6
    <3>2. g[i + 1] \in Seq(T)
      BY <1>3, <2>1, <2>2, <3>1
    <3>3. Firsts(g[i + 1]) = f[i + 1]
      <4>1. Firsts(Append(g[i], pairs[i + 1])) = Append(Firsts(g[i]), pairs[i + 1][1])
        BY <2>1, AppendFirsts
      <4>2. vec[i + 1] = pairs[i + 1][1]
        BY <1>3, <2>2
      <4> QED BY <2>1, <3>1, <4>1, <4>2, Zenon
    <3> QED BY <3>2, <3>3
  <2>7. CASE vec[i + 1] \notin keep
    BY <2>1, <2>3, <2>4, <2>5, <2>7
  <2> QED BY <2>6, <2>7
<1>6. Good(Len(vec))
  <2> HIDE DEF I, Good
  <2>1. Nat \subseteq I
    BY <1>4, <1>5, SetInduction
  <2>2. Len(vec) \in Nat /\ Len(vec) \in I
    BY <2>1
  <2> QED BY <2>2 DEF I
<1> QED BY <1>1, <1>2, <1>3, <1>6

\* position(..) of an element that is there is an index that holds it.
LEMMA PositionFacts ==
    ASSUME NEW S, NEW vec \in Seq(S), NEW x, Has(vec, x)
    PROVE  Position(vec, x) \in 1 .. Len(vec) /\ vec[Position(vec, x)] = x
<1> DEFINE T == {k \in Nat : \A i \in DOMAIN vec : i <= k => vec[i] # x}
           First(i) == i \in DOMAIN vec /\ vec[i] = x /\ \A j \in DOMAIN vec : vec[j] = x => i <= j
<1>1. 0 \in T
  OBVIOUS
<1>2. \E k \in Nat : k \in T /\ k + 1 \notin T
  <2> SUFFICES ASSUME \A k \in Nat : k \in T => k + 1 \in T PROVE FALSE
    OBVIOUS
  <2> HIDE DEF T
  <2>1. Nat \subseteq T
    BY <1>1, SetInduction
  <2>2. Len(vec) \in T
    BY <2>1
  <2> QED BY <2>2 DEF T, Has, Elements
<1>3. \E i \in DOMAIN vec : First(i)
  <2>1. PICK k \in Nat : k \in T /\ k + 1 \notin T
    BY <1>2
  <2>2. PICK i \in DOMAIN vec : i <= k + 1 /\ vec[i] = x
    BY <2>1
  <2>3. First(i)
    BY <2>1, <2>2
  <2> QED BY <2>3
<1>4. Position(vec, x) = CHOOSE i \in DOMAIN vec : First(i)
  BY DEF Position
<1> HIDE DEF First
<1>5. First(Position(vec, x))
  BY <1>3, <1>4
<1> QED BY <1>5 DEF First

\* swap_remove takes out what is at the index and nothing else.
LEMMA SwapRemoveFacts ==
    ASSUME NEW S, NEW vec \in Seq(S), NEW i \in 1 .. Len(vec)
    PROVE  /\ SwapRemove(vec, i) \in Seq(S)
           /\ Len(SwapRemove(vec, i)) = Len(vec) - 1
           /\ Elements(SwapRemove(vec, i)) \subseteq Elements(vec)
           /\ Elements(vec) \subseteq Elements(SwapRemove(vec, i)) \cup {vec[i]}
           /\ NoRepeat(vec) => /\ NoRepeat(SwapRemove(vec, i))
                               /\ vec[i] \notin Elements(SwapRemove(vec, i))
<1> DEFINE res == SwapRemove(vec, i)
<1>0. Len(vec) \in Nat /\ Len(vec) > 0 /\ DOMAIN vec = 1 .. Len(vec)
  OBVIOUS
<1>1. /\ DOMAIN res = 1 .. Len(vec) - 1
      /\ \A j \in 1 .. Len(vec) - 1 : res[j] = IF j = i THEN vec[Len(vec)] ELSE vec[j]
  BY DEF SwapRemove
<1>2. res \in Seq(S) /\ Len(res) = Len(vec) - 1
  BY DEF SwapRemove
<1> HIDE DEF res
<1>3. Elements(res) \subseteq Elements(vec)
  BY <1>0, <1>1 DEF Elements
<1>4. Elements(vec) \subseteq Elements(res) \cup {vec[i]}
  <2> SUFFICES ASSUME NEW j \in 1 .. Len(vec), j # i PROVE vec[j] \in Elements(res)
    BY <1>0 DEF Elements
  <2>0. \A n \in Nat : \A k \in 1 .. n : k # n => k \in 1 .. n - 1
    OBVIOUS
  <2>1. CASE j = Len(vec)
    <3>1. i \in 1 .. Len(vec) - 1
      BY <1>0, <2>0, <2>1, Zenon
    <3>2. res[i] = vec[j]
      BY <1>1, <2>1, <3>1
    <3> QED BY <1>1, <3>1, <3>2 DEF Elements
  <2>2. CASE j # Len(vec)
    <3>1. j \in 1 .. Len(vec) - 1
      BY <1>0, <2>0, <2>2, Zenon
    <3>2. res[j] = vec[j]
      BY <1>1, <3>1
    <3> QED BY <1>1, <3>1, <3>2 DEF Elements
  <2> QED BY <2>1, <2>2
<1>5. ASSUME NoRepeat(vec) PROVE NoRepeat(res) /\ vec[i] \notin Elements(res)
  BY <1>0, <1>1, <1>5 DEF NoRepeat, Elements
<1> QED BY <1>2, <1>3, <1>4, <1>5 DEF res

\* Two parallel vectors swap_removed at one index stay parallel.
LEMMA SwapRemoveFirsts ==
    ASSUME NEW S, NEW pairs \in Seq(S), NEW i \in 1 .. Len(pairs)
    PROVE  Firsts(SwapRemove(pairs, i)) = SwapRemove(Firsts(pairs), i)
<1>1. Firsts(pairs) = [j \in 1 .. Len(pairs) |-> pairs[j][1]] /\ Len(Firsts(pairs)) = Len(pairs)
  BY DEF Firsts
<1> QED BY <1>1 DEF SwapRemove, Firsts

\* 1 .. n has n elements.
LEMMA IntervalCount ==
    ASSUME NEW n \in Nat
    PROVE  IsFiniteSet(1 .. n) /\ Cardinality(1 .. n) = n
<1>1. IsFiniteSet(1 .. n) /\ Cardinality(1 .. n) = IF 1 > n THEN 0 ELSE n - 1 + 1
  BY FS_Interval
<1> QED BY <1>1

\* A vector without repetition has as many elements as its length.
LEMMA DistinctCount ==
    ASSUME NEW S, NEW vec \in Seq(S), NoRepeat(vec)
    PROVE  IsFiniteSet(Elements(vec)) /\ Cardinality(Elements(vec)) = Len(vec)
<1>1. vec \in Bijection(1 .. Len(vec), Elements(vec))
  BY DEF Bijection, Injection, IsInjective, Surjection, Elements, NoRepeat
<1>2. IsFiniteSet(1 .. Len(vec)) /\ Cardinality(1 .. Len(vec)) = Len(vec)
  BY IntervalCount
<1>3. ExistsBijection(1 .. Len(vec), Elements(vec))
  BY <1>1 DEF ExistsBijection
<1> QED BY <1>2, <1>3, FS_Bijection

\* A vector has the type its elements have.
LEMMA SeqOfElements ==
    ASSUME NEW S, NEW T, NEW vec \in Seq(S), Elements(vec) \subseteq T
    PROVE  vec \in Seq(T)
<1>1. vec = [i \in 1 .. Len(vec) |-> vec[i]] /\ \A i \in 1 .. Len(vec) : vec[i] \in T
  BY DEF Elements
<1> QED BY <1>1

\* Something occurs in a vector when it does not occur zero times.
LEMMA OccurrenceFacts ==
    ASSUME NEW S, NEW vec \in Seq(S), NEW x
    PROVE  /\ Occurrences(vec, x) \in Nat
           /\ Occurrences(vec, x) = 0 <=> x \notin Elements(vec)
<1> DEFINE at == {i \in DOMAIN vec : vec[i] = x}
<1>1. IsFiniteSet(DOMAIN vec)
  BY IntervalCount
<1>2. at \in SUBSET (DOMAIN vec) /\ (at = {} <=> x \notin Elements(vec))
  BY DEF Elements
<1>3. Occurrences(vec, x) = Cardinality(at)
  BY DEF Occurrences
<1> HIDE DEF at
<1>4. IsFiniteSet(at)
  BY <1>1, <1>2, FS_Subset
<1> QED BY <1>2, <1>3, <1>4, FS_CardinalityType, FS_EmptySet

\* The elements below x, and those up to x, differ by the occurrences of x.
LEMMA CountFacts ==
    ASSUME NEW vec \in Seq(Nat), NEW x \in Nat
    PROVE  /\ CountBelow(vec, x) \in Nat /\ CountUpTo(vec, x) \in Nat
           /\ CountUpTo(vec, x) <= Len(vec)
           /\ x \in Elements(vec) => CountBelow(vec, x) < CountUpTo(vec, x)
           /\ x \notin Elements(vec) => CountBelow(vec, x) = CountUpTo(vec, x)
<1> DEFINE B == {i \in DOMAIN vec : vec[i] < x}
           U == {i \in DOMAIN vec : vec[i] <= x}
<1>1. IsFiniteSet(DOMAIN vec) /\ Cardinality(DOMAIN vec) = Len(vec)
  BY IntervalCount
<1>2. U \in SUBSET (DOMAIN vec) /\ B \in SUBSET U
  OBVIOUS
<1>3. x \in Elements(vec) => B # U
  BY DEF Elements
<1>4. x \notin Elements(vec) => B = U
  BY DEF Elements
<1>5. CountBelow(vec, x) = Cardinality(B) /\ CountUpTo(vec, x) = Cardinality(U)
  BY DEF CountBelow, CountUpTo
<1> HIDE DEF B, U
<1>6. IsFiniteSet(U) /\ Cardinality(U) <= Cardinality(DOMAIN vec)
  BY <1>1, <1>2, FS_Subset
<1>7. /\ IsFiniteSet(B) /\ Cardinality(B) <= Cardinality(U)
      /\ Cardinality(U) = Cardinality(B) => U = B
  BY <1>2, <1>6, FS_Subset
<1>8. Cardinality(B) \in Nat /\ Cardinality(U) \in Nat
  BY <1>6, <1>7, FS_CardinalityType
<1> QED BY <1>1, <1>3, <1>4, <1>5, <1>6, <1>7, <1>8

\* What is up to x is below any greater y.
LEMMA CountOrder ==
    ASSUME NEW vec \in Seq(Nat), NEW x \in Nat, NEW y \in Nat, x < y
    PROVE  CountUpTo(vec, x) <= CountBelow(vec, y)
<1> DEFINE B == {i \in DOMAIN vec : vec[i] < y}
           U == {i \in DOMAIN vec : vec[i] <= x}
<1>1. IsFiniteSet(DOMAIN vec)
  BY IntervalCount
<1>2. B \in SUBSET (DOMAIN vec) /\ U \in SUBSET B
  OBVIOUS
<1>3. CountBelow(vec, y) = Cardinality(B) /\ CountUpTo(vec, x) = Cardinality(U)
  BY DEF CountBelow, CountUpTo
<1> HIDE DEF B, U
<1>4. IsFiniteSet(B)
  BY <1>1, <1>2, FS_Subset
<1> QED BY <1>2, <1>3, <1>4, FS_Subset

\* Below x + 1 is up to x, and nothing is below 0.
LEMMA CountNext ==
    ASSUME NEW vec \in Seq(Nat), NEW x \in Nat
    PROVE  CountBelow(vec, x + 1) = CountUpTo(vec, x) /\ CountBelow(vec, 0) = 0
<1>1. {i \in DOMAIN vec : vec[i] < x + 1} = {i \in DOMAIN vec : vec[i] <= x}
  OBVIOUS
<1>2. {i \in DOMAIN vec : vec[i] < 0} = {}
  OBVIOUS
<1> QED BY <1>1, <1>2, FS_EmptySet DEF CountBelow, CountUpTo

\* A vector of numbers has an upper bound.
LEMMA UpperBound ==
    ASSUME NEW vec \in Seq(Nat)
    PROVE  \E m \in Nat : \A i \in DOMAIN vec : vec[i] <= m
<1> DEFINE T == {k \in Nat : \E m \in Nat : \A i \in DOMAIN vec : i <= k => vec[i] <= m}
<1>1. 0 \in T
  OBVIOUS
<1>2. ASSUME NEW k \in Nat, k \in T PROVE k + 1 \in T
  <2>1. PICK m \in Nat : \A i \in DOMAIN vec : i <= k => vec[i] <= m
    BY <1>2
  <2>2. CASE k + 1 \in DOMAIN vec /\ vec[k + 1] > m
    <3>1. \A i \in DOMAIN vec : i <= k + 1 => vec[i] <= vec[k + 1]
      BY <2>1, <2>2
    <3> QED BY <2>2, <3>1
  <2>3. CASE ~(k + 1 \in DOMAIN vec /\ vec[k + 1] > m)
    <3>1. \A i \in DOMAIN vec : i <= k + 1 => vec[i] <= m
      BY <2>1, <2>3
    <3> QED BY <3>1
  <2> QED BY <2>2, <2>3
<1> HIDE DEF T
<1>3. Nat \subseteq T
  BY <1>1, <1>2, SetInduction
<1>4. PICK m \in Nat : \A i \in DOMAIN vec : i <= Len(vec) => vec[i] <= m
  BY <1>3 DEF T
<1>5. \A i \in DOMAIN vec : i <= Len(vec)
  OBVIOUS
<1> QED BY <1>4, <1>5, Zenon

\* x is in place k of the sorted vector.
Kth(vec, k, x) == CountBelow(vec, x) < k /\ k <= CountUpTo(vec, x)

\* Every place of the sorted vector has an element: the least x with k elements up to it.
LEMMA KthExists ==
    ASSUME NEW vec \in Seq(Nat), NEW k \in 1 .. Len(vec)
    PROVE  \E x \in Elements(vec) : Kth(vec, k, x)
<1>1. PICK m \in Nat : \A i \in DOMAIN vec : vec[i] <= m
  BY UpperBound
<1>2. CountUpTo(vec, m) = Len(vec)
  <2>1. {i \in DOMAIN vec : vec[i] <= m} = 1 .. Len(vec)
    BY <1>1
  <2>2. Cardinality(1 .. Len(vec)) = Len(vec)
    BY IntervalCount
  <2> QED BY <2>1, <2>2 DEF CountUpTo
<1> DEFINE T == {c \in Nat : CountBelow(vec, c) < k}
<1>3. 0 \in T
  BY CountNext
<1>4. PICK c \in Nat : c \in T /\ c + 1 \notin T
  <2> SUFFICES ASSUME \A c \in Nat : c \in T => c + 1 \in T PROVE FALSE
    OBVIOUS
  <2> HIDE DEF T
  <2>1. Nat \subseteq T
    BY <1>3, SetInduction
  <2>2. m + 1 \in T
    BY <2>1
  <2> QED BY <1>2, <2>2, CountNext DEF T
<1>5. CountUpTo(vec, c) = CountBelow(vec, c + 1) /\ CountUpTo(vec, c) \in Nat
      /\ (c \notin Elements(vec) => CountBelow(vec, c) = CountUpTo(vec, c))
  BY CountNext, CountFacts
<1>6. CountBelow(vec, c) < k /\ k <= CountUpTo(vec, c) /\ c \in Elements(vec)
  BY <1>4, <1>5
<1> QED BY <1>6 DEF Kth

\* slice::sort keeps the elements and the length and leaves them in order.
LEMMA SortFacts ==
    ASSUME NEW vec \in Seq(Nat)
    PROVE  /\ Sort(vec) \in Seq(Nat) /\ Len(Sort(vec)) = Len(vec)
           /\ SortedVec(Sort(vec))
           /\ Elements(Sort(vec)) = Elements(vec)
<1> DEFINE s == Sort(vec)
<1>1. DOMAIN vec = 1 .. Len(vec) /\ Len(vec) \in Nat /\ Elements(vec) \subseteq Nat
  BY DEF Elements
<1>2. DOMAIN s = 1 .. Len(vec)
  BY <1>1 DEF Sort
<1>3. \A k \in 1 .. Len(vec) : s[k] \in Elements(vec) /\ Kth(vec, k, s[k])
  <2> SUFFICES ASSUME NEW k \in 1 .. Len(vec) PROVE s[k] \in Elements(vec) /\ Kth(vec, k, s[k])
    OBVIOUS
  <2>1. s[k] = CHOOSE x \in Elements(vec) : Kth(vec, k, x)
    BY <1>1 DEF Sort, Kth
  <2>2. \E x \in Elements(vec) : Kth(vec, k, x)
    BY KthExists
  <2> HIDE DEF s
  <2> QED BY <2>1, <2>2
<1>4. s = [k \in 1 .. Len(vec) |-> s[k]]
  BY <1>1 DEF Sort
<1> HIDE DEF s
<1>5. s \in Seq(Nat) /\ Len(s) = Len(vec)
  BY <1>1, <1>3, <1>4
<1>6. SortedVec(s)
  <2> SUFFICES ASSUME NEW j \in 1 .. Len(vec), NEW k \in 1 .. Len(vec), j < k, s[k] < s[j]
               PROVE  FALSE
    BY <1>1, <1>2, <1>3 DEF SortedVec
  <2>1. s[j] \in Nat /\ s[k] \in Nat
    BY <1>1, <1>3
  <2>2. /\ CountUpTo(vec, s[k]) <= CountBelow(vec, s[j])
        /\ CountUpTo(vec, s[k]) \in Nat /\ CountBelow(vec, s[j]) \in Nat
    BY <2>1, CountFacts, CountOrder
  <2>3. k <= CountUpTo(vec, s[k]) /\ CountBelow(vec, s[j]) < j
    BY <1>3 DEF Kth
  <2> QED BY <2>2, <2>3
<1>7. Elements(s) \subseteq Elements(vec)
  BY <1>2, <1>3 DEF Elements
<1>8. Elements(vec) \subseteq Elements(s)
  <2> SUFFICES ASSUME NEW x \in Elements(vec) PROVE x \in Elements(s)
    OBVIOUS
  <2> DEFINE k == CountUpTo(vec, x)
  <2>1. x \in Nat
    BY <1>1
  <2>2. /\ CountBelow(vec, x) \in Nat /\ k \in Nat /\ k <= Len(vec)
        /\ CountBelow(vec, x) < k
    BY <2>1, CountFacts
  <2> HIDE DEF k
  <2>3. k \in 1 .. Len(vec)
    BY <1>1, <2>2
  <2>4. /\ s[k] \in Nat /\ CountBelow(vec, s[k]) < k /\ k <= CountUpTo(vec, s[k])
        /\ CountBelow(vec, s[k]) \in Nat /\ CountUpTo(vec, s[k]) \in Nat
    BY <1>1, <1>3, <2>3, CountFacts DEF Kth
  <2>5. ~(x < s[k])
    <3>1. x < s[k] => k <= CountBelow(vec, s[k])
      BY <2>1, <2>4, CountOrder DEF k
    <3> QED BY <2>2, <2>4, <3>1
  <2>6. ~(s[k] < x)
    <3>1. s[k] < x => CountUpTo(vec, s[k]) <= CountBelow(vec, x)
      BY <2>1, <2>4, CountOrder
    <3> QED BY <2>2, <2>4, <3>1
  <2>7. s[k] = x
    BY <2>1, <2>4, <2>5, <2>6
  <2> QED BY <1>2, <2>3, <2>7 DEF Elements
<1> QED BY <1>5, <1>6, <1>7, <1>8 DEF s

\* How often x is among the first k elements.
CountIn(vec, k, x) == Cardinality({i \in 1 .. k : vec[i] = x})

\* Counting goes element by element, and ends with Occurrences.
LEMMA CountInFacts ==
    ASSUME NEW S, NEW vec \in Seq(S), NEW x
    PROVE  /\ CountIn(vec, 0, x) = 0
           /\ CountIn(vec, Len(vec), x) = Occurrences(vec, x)
           /\ \A k \in 0 .. Len(vec) : CountIn(vec, k, x) \in Nat
           /\ \A k \in 1 .. Len(vec) :
                /\ vec[k] = x => CountIn(vec, k, x) = CountIn(vec, k - 1, x) + 1
                /\ vec[k] # x => CountIn(vec, k, x) = CountIn(vec, k - 1, x)
<1> DEFINE At(k) == {i \in 1 .. k : vec[i] = x}
<1>1. At(0) = {}
  OBVIOUS
<1>2. CountIn(vec, 0, x) = 0
  BY <1>1, FS_EmptySet DEF CountIn
<1>3. CountIn(vec, Len(vec), x) = Occurrences(vec, x)
  <2>1. DOMAIN vec = 1 .. Len(vec)
    OBVIOUS
  <2> QED BY <2>1, Zenon DEF CountIn, Occurrences
<1>4. ASSUME NEW k \in Nat PROVE IsFiniteSet(At(k)) /\ Cardinality(At(k)) \in Nat
  <2>1. IsFiniteSet(1 .. k) /\ At(k) \subseteq 1 .. k
    BY IntervalCount
  <2> HIDE DEF At
  <2>2. IsFiniteSet(At(k))
    BY <2>1, FS_Subset
  <2> QED BY <2>2, FS_CardinalityType
<1>5. ASSUME NEW k \in 1 .. Len(vec)
      PROVE  /\ vec[k] = x => CountIn(vec, k, x) = CountIn(vec, k - 1, x) + 1
             /\ vec[k] # x => CountIn(vec, k, x) = CountIn(vec, k - 1, x)
  <2>1. k - 1 \in Nat
    OBVIOUS
  <2>2. IsFiniteSet(At(k - 1)) /\ Cardinality(At(k - 1)) \in Nat
    BY <1>4, <2>1
  <2>3. 1 .. k = (1 .. k - 1) \cup {k} /\ k \notin 1 .. k - 1
    OBVIOUS
  <2>4. CASE vec[k] = x
    <3>1. At(k) = At(k - 1) \cup {k} /\ k \notin At(k - 1)
      BY <2>3, <2>4
    <3> HIDE DEF At
    <3>2. Cardinality(At(k)) = Cardinality(At(k - 1)) + 1
      BY <2>2, <3>1, FS_AddElement
    <3> QED BY <2>4, <3>2 DEF CountIn, At
  <2>5. CASE vec[k] # x
    <3>1. At(k) = At(k - 1)
      BY <2>3, <2>5
    <3> HIDE DEF At
    <3>2. Cardinality(At(k)) = Cardinality(At(k - 1))
      BY <2>2, <3>1
    <3> QED BY <2>5, <3>2 DEF CountIn, At
  <2> QED BY <2>4, <2>5
<1>6. \A k \in 0 .. Len(vec) : CountIn(vec, k, x) \in Nat
  BY <1>4 DEF CountIn
<1> QED BY <1>2, <1>3, <1>5, <1>6
=============================================================================
