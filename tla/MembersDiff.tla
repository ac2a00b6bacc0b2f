----------------------------- MODULE MembersDiff -----------------------------
(***************************************************************************)
(* ChangeMembers::compute_members_diff_sorted, the merge that tells which  *)
(* members of a collective come and go: one action for each arm of the     *)
(* loop's match.  Its caller strikes the votes of the outgoing members.    *)
(***************************************************************************)
EXTENDS FrameStorage

CONSTANTS Accounts,   \* AccountId, numbers: the order of Ord is <
          Vectors     \* the vectors of members the function may be given

ASSUME VectorsAssumption == Accounts \subseteq Int /\ Vectors \subseteq Seq(Accounts)

VARIABLES old_members, new_members,  \* the arguments
          o, n,                      \* positions of old_i and new_i
          incoming, outgoing

args == <<old_members, new_members>>
vars == <<old_members, new_members, o, n, incoming, outgoing>>

Init ==
    /\ old_members \in Vectors /\ new_members \in Vectors
    /\ o = 1 /\ n = 1
    /\ incoming = <<>> /\ outgoing = <<>>

\* old_i and new_i are Some
SomeOld == o <= Len(old_members)
SomeNew == n <= Len(new_members)

\* Mutant of Same: the new member is not consumed.
SameOld ==
    /\ SomeOld /\ SomeNew /\ old_members[o] = new_members[n]
    /\ o' = o + 1
    /\ UNCHANGED <<args, n, incoming, outgoing>>

Same ==
    /\ SomeOld /\ SomeNew /\ old_members[o] = new_members[n]
    /\ o' = o + 1 /\ n' = n + 1
    /\ UNCHANGED <<args, incoming, outgoing>>

\* The arms (Some, Some) with old < new, and (Some, None).
OldGoes == SomeOld /\ (SomeNew => old_members[o] < new_members[n])

\* Mutant of Outgo: old members after the last new one are skipped.
OutgoBeforeNew ==
    /\ OldGoes
    /\ outgoing' = IF SomeNew THEN Append(outgoing, old_members[o]) ELSE outgoing
    /\ o' = o + 1
    /\ UNCHANGED <<args, n, incoming>>

Outgo ==
    /\ OldGoes
    /\ outgoing' = Append(outgoing, old_members[o])
    /\ o' = o + 1
    /\ UNCHANGED <<args, n, incoming>>

\* The last arm, (_, Some(new)).
Income ==
    /\ SomeNew /\ ~OldGoes /\ ~(SomeOld /\ old_members[o] = new_members[n])
    /\ incoming' = Append(incoming, new_members[n])
    /\ n' = n + 1
    /\ UNCHANGED <<args, o, outgoing>>

Next == Same \/ Outgo \/ Income

Spec == Init /\ [][Next]_vars /\ WF_vars(Next)

\* (None, None) => break
Done == ~SomeOld /\ ~SomeNew

-----------------------------------------------------------------------------
\* Properties

\* The iterators stay within their vectors.
TypeOK ==
    /\ old_members \in Seq(Accounts) /\ new_members \in Seq(Accounts)
    /\ o \in 1 .. Len(old_members) + 1 /\ n \in 1 .. Len(new_members) + 1
    /\ incoming \in Seq(Accounts) /\ outgoing \in Seq(Accounts)

\* Whatever the vectors, sorted or not, a member who is not among the new ones is
\* outgoing, and one who was not among the old ones is incoming: no vote of somebody
\* who left survives.
NoneForgotten ==
    Done => /\ Elements(old_members) \subseteq Elements(new_members) \cup Elements(outgoing)
            /\ Elements(new_members) \subseteq Elements(old_members) \cup Elements(incoming)

\* On vectors sorted without duplicates nobody who stays is outgoing, at any time of
\* the loop: no member loses a vote by a change that keeps them.
Strict(vec) == \A i, j \in DOMAIN vec : i < j => vec[i] < vec[j]

StayingKept ==
    Strict(old_members) /\ Strict(new_members) =>
      Elements(outgoing) \cap Elements(new_members) = {}

\* On sorted vectors, duplicates or not, the result is what the closed form says.
SortedDiff ==
    Done /\ SortedVec(old_members) /\ SortedVec(new_members) =>
      /\ Elements(outgoing) = Excess(old_members, new_members)
      /\ Elements(incoming) = Excess(new_members, old_members)
=============================================================================
