--------------------------- MODULE CouncilProofs ---------------------------
(***************************************************************************)
(* Proofs about pallet-council, for every council, every set of motions    *)
(* and every bound: no motion is lost or decided twice, the four vectors   *)
(* of a Votes record stay parallel and hold votes of members only, a vote  *)
(* is changed by its voter or by leaving the council and by nothing else,  *)
(* and an early approval has an aye.                                       *)
(***************************************************************************)
EXTENDS Council, VecFacts

\* NoMotionLost, element by element.
Accounted ==
    /\ \A h \in DOMAIN Voting : Voting[h].index \in 0 .. ProposalCount - 1
    /\ \A e \in decided : e[1] \in 0 .. ProposalCount - 1
    /\ \A h \in DOMAIN Voting, e \in decided : Voting[h].index # e[1]
    /\ \A i \in 0 .. ProposalCount - 1 :
         \/ \E h \in DOMAIN Voting : Voting[h].index = i
         \/ \E e \in decided : e[1] = i
    /\ \A g, h \in DOMAIN Voting : Voting[g].index = Voting[h].index => g = h
    /\ \A d, e \in decided : d[1] = e[1] => d = e

IInv ==
    /\ ProposalCount \in Nat
    /\ DOMAIN Voting = ProposalOf
    /\ Accounted

\* The two forms of NoMotionLost are the same.
LEMMA AccountedIsNoMotionLost == Accounted => NoMotionLost
BY DEF Accounted, NoMotionLost

\* Motions leave Voting with one event each: those in A approved, those in B not.
LEMMA Removal ==
    ASSUME IInv, NEW A, NEW B, A \cap B = {},
           DOMAIN Voting' = DOMAIN Voting \ (A \cup B),
           \A h \in DOMAIN Voting' : Voting'[h].index = Voting[h].index,
           decided' = decided \cup Events(A, "approved") \cup Events(B, "disapproved"),
           ProposalCount' = ProposalCount
    PROVE  Accounted'
<1> DEFINE gone == (A \cup B) \cap DOMAIN Voting
           new == Events(A, "approved") \cup Events(B, "disapproved")
<1>1. \A e \in new : \E h \in gone : e[1] = Voting[h].index
  BY DEF Events
<1>2. \A h \in gone : \E e \in new : e[1] = Voting[h].index
  <2> SUFFICES ASSUME NEW h \in gone PROVE \E e \in new : e[1] = Voting[h].index
    OBVIOUS
  <2>1. CASE h \in A
    <3>1. <<Voting[h].index, "approved">> \in new
      BY <2>1 DEF Events
    <3> QED BY <3>1
  <2>2. CASE h \in B
    <3>1. <<Voting[h].index, "disapproved">> \in new
      BY <2>2 DEF Events
    <3> QED BY <3>1
  <2> QED BY <2>1, <2>2
<1>3. \A d, e \in new : d[1] = e[1] => d = e
  BY DEF Events, IInv, Accounted
<1>4. decided' = decided \cup new
  OBVIOUS
<1>5. DOMAIN Voting' \cup gone = DOMAIN Voting /\ DOMAIN Voting' \cap gone = {}
  BY Zenon
<1> HIDE DEF gone, new
<1>6. \A h \in DOMAIN Voting', e \in decided' : Voting'[h].index # e[1]
  BY <1>1, <1>4, <1>5 DEF IInv, Accounted
<1>7. \A i \in 0 .. ProposalCount - 1 :
        \/ \E h \in DOMAIN Voting' : Voting'[h].index = i
        \/ \E e \in decided' : e[1] = i
  <2> SUFFICES ASSUME NEW i \in 0 .. ProposalCount - 1
               PROVE  \/ \E h \in DOMAIN Voting' : Voting'[h].index = i
                      \/ \E e \in decided' : e[1] = i
    OBVIOUS
  <2>1. ASSUME NEW h \in DOMAIN Voting, Voting[h].index = i
        PROVE  \/ \E g \in DOMAIN Voting' : Voting'[g].index = i
               \/ \E e \in decided' : e[1] = i
    BY <1>2, <1>4, <1>5, <2>1
  <2>2. ASSUME NEW e \in decided, e[1] = i
        PROVE  \E d \in decided' : d[1] = i
    BY <1>4, <2>2
  <2> QED BY <2>1, <2>2 DEF IInv, Accounted
<1>8. \A d, e \in decided' : d[1] = e[1] => d = e
  BY <1>1, <1>3, <1>4, <1>5, SMTT(30) DEF IInv, Accounted
<1>9. \A e \in decided' : e[1] \in 0 .. ProposalCount - 1
  BY <1>1, <1>4, <1>5 DEF IInv, Accounted
<1>10. /\ \A h \in DOMAIN Voting' : Voting'[h].index \in 0 .. ProposalCount - 1
       /\ \A g, h \in DOMAIN Voting' : Voting'[g].index = Voting'[h].index => g = h
  BY <1>5 DEF IInv, Accounted
<1> QED BY <1>6, <1>7, <1>8, <1>9, <1>10, SMTT(30) DEF Accounted

\* Votes change; the motions and their indexes do not.
LEMMA SameMotions ==
    ASSUME IInv, DOMAIN Voting' = DOMAIN Voting,
           \A h \in DOMAIN Voting : Voting'[h].index = Voting[h].index,
           UNCHANGED <<decided, ProposalCount, ProposalOf>>
    PROVE  IInv'
BY DEF IInv, Accounted

\* A call run as Root never changes the index of a motion.
LEMMA VotesAfterIndex ==
    ASSUME NEW m, NEW h PROVE VotesAfter(m, h).index = Voting[h].index
BY DEF VotesAfter, Strike, WithVoters

\* Nor does a vote.
LEMMA CastIndex ==
    ASSUME NEW votes, NEW who, NEW power, NEW approve
    PROVE  Cast(votes, who, power, approve).index = votes.index
BY DEF Cast, WithVoters

\* A call run as Root, with the motions in A approved by it, loses none.
LEMMA DispatchKeeps ==
    ASSUME IInv, NEW m \in Motions, NEW A, A \cap DisapprovedBy(m) = {},
           Dispatch(m, A), ProposalCount' = ProposalCount
    PROVE  IInv'
<1>1. DOMAIN Voting' = DOMAIN Voting \ (A \cup DisapprovedBy(m))
  BY DEF Dispatch
<1>2. \A h \in DOMAIN Voting' : Voting'[h].index = Voting[h].index
  BY VotesAfterIndex DEF Dispatch
<1>3. decided' = decided \cup Events(A, "approved")
                         \cup Events(DisapprovedBy(m), "disapproved")
  BY DEF Dispatch
<1>4. Accounted'
  BY <1>1, <1>2, <1>3, Removal, SMTT(30)
<1>5. ProposalOf' = ProposalOf \ (A \cup DisapprovedBy(m))
  BY DEF Dispatch
<1> QED BY <1>1, <1>4, <1>5 DEF IInv

\* do_disapprove_proposal records the one motion it removes.
LEMMA DisapproveKeeps ==
    ASSUME IInv, NEW h, Disapprove(h), ProposalCount' = ProposalCount
    PROVE  IInv'
<1>1. DOMAIN Voting' = DOMAIN Voting \ ({} \cup {h})
  BY DEF Disapprove, RemoveKey
<1>2. \A g \in DOMAIN Voting' : Voting'[g].index = Voting[g].index
  BY DEF Disapprove, RemoveKey
<1>3. decided' = decided \cup Events({}, "approved") \cup Events({h}, "disapproved")
  BY DEF Disapprove, Events
<1>4. Accounted'
  BY <1>1, <1>2, <1>3, Removal, SMTT(30)
<1> QED BY <1>1, <1>4 DEF IInv, Disapprove

\* A new motion takes the next index.
LEMMA NewMotionKeeps ==
    ASSUME IInv, NEW m, NEW votes, m \notin ProposalOf, votes.index = ProposalCount,
           Voting' = Insert(Voting, m, votes),
           ProposalOf' = ProposalOf \cup {m},
           ProposalCount' = ProposalCount + 1,
           decided' = decided
    PROVE  IInv'
<1>1. DOMAIN Voting' = DOMAIN Voting \cup {m} /\ m \notin DOMAIN Voting
  BY DEF Insert, IInv
<1>2. \A h \in DOMAIN Voting : Voting'[h] = Voting[h]
  BY <1>1 DEF Insert
<1>3. Voting'[m].index = ProposalCount
  BY DEF Insert
<1>4. 0 .. ProposalCount' - 1 = (0 .. ProposalCount - 1) \cup {ProposalCount}
  BY DEF IInv
<1>5. ProposalCount \notin 0 .. ProposalCount - 1
  BY DEF IInv
<1>6. Accounted'
  BY <1>1, <1>2, <1>3, <1>4, <1>5, SMTT(30) DEF IInv, Accounted
<1> QED BY <1>1, <1>6 DEF IInv

\* Every step keeps the account of motions.
LEMMA StepKeeps == IInv /\ [Next]_vars => IInv'
<1> SUFFICES ASSUME IInv, [Next]_vars PROVE IInv'
  OBVIOUS
<1>1. ASSUME UNCHANGED <<ProposalCount, motionVars>> PROVE IInv'
  BY <1>1, SameMotions DEF motionVars
<1>2. CASE UNCHANGED vars
  BY <1>1, <1>2 DEF vars, motionVars
<1>3. CASE NextBlock
  BY <1>1, <1>3 DEF NextBlock
<1>4. ASSUME NEW token \in Tokens, NEW who \in Accounts, NEW amount \in Balances,
             AssetsChange(token, who, amount)
      PROVE  IInv'
  BY <1>1, <1>4 DEF AssetsChange
<1>5. ASSUME NEW m \in Motions, RootCall(m) PROVE IInv'
  BY <1>5, DispatchKeeps DEF RootCall
<1>6. ASSUME NEW who \in Accounts, NEW m \in Motions, execute(who, m) PROVE IInv'
  BY <1>6, DispatchKeeps DEF execute
<1>7. ASSUME NEW who \in Accounts, NEW m \in Motions, NEW threshold \in Thresholds,
             propose(who, m, threshold)
      PROVE  IInv'
  <2>1. CASE threshold < 2
    BY <1>7, <2>1, DispatchKeeps DEF propose
  <2>2. CASE ~(threshold < 2)
    <3>1. NewVotes(ProposalCount, threshold).index = ProposalCount
      BY DEF NewVotes
    <3> QED BY <1>7, <2>2, <3>1, NewMotionKeeps, SMTT(30) DEF propose, Proposable
  <2> QED BY <2>1, <2>2
<1>8. ASSUME NEW who \in Accounts, NEW h \in Motions, NEW index \in 0 .. MaxCount,
             NEW approve \in BOOLEAN, vote(who, h, index, approve)
      PROVE  IInv'
  <2>1. DOMAIN Voting' = DOMAIN Voting
    BY <1>8 DEF vote
  <2>2. \A g \in DOMAIN Voting : Voting'[g].index = Voting[g].index
    BY <1>8, CastIndex DEF vote, Accepts
  <2> QED BY <1>8, <2>1, <2>2, SameMotions, SMTT(30) DEF vote
<1>9. ASSUME NEW h \in Motions, NEW index \in 0 .. MaxCount, close(h, index) PROVE IInv'
  <2>1. CASE Dispatch(h, {h})
    <3>1. {h} \cap DisapprovedBy(h) = {}
      BY CallsAssumption DEF DisapprovedBy
    <3> QED BY <1>9, <2>1, <3>1, DispatchKeeps, SMTT(30) DEF close
  <2>2. CASE Disapprove(h)
    BY <1>9, <2>2, DisapproveKeeps DEF close
  <2> QED BY <1>9, <2>1, <2>2, SMTT(30) DEF close
<1> QED BY <1>2, <1>3, <1>4, <1>5, <1>6, <1>7, <1>8, <1>9, SMTT(30) DEF Next

\* The account of motions holds always.
LEMMA Invariant == Spec => []IInv
<1>1. Init => IInv
  BY DEF Init, IInv, Accounted
<1> QED BY <1>1, StepKeeps, PTL DEF Spec

\* Every index that propose hands out is that of one open motion or of one event
\* Approved or Disapproved, whatever is proposed, voted, closed, disapproved by Root or
\* dispatched by a motion that is being closed.
THEOREM MotionsAccounted == Spec => []NoMotionLost
<1>1. IInv => NoMotionLost
  BY AccountedIsNoMotionLost DEF IInv
<1> QED BY <1>1, Invariant, PTL

\* A motion has a Votes record exactly as long as its proposal is stored: close finds
\* in ProposalOf every motion it finds in Voting, so validate_and_get_proposal never
\* fails with ProposalMissing there.
THEOREM VotingHasProposal == Spec => [](DOMAIN Voting = ProposalOf)
<1>1. IInv => DOMAIN Voting = ProposalOf
  BY DEF IInv
<1> QED BY <1>1, Invariant, PTL

-----------------------------------------------------------------------------
\* The tallies of a motion

\* What every Votes record satisfies, whatever was voted and whoever left.
VotesOK(v) ==
    /\ v \in VotesType
    /\ Firsts(v.ayes_power) = v.ayes /\ Firsts(v.nays_power) = v.nays
    /\ NoRepeat(v.ayes) /\ NoRepeat(v.nays)
    /\ Elements(v.ayes) \cap Elements(v.nays) = {}

\* One side of a motion: the voters, and their powers in the same order.
SideOK(vec, pairs) ==
    /\ vec \in Seq(Accounts) /\ pairs \in Seq(Accounts \X Nat)
    /\ Firsts(pairs) = vec /\ NoRepeat(vec)

\* A vote that is swapped out leaves both vectors at the same position.
LEMMA SwapOutSide ==
    ASSUME NEW vec, NEW pairs, SideOK(vec, pairs), NEW who
    PROVE  /\ SideOK(SwapOut(vec, vec, who), SwapOut(pairs, vec, who))
           /\ Elements(SwapOut(vec, vec, who)) = Elements(vec) \ {who}
<1>1. CASE ~Has(vec, who)
  BY <1>1 DEF SwapOut, SideOK, Has
<1>2. CASE Has(vec, who)
  <2> DEFINE p == Position(vec, who)
  <2>1. /\ vec \in Seq(Accounts) /\ pairs \in Seq(Accounts \X Nat)
        /\ Firsts(pairs) = vec /\ NoRepeat(vec)
    BY DEF SideOK
  <2>2. p \in 1 .. Len(vec) /\ vec[p] = who
    BY <1>2, <2>1, PositionFacts
  <2>3. Len(pairs) = Len(vec)
    BY <2>1 DEF Firsts
  <2>4. SwapOut(vec, vec, who) = SwapRemove(vec, p) /\ SwapOut(pairs, vec, who) = SwapRemove(pairs, p)
    BY <1>2 DEF SwapOut
  <2> HIDE DEF p
  <2>5. /\ SwapRemove(vec, p) \in Seq(Accounts) /\ NoRepeat(SwapRemove(vec, p))
        /\ Elements(SwapRemove(vec, p)) \subseteq Elements(vec)
        /\ Elements(vec) \subseteq Elements(SwapRemove(vec, p)) \cup {who}
        /\ who \notin Elements(SwapRemove(vec, p))
    BY <2>1, <2>2, SwapRemoveFacts
  <2>6. SwapRemove(pairs, p) \in Seq(Accounts \X Nat)
    BY <2>1, <2>2, <2>3, SwapRemoveFacts
  <2>7. Firsts(SwapRemove(pairs, p)) = SwapRemove(vec, p)
    BY <2>1, <2>2, <2>3, SwapRemoveFirsts
  <2> QED BY <2>4, <2>5, <2>6, <2>7, Zenon DEF SideOK
<1> QED BY <1>1, <1>2

\* A new vote is pushed to both vectors.
LEMMA PushSide ==
    ASSUME NEW vec, NEW pairs, SideOK(vec, pairs), NEW who \in Accounts, NEW power \in Nat,
           ~Has(vec, who)
    PROVE  /\ SideOK(Append(vec, who), Append(pairs, <<who, power>>))
           /\ Elements(Append(vec, who)) = Elements(vec) \cup {who}
<1>1. /\ vec \in Seq(Accounts) /\ pairs \in Seq(Accounts \X Nat)
      /\ Firsts(pairs) = vec /\ NoRepeat(vec)
  BY DEF SideOK
<1>2. Append(vec, who) \in Seq(Accounts) /\ Append(pairs, <<who, power>>) \in Seq(Accounts \X Nat)
  BY <1>1
<1>3. Firsts(Append(pairs, <<who, power>>)) = Append(vec, who)
  <2>1. Firsts(Append(pairs, <<who, power>>)) = Append(Firsts(pairs), <<who, power>>[1])
    BY <1>1, AppendFirsts, Zenon
  <2> QED BY <1>1, <2>1
<1>4. NoRepeat(Append(vec, who)) /\ Elements(Append(vec, who)) = Elements(vec) \cup {who}
  BY <1>1, AppendFacts DEF Has
<1> QED BY <1>2, <1>3, <1>4 DEF SideOK

\* The votes of outgoing members leave both vectors.
LEMMA StrikeSide ==
    ASSUME NEW vec, NEW pairs, SideOK(vec, pairs), NEW stay
    PROVE  /\ SideOK(Retain(vec, stay), Retain(pairs, stay \X Nat))
           /\ Elements(Retain(vec, stay)) = Elements(vec) \cap stay
           /\ Elements(Retain(pairs, stay \X Nat)) = Elements(pairs) \cap (stay \X Nat)
<1>1. /\ vec \in Seq(Accounts) /\ pairs \in Seq(Accounts \X Nat)
      /\ Firsts(pairs) = vec /\ NoRepeat(vec)
  BY DEF SideOK
<1>2. \A i \in DOMAIN vec : pairs[i] \in stay \X Nat <=> vec[i] \in stay
  BY <1>1 DEF Firsts
<1>3. Firsts(Retain(pairs, stay \X Nat)) = Retain(vec, stay)
  BY <1>1, <1>2, RetainFirsts
<1>4. /\ Retain(vec, stay) \in Seq(Accounts) /\ NoRepeat(Retain(vec, stay))
      /\ Elements(Retain(vec, stay)) = Elements(vec) \cap stay
  BY <1>1, RetainFacts
<1>5. /\ Retain(pairs, stay \X Nat) \in Seq(Accounts \X Nat)
      /\ Elements(Retain(pairs, stay \X Nat)) = Elements(pairs) \cap (stay \X Nat)
  BY <1>1, RetainFacts
<1> QED BY <1>3, <1>4, <1>5 DEF SideOK

\* VotesOK, side by side.
LEMMA Sides ==
    ASSUME NEW v
    PROVE  VotesOK(v) <=> /\ v \in VotesType
                          /\ SideOK(v.ayes, v.ayes_power) /\ SideOK(v.nays, v.nays_power)
                          /\ Elements(v.ayes) \cap Elements(v.nays) = {}
<1>1. v \in VotesType => /\ v.ayes \in Seq(Accounts) /\ v.ayes_power \in Seq(Accounts \X Nat)
                         /\ v.nays \in Seq(Accounts) /\ v.nays_power \in Seq(Accounts \X Nat)
  BY DEF VotesType
<1> QED BY <1>1, Zenon DEF VotesOK, SideOK

\* Two well-formed and disjoint sides make a well-formed Votes record.
LEMMA NewSides ==
    ASSUME NEW v \in VotesType, NEW a, NEW ap, NEW n, NEW np,
           SideOK(a, ap), SideOK(n, np), Elements(a) \cap Elements(n) = {}
    PROVE  /\ VotesOK(WithVoters(v, a, ap, n, np))
           /\ Voters(WithVoters(v, a, ap, n, np)) = Elements(a) \cup Elements(n)
<1>1. /\ WithVoters(v, a, ap, n, np).ayes = a /\ WithVoters(v, a, ap, n, np).ayes_power = ap
      /\ WithVoters(v, a, ap, n, np).nays = n /\ WithVoters(v, a, ap, n, np).nays_power = np
  BY DEF WithVoters
<1>2. WithVoters(v, a, ap, n, np) \in VotesType
  BY DEF WithVoters, VotesType, SideOK
<1> QED BY <1>1, <1>2, Sides DEF Voters

\* A vote that counts: the voter has it, and nobody else's changes.
LEMMA CastOK ==
    ASSUME NEW v, VotesOK(v), NEW who \in Accounts, NEW power \in Nat, NEW approve \in BOOLEAN,
           ~Has(IF approve THEN v.ayes ELSE v.nays, who)
    PROVE  /\ VotesOK(Cast(v, who, power, approve))
           /\ Voters(Cast(v, who, power, approve)) = Voters(v) \cup {who}
<1>1. /\ v \in VotesType /\ SideOK(v.ayes, v.ayes_power) /\ SideOK(v.nays, v.nays_power)
      /\ Elements(v.ayes) \cap Elements(v.nays) = {}
  BY Sides
<1>2. CASE approve
  <2> DEFINE a == Append(v.ayes, who)
             ap == Append(v.ayes_power, <<who, power>>)
             n == SwapOut(v.nays, v.nays, who)
             np == SwapOut(v.nays_power, v.nays, who)
  <2>1. SideOK(a, ap) /\ Elements(a) = Elements(v.ayes) \cup {who}
    BY <1>1, <1>2, PushSide
  <2>2. SideOK(n, np) /\ Elements(n) = Elements(v.nays) \ {who}
    BY <1>1, SwapOutSide
  <2>3. Cast(v, who, power, approve) = WithVoters(v, a, ap, n, np)
    BY <1>2 DEF Cast
  <2> HIDE DEF a, ap, n, np
  <2>4. Elements(a) \cap Elements(n) = {}
    BY <1>1, <2>1, <2>2
  <2>5. /\ VotesOK(WithVoters(v, a, ap, n, np))
        /\ Voters(WithVoters(v, a, ap, n, np)) = Elements(a) \cup Elements(n)
    BY <1>1, <2>1, <2>2, <2>4, NewSides
  <2> QED BY <2>1, <2>2, <2>3, <2>5 DEF Voters
<1>3. CASE ~approve
  <2> DEFINE a == SwapOut(v.ayes, v.ayes, who)
             ap == SwapOut(v.ayes_power, v.ayes, who)
             n == Append(v.nays, who)
             np == Append(v.nays_power, <<who, power>>)
  <2>1. SideOK(n, np) /\ Elements(n) = Elements(v.nays) \cup {who}
    BY <1>1, <1>3, PushSide
  <2>2. SideOK(a, ap) /\ Elements(a) = Elements(v.ayes) \ {who}
    BY <1>1, SwapOutSide
  <2>3. Cast(v, who, power, approve) = WithVoters(v, a, ap, n, np)
    BY <1>3 DEF Cast
  <2> HIDE DEF a, ap, n, np
  <2>4. Elements(a) \cap Elements(n) = {}
    BY <1>1, <2>1, <2>2
  <2>5. /\ VotesOK(WithVoters(v, a, ap, n, np))
        /\ Voters(WithVoters(v, a, ap, n, np)) = Elements(a) \cup Elements(n)
    BY <1>1, <2>1, <2>2, <2>4, NewSides
  <2> QED BY <2>1, <2>2, <2>3, <2>5 DEF Voters
<1> QED BY <1>2, <1>3

\* A change of members: the outgoing ones lose their votes, the others keep them.
LEMMA StrikeOK ==
    ASSUME NEW v, VotesOK(v), NEW outgoing
    PROVE  /\ VotesOK(Strike(v, outgoing))
           /\ Voters(Strike(v, outgoing)) = Voters(v) \ outgoing
<1> DEFINE stay == Accounts \ outgoing
<1>1. /\ v \in VotesType /\ SideOK(v.ayes, v.ayes_power) /\ SideOK(v.nays, v.nays_power)
      /\ Elements(v.ayes) \cap Elements(v.nays) = {}
  BY Sides
<1>2. Elements(v.ayes) \subseteq Accounts /\ Elements(v.nays) \subseteq Accounts
  BY <1>1 DEF SideOK, Elements
<1> DEFINE a == Retain(v.ayes, stay)
           ap == Retain(v.ayes_power, stay \X Nat)
           n == Retain(v.nays, stay)
           np == Retain(v.nays_power, stay \X Nat)
<1>3. SideOK(a, ap) /\ Elements(a) = Elements(v.ayes) \cap stay
  BY <1>1, StrikeSide
<1>4. SideOK(n, np) /\ Elements(n) = Elements(v.nays) \cap stay
  BY <1>1, StrikeSide
<1>5. Strike(v, outgoing) = WithVoters(v, a, ap, n, np)
  BY DEF Strike
<1> HIDE DEF a, ap, n, np
<1>6. Elements(a) \cap Elements(n) = {}
  BY <1>1, <1>3, <1>4
<1>7. /\ VotesOK(WithVoters(v, a, ap, n, np))
      /\ Voters(WithVoters(v, a, ap, n, np)) = Elements(a) \cup Elements(n)
  BY <1>1, <1>3, <1>4, <1>6, NewSides
<1> QED BY <1>2, <1>3, <1>4, <1>5, <1>7 DEF Voters

-----------------------------------------------------------------------------
\* The storage of the pallet

\* The inductive invariant behind TypeOK, VotesAligned, VotersAreMembers and
\* ProposalsConsistent, which say in cardinalities what it says of positions.
MotionsInv ==
    /\ TypeOK
    /\ NoRepeat(Proposals) /\ Elements(Proposals) = ProposalOf /\ DOMAIN Voting = ProposalOf
    /\ \A h \in DOMAIN Voting : VotesOK(Voting[h]) /\ Voters(Voting[h]) \subseteq Elements(Members)
    /\ SortedVec(Members)

\* What a call run as Root leaves in Members, Prime and GovTokenId.
LEMMA CallResults ==
    ASSUME MotionsInv, NEW m \in Motions
    PROVE  /\ MembersAfter(m) \in Seq(Accounts) /\ SortedVec(MembersAfter(m))
           /\ PrimeAfter(m) \in Accounts \cup {None}
           /\ TokenAfter(m) \in Tokens
           /\ DisapprovedBy(m) \subseteq Motions
<1>1. MembersAfter(m) \in Seq(Accounts) /\ SortedVec(MembersAfter(m))
  <2>1. CASE m \in DOMAIN SetMembersOf
    <3> DEFINE vec == SetMembersOf[m].members
    <3>1. vec \in Seq(Accounts) /\ vec \in Seq(Nat) /\ Elements(vec) \subseteq Accounts
      BY <2>1, CouncilBounds, CallsAssumption DEF Elements
    <3>2. MembersAfter(m) = Sort(vec)
      BY <2>1 DEF MembersAfter
    <3> HIDE DEF vec
    <3>3. Sort(vec) \in Seq(Nat) /\ SortedVec(Sort(vec)) /\ Elements(Sort(vec)) \subseteq Accounts
      BY <3>1, SortFacts
    <3> QED BY <3>2, <3>3, SeqOfElements
  <2>2. CASE m \notin DOMAIN SetMembersOf
    BY <2>2 DEF MembersAfter, MotionsInv, TypeOK
  <2> QED BY <2>1, <2>2
<1>2. PrimeAfter(m) \in Accounts \cup {None} /\ TokenAfter(m) \in Tokens
  BY CallsAssumption DEF PrimeAfter, TokenAfter, MotionsInv, TypeOK
<1>3. DisapprovedBy(m) \subseteq Motions
  BY CallsAssumption DEF DisapprovedBy
<1> QED BY <1>1, <1>2, <1>3

\* A member who is not among the new ones is outgoing.
LEMMA LeaversOutgoing ==
    ASSUME NEW old \in Seq(Accounts), NEW new \in Seq(Accounts), NEW a \in Elements(old),
           a \notin Elements(new)
    PROVE  a \in Outgoing(new, old)
<1>1. /\ Occurrences(old, a) \in Nat /\ Occurrences(old, a) # 0 /\ Occurrences(new, a) = 0
  BY OccurrenceFacts
<1> QED BY <1>1 DEF Outgoing, Excess

\* After a call the votes are well-formed and those of members of the new council.
LEMMA VotesAfterOK ==
    ASSUME MotionsInv, NEW m \in Motions, NEW h \in DOMAIN Voting
    PROVE  /\ VotesOK(VotesAfter(m, h))
           /\ Voters(VotesAfter(m, h)) \subseteq Elements(MembersAfter(m))
<1>1. VotesOK(Voting[h]) /\ Voters(Voting[h]) \subseteq Elements(Members)
  BY DEF MotionsInv
<1>2. CASE m \in DOMAIN SetMembersOf
  <2> DEFINE out == Outgoing(MembersAfter(m), Members)
  <2>1. VotesAfter(m, h) = Strike(Voting[h], out)
    BY <1>2 DEF VotesAfter, MotionsInv, Has
  <2>2. Members \in Seq(Accounts) /\ MembersAfter(m) \in Seq(Accounts)
    BY CallResults DEF MotionsInv, TypeOK
  <2>3. \A a \in Elements(Members) : a \in Elements(MembersAfter(m)) \/ a \in out
    BY <2>2, LeaversOutgoing
  <2> HIDE DEF out
  <2>4. VotesOK(Strike(Voting[h], out)) /\ Voters(Strike(Voting[h], out)) = Voters(Voting[h]) \ out
    BY <1>1, StrikeOK
  <2> QED BY <1>1, <2>1, <2>3, <2>4
<1>3. CASE m \notin DOMAIN SetMembersOf
  BY <1>1, <1>3 DEF VotesAfter, MembersAfter
<1> QED BY <1>2, <1>3

\* remove_proposal takes a motion out of the vector of hashes and leaves the others.
LEMMA RetainedOK ==
    ASSUME MotionsInv, NEW gone
    PROVE  /\ Retained(gone) \in Seq(Motions) /\ Len(Retained(gone)) <= MaxProposals
           /\ NoRepeat(Retained(gone)) /\ Elements(Retained(gone)) = ProposalOf \ gone
<1>1. /\ Proposals \in Seq(Motions) /\ Len(Proposals) <= MaxProposals /\ MaxProposals \in Nat
      /\ NoRepeat(Proposals) /\ Elements(Proposals) = ProposalOf /\ ProposalOf \subseteq Motions
  BY CouncilBounds DEF MotionsInv, TypeOK
<1>2. /\ Retained(gone) \in Seq(Motions) /\ Len(Retained(gone)) <= Len(Proposals)
      /\ NoRepeat(Retained(gone)) /\ Elements(Retained(gone)) = Elements(Proposals) \cap (Motions \ gone)
  BY <1>1, RetainFacts DEF Retained
<1> QED BY <1>1, <1>2

\* The events of motions that end have the type of decided.
LEMMA EventsType ==
    ASSUME TypeOK, NEW gone, NEW outcome \in {"approved", "disapproved"}
    PROVE  Events(gone, outcome) \subseteq (0 .. MaxCount) \X {"approved", "disapproved"}
<1>1. \A h \in DOMAIN Voting : Voting[h].index \in 0 .. MaxCount
  BY DEF TypeOK, VotesType
<1> QED BY <1>1 DEF Events

\* A step that removes motions and may change members keeps the invariant.
LEMMA MotionsRemoved ==
    ASSUME MotionsInv, NEW gone,
           Proposals' = Retained(gone), ProposalOf' = ProposalOf \ gone,
           DOMAIN Voting' = DOMAIN Voting \ gone,
           \A h \in DOMAIN Voting' : VotesOK(Voting'[h]) /\ Voters(Voting'[h]) \subseteq Elements(Members'),
           Members' \in Seq(Accounts), SortedVec(Members'),
           Prime' \in Accounts \cup {None}, GovTokenId' \in Tokens,
           decided' \subseteq (0 .. MaxCount) \X {"approved", "disapproved"},
           UNCHANGED <<block, balance, VotingPower, ProposalCount>>
    PROVE  MotionsInv'
<1>1. /\ Proposals' \in Seq(Motions) /\ Len(Proposals') <= MaxProposals
      /\ NoRepeat(Proposals') /\ Elements(Proposals') = ProposalOf'
  BY RetainedOK
<1>2. ProposalOf' \subseteq Motions /\ DOMAIN Voting' = ProposalOf'
  BY DEF MotionsInv, TypeOK
<1>3. \A h \in DOMAIN Voting' : Voting'[h] \in VotesType
  BY DEF VotesOK
<1>4. TypeOK'
  BY <1>1, <1>2, <1>3 DEF MotionsInv, TypeOK
<1> QED BY <1>1, <1>2, <1>4, Zenon DEF MotionsInv, VotesOK, Voters, VotesType

\* A call run as Root keeps the invariant.
LEMMA DispatchMotions ==
    ASSUME MotionsInv, NEW m \in Motions, NEW A, Dispatch(m, A),
           UNCHANGED <<block, balance, VotingPower, ProposalCount>>
    PROVE  MotionsInv'
<1> DEFINE gone == A \cup DisapprovedBy(m)
<1>1. /\ Proposals' = Retained(gone) /\ ProposalOf' = ProposalOf \ gone
      /\ Voting' = [h \in DOMAIN Voting \ gone |-> VotesAfter(m, h)]
      /\ Members' = MembersAfter(m) /\ Prime' = PrimeAfter(m) /\ GovTokenId' = TokenAfter(m)
      /\ decided' = decided \cup Events(A, "approved") \cup Events(DisapprovedBy(m), "disapproved")
  BY DEF Dispatch
<1> HIDE DEF gone
<1>2. DOMAIN Voting' = DOMAIN Voting \ gone
  BY <1>1
<1>3. \A h \in DOMAIN Voting' : VotesOK(Voting'[h]) /\ Voters(Voting'[h]) \subseteq Elements(Members')
  BY <1>1, <1>2, VotesAfterOK
<1>4. /\ Members' \in Seq(Accounts) /\ SortedVec(Members')
      /\ Prime' \in Accounts \cup {None} /\ GovTokenId' \in Tokens
  BY <1>1, CallResults
<1>5. decided' \subseteq (0 .. MaxCount) \X {"approved", "disapproved"}
  <2>1. TypeOK
    BY DEF MotionsInv
  <2>2. /\ Events(A, "approved") \subseteq (0 .. MaxCount) \X {"approved", "disapproved"}
        /\ Events(DisapprovedBy(m), "disapproved") \subseteq (0 .. MaxCount) \X {"approved", "disapproved"}
    BY <2>1, EventsType
  <2> QED BY <1>1, <2>1, <2>2, Zenon DEF TypeOK
<1> QED BY <1>1, <1>2, <1>3, <1>4, <1>5, MotionsRemoved

\* do_disapprove_proposal keeps the invariant.
LEMMA DisapproveMotions ==
    ASSUME MotionsInv, NEW h, Disapprove(h),
           UNCHANGED <<block, balance, VotingPower, ProposalCount>>
    PROVE  MotionsInv'
<1>0. TypeOK
  BY DEF MotionsInv
<1>1. /\ Proposals' = Retained({h}) /\ ProposalOf' = ProposalOf \ {h}
      /\ DOMAIN Voting' = DOMAIN Voting \ {h} /\ \A g \in DOMAIN Voting' : Voting'[g] = Voting[g]
      /\ decided' = decided \cup Events({h}, "disapproved")
      /\ UNCHANGED memberVars
  BY DEF Disapprove, RemoveKey
<1>2. \A g \in DOMAIN Voting' : VotesOK(Voting'[g]) /\ Voters(Voting'[g]) \subseteq Elements(Members')
  BY <1>1 DEF MotionsInv, memberVars
<1>3. /\ Members' \in Seq(Accounts) /\ SortedVec(Members')
      /\ Prime' \in Accounts \cup {None} /\ GovTokenId' \in Tokens
  BY <1>1 DEF MotionsInv, TypeOK, memberVars
<1>4. decided' \subseteq (0 .. MaxCount) \X {"approved", "disapproved"}
  <2>1. Events({h}, "disapproved") \subseteq (0 .. MaxCount) \X {"approved", "disapproved"}
    BY <1>0, EventsType
  <2> QED BY <1>0, <1>1, <2>1, Zenon DEF TypeOK
<1> QED BY <1>1, <1>2, <1>3, <1>4, MotionsRemoved

\* A Votes record starts empty.
LEMMA NewVotesOK ==
    ASSUME TypeOK, NEW threshold \in Thresholds
    PROVE  /\ VotesOK(NewVotes(ProposalCount, threshold))
           /\ Voters(NewVotes(ProposalCount, threshold)) = {}
<1> DEFINE v == NewVotes(ProposalCount, threshold)
<1>1. v.ayes = <<>> /\ v.ayes_power = <<>> /\ v.nays = <<>> /\ v.nays_power = <<>>
  BY DEF NewVotes
<1>2. v \in VotesType
  <2>1. block + MotionDuration \in Nat /\ ProposalCount \in 0 .. MaxCount
    BY CouncilBounds DEF TypeOK
  <2> QED BY <2>1 DEF NewVotes, VotesType
<1> HIDE DEF v
<1>3. VotesOK(v) /\ Voters(v) = {}
  BY <1>1, <1>2 DEF VotesOK, Voters, Firsts, NoRepeat, Elements
<1> QED BY <1>3 DEF v

\* propose writes the three storage items of a new motion.
LEMMA ProposeMotions ==
    ASSUME MotionsInv, NEW who \in Accounts, NEW m \in Motions, NEW threshold \in Thresholds,
           propose(who, m, threshold), ~(threshold < 2)
    PROVE  MotionsInv'
<1> DEFINE v == NewVotes(ProposalCount, threshold)
<1>1. /\ m \notin ProposalOf /\ Len(Proposals) < MaxProposals /\ ProposalCount < MaxCount
      /\ Proposals' = Append(Proposals, m) /\ ProposalOf' = ProposalOf \cup {m}
      /\ Voting' = Insert(Voting, m, v) /\ ProposalCount' = ProposalCount + 1
      /\ UNCHANGED <<block, balance, VotingPower, decided, Members, Prime, GovTokenId>>
  BY DEF propose, Proposable, CanPush, memberVars
<1>2. VotesOK(v) /\ Voters(v) = {}
  BY NewVotesOK DEF MotionsInv
<1> HIDE DEF v
<1>3. /\ Proposals \in Seq(Motions) /\ NoRepeat(Proposals) /\ Elements(Proposals) = ProposalOf
      /\ MaxProposals \in Nat /\ MaxCount \in Nat /\ ProposalCount \in 0 .. MaxCount
      /\ DOMAIN Voting = ProposalOf
  BY CouncilBounds DEF MotionsInv, TypeOK
<1>4. /\ Proposals' \in Seq(Motions) /\ Len(Proposals') <= MaxProposals
      /\ ProposalCount' \in 0 .. MaxCount
  BY <1>1, <1>3
<1>5. NoRepeat(Proposals') /\ Elements(Proposals') = ProposalOf'
  BY <1>1, <1>3, AppendFacts
<1>6. /\ DOMAIN Voting' = ProposalOf'
      /\ \A h \in DOMAIN Voting' : VotesOK(Voting'[h]) /\ Voters(Voting'[h]) \subseteq Elements(Members')
  BY <1>1, <1>2, <1>3 DEF Insert, MotionsInv
<1>7. \A h \in DOMAIN Voting' : Voting'[h] \in VotesType
  BY <1>6 DEF VotesOK
<1>8. ProposalOf' \subseteq Motions
  BY <1>1 DEF MotionsInv, TypeOK
<1>9. TypeOK'
  BY <1>1, <1>4, <1>6, <1>7, <1>8 DEF MotionsInv, TypeOK
<1>10. SortedVec(Members')
  BY <1>1 DEF MotionsInv
<1> QED BY <1>5, <1>6, <1>9, <1>10, Zenon DEF MotionsInv, VotesOK, Voters, VotesType

\* A balance read as voting power is a number.
LEMMA PowerType ==
    ASSUME MotionsInv, NEW who \in Accounts
    PROVE  Power(who) \in Nat
<1>1. balance \in [Tokens -> [Accounts -> Balances]] /\ GovTokenId \in Tokens
  BY DEF MotionsInv, TypeOK
<1>2. balance[GovTokenId] \in [Accounts -> Balances]
  BY <1>1
<1>3. balance[GovTokenId][who] \in Balances
  BY <1>2
<1> QED BY <1>3, CouncilBounds DEF Power

\* vote keeps the invariant, whether or not the vote counts.
LEMMA VoteMotions ==
    ASSUME MotionsInv, NEW who \in Accounts, NEW h \in Motions, NEW index, NEW approve \in BOOLEAN,
           vote(who, h, index, approve)
    PROVE  MotionsInv'
<1>1. /\ UNCHANGED <<block, balance, ProposalCount, Proposals, ProposalOf, decided, Members, Prime,
                     GovTokenId>>
      /\ VotingPower' = Insert(VotingPower, who, Power(who)) /\ who \in Elements(Members)
  BY DEF vote, memberVars, Has
<1>2. Power(who) \in Nat
  BY PowerType
<1>3. /\ DOMAIN Voting' = DOMAIN Voting
      /\ \A g \in DOMAIN Voting' : VotesOK(Voting'[g]) /\ Voters(Voting'[g]) \subseteq Elements(Members')
  <2>1. CASE ~Accepts(h, index, who, approve)
    BY <1>1, <2>1 DEF vote, MotionsInv
  <2>2. CASE Accepts(h, index, who, approve)
    <3> DEFINE v == Cast(Voting[h], who, Power(who), approve)
    <3>1. h \in DOMAIN Voting /\ ~Has(IF approve THEN Voting[h].ayes ELSE Voting[h].nays, who)
      BY <2>2 DEF Accepts
    <3>2. Voting' = [Voting EXCEPT ![h] = v]
      BY <2>2 DEF vote
    <3>3. VotesOK(Voting[h]) /\ Voters(Voting[h]) \subseteq Elements(Members)
      BY <3>1 DEF MotionsInv
    <3>4. VotesOK(v) /\ Voters(v) = Voters(Voting[h]) \cup {who}
      BY <1>2, <3>1, <3>3, CastOK
    <3> HIDE DEF v
    <3> QED BY <1>1, <3>1, <3>2, <3>3, <3>4 DEF MotionsInv
  <2> QED BY <2>1, <2>2
<1>4. \A g \in DOMAIN Voting' : Voting'[g] \in VotesType
  BY <1>3 DEF VotesOK
<1>5. /\ DOMAIN VotingPower' \subseteq Accounts
      /\ \A a \in DOMAIN VotingPower' : VotingPower'[a] \in Nat
  BY <1>1, <1>2 DEF Insert, MotionsInv, TypeOK
<1>6. TypeOK'
  BY <1>1, <1>3, <1>4, <1>5 DEF MotionsInv, TypeOK
<1>7. /\ NoRepeat(Proposals') /\ Elements(Proposals') = ProposalOf' /\ DOMAIN Voting' = ProposalOf'
      /\ SortedVec(Members')
  BY <1>1, <1>3 DEF MotionsInv
<1> QED BY <1>3, <1>6, <1>7, Zenon DEF MotionsInv, VotesOK, Voters, VotesType

\* Every step keeps the invariant.
LEMMA StepMotions == MotionsInv /\ [Next]_vars => MotionsInv'
<1> SUFFICES ASSUME MotionsInv, [Next]_vars PROVE MotionsInv'
  OBVIOUS
<1>1. ASSUME UNCHANGED <<VotingPower, ProposalCount, motionVars, memberVars>>,
             block' \in Nat, balance' \in [Tokens -> [Accounts -> Balances]]
      PROVE  MotionsInv'
  BY <1>1 DEF MotionsInv, TypeOK, motionVars, memberVars
<1>2. CASE UNCHANGED vars
  BY <1>1, <1>2 DEF vars, motionVars, memberVars, MotionsInv, TypeOK
<1>3. CASE NextBlock
  BY <1>1, <1>3 DEF NextBlock, MotionsInv, TypeOK
<1>4. ASSUME NEW token \in Tokens, NEW who \in Accounts, NEW amount \in Balances,
             AssetsChange(token, who, amount)
      PROVE  MotionsInv'
  BY <1>1, <1>4 DEF AssetsChange, MotionsInv, TypeOK
<1>5. ASSUME NEW m \in Motions, RootCall(m) PROVE MotionsInv'
  BY <1>5, DispatchMotions DEF RootCall
<1>6. ASSUME NEW who \in Accounts, NEW m \in Motions, execute(who, m) PROVE MotionsInv'
  BY <1>6, DispatchMotions DEF execute
<1>7. ASSUME NEW who \in Accounts, NEW m \in Motions, NEW threshold \in Thresholds,
             propose(who, m, threshold)
      PROVE  MotionsInv'
  <2>1. CASE threshold < 2
    BY <1>7, <2>1, DispatchMotions DEF propose
  <2>2. CASE ~(threshold < 2)
    BY <1>7, <2>2, ProposeMotions
  <2> QED BY <2>1, <2>2
<1>8. ASSUME NEW who \in Accounts, NEW h \in Motions, NEW index \in 0 .. MaxCount,
             NEW approve \in BOOLEAN, vote(who, h, index, approve)
      PROVE  MotionsInv'
  BY <1>8, VoteMotions
<1>9. ASSUME NEW h \in Motions, NEW index \in 0 .. MaxCount, close(h, index) PROVE MotionsInv'
  <2>1. CASE Dispatch(h, {h})
    BY <1>9, <2>1, DispatchMotions DEF close
  <2>2. CASE Disapprove(h)
    BY <1>9, <2>2, DisapproveMotions DEF close
  <2> QED BY <1>9, <2>1, <2>2, Zenon DEF close
<1> QED BY <1>2, <1>3, <1>4, <1>5, <1>6, <1>7, <1>8, <1>9, Zenon DEF Next

\* The invariant of Members, Proposals, ProposalOf and Voting holds always.
LEMMA MotionsInvariant == Spec => []MotionsInv
<1>1. Init => MotionsInv
  <2> SUFFICES ASSUME Init PROVE MotionsInv
    OBVIOUS
  <2>1. TypeOK
    BY CouncilBounds DEF Init, TypeOK
  <2> QED BY <2>1, CouncilBounds DEF Init, MotionsInv, NoRepeat, Elements
<1> QED BY <1>1, StepMotions, PTL DEF Spec

\* Every storage item keeps its type, and the active proposals stay within MaxProposals.
THEOREM TypeCorrect == Spec => []TypeOK
<1>1. MotionsInv => TypeOK
  BY DEF MotionsInv
<1> QED BY <1>1, MotionsInvariant, PTL

\* Whatever sequence of votes, swap_removes and membership changes a motion goes through,
\* the vectors of voters and of powers stay parallel, and nobody has two votes.
THEOREM VotesStayAligned == Spec => []VotesAligned
<1>1. ASSUME NEW v, VotesOK(v)
      PROVE  /\ [i \in DOMAIN v.ayes_power |-> v.ayes_power[i][1]] = v.ayes
             /\ [i \in DOMAIN v.nays_power |-> v.nays_power[i][1]] = v.nays
             /\ Cardinality(Voters(v)) = Len(v.ayes) + Len(v.nays)
  <2>1. /\ v.ayes \in Seq(Accounts) /\ v.nays \in Seq(Accounts)
        /\ NoRepeat(v.ayes) /\ NoRepeat(v.nays) /\ Elements(v.ayes) \cap Elements(v.nays) = {}
    BY <1>1 DEF VotesOK, VotesType
  <2>2. /\ IsFiniteSet(Elements(v.ayes)) /\ Cardinality(Elements(v.ayes)) = Len(v.ayes)
        /\ IsFiniteSet(Elements(v.nays)) /\ Cardinality(Elements(v.nays)) = Len(v.nays)
    BY <2>1, DistinctCount
  <2>3. Cardinality(Voters(v)) = Cardinality(Elements(v.ayes)) + Cardinality(Elements(v.nays))
                                 - Cardinality(Elements(v.ayes) \cap Elements(v.nays))
    BY <2>2, FS_Union DEF Voters
  <2>4. Cardinality(Elements(v.ayes) \cap Elements(v.nays)) = 0
    BY <2>1, FS_EmptySet
  <2>5. Len(v.ayes) \in Nat /\ Len(v.nays) \in Nat
    BY <2>1
  <2>6. Cardinality(Voters(v)) = Len(v.ayes) + Len(v.nays)
    BY <2>2, <2>3, <2>4, <2>5
  <2> QED BY <1>1, <2>6 DEF VotesOK, Firsts
<1>2. MotionsInv => VotesAligned
  BY <1>1, Zenon DEF MotionsInv, VotesAligned
<1> QED BY <1>2, MotionsInvariant, PTL

\* change_members_sorted leaves no vote of somebody who is no longer a member, on either
\* side of any open motion.
THEOREM OnlyMembersVote == Spec => []VotersAreMembers
<1>1. MotionsInv => VotersAreMembers
  BY DEF MotionsInv, VotersAreMembers
<1> QED BY <1>1, MotionsInvariant, PTL

\* Proposals, ProposalOf and Voting hold the same motions, each of them once.
THEOREM StorageConsistent == Spec => []ProposalsConsistent
<1>1. MotionsInv => ProposalsConsistent
  <2> SUFFICES ASSUME MotionsInv PROVE ProposalsConsistent
    OBVIOUS
  <2>1. Cardinality(Elements(Proposals)) = Len(Proposals)
    BY DistinctCount DEF MotionsInv, TypeOK
  <2> QED BY <2>1 DEF MotionsInv, ProposalsConsistent
<1> QED BY <1>1, MotionsInvariant, PTL

\* The vector of members is always sorted, as compute_members_diff_sorted needs it:
\* set_members sorts, and nothing else writes it after genesis.
THEOREM MembersStaySorted == Spec => []SortedVec(Members)
<1>1. MotionsInv => SortedVec(Members)
  BY DEF MotionsInv
<1> QED BY <1>1, MotionsInvariant, PTL

-----------------------------------------------------------------------------
\* Early approval

\* One step of the loop that adds powers up.
SumAt(nums, f, i) == IF i = 0 THEN 0 ELSE (f[i - 1] + nums[i]) % U32

\* The recursive function of Sum exists, so Sum is the last value of the loop.
LEMMA SumUnfolds ==
    ASSUME NEW nums \in Seq(Nat)
    PROVE  \E f : /\ \A i \in 0 .. Len(nums) : f[i] = SumAt(nums, f, i)
                  /\ Sum(nums) = f[Len(nums)]
<1> DEFINE Good(n, f) == f = [i \in 0 .. n |-> SumAt(nums, f, i)]
           T == {n \in Nat : \E f : Good(n, f)}
<1>1. 0 \in T
  <2> DEFINE f == [i \in 0 .. 0 |-> 0]
  <2>1. Good(0, f)
    BY DEF SumAt
  <2> QED BY <2>1
<1>2. ASSUME NEW n \in Nat, n \in T PROVE n + 1 \in T
  <2>1. PICK f : Good(n, f)
    BY <1>2
  <2> DEFINE g == [i \in 0 .. n + 1 |-> IF i = n + 1 THEN SumAt(nums, f, i) ELSE f[i]]
  <2>2. \A i \in 0 .. n : g[i] = f[i]
    OBVIOUS
  <2>3. \A i \in 0 .. n : f[i] = SumAt(nums, f, i)
    BY <2>1, Zenon
  <2>4. \A i \in 0 .. n + 1 : SumAt(nums, g, i) = SumAt(nums, f, i)
    BY <2>2 DEF SumAt
  <2>5. \A i \in 0 .. n + 1 : g[i] = SumAt(nums, g, i)
    BY <2>2, <2>3, <2>4
  <2>6. g = [i \in 0 .. n + 1 |-> g[i]]
    OBVIOUS
  <2> HIDE DEF g
  <2>7. Good(n + 1, g)
    BY <2>5, <2>6
  <2> HIDE DEF Good
  <2> QED BY <2>7
<1>3. \E f : Good(Len(nums), f)
  <2> HIDE DEF T, Good
  <2>1. Nat \subseteq T
    BY <1>1, <1>2, SetInduction
  <2>2. Len(nums) \in T
    BY <2>1
  <2> QED BY <2>2 DEF T
<1>4. Sum(nums) = (CHOOSE f : Good(Len(nums), f))[Len(nums)]
  BY Zenon DEF Sum, SumAt
<1> DEFINE f == CHOOSE f : Good(Len(nums), f)
<1>5. Good(Len(nums), f)
  BY <1>3, Zenon
<1> HIDE DEF f
<1>6. \A i \in 0 .. Len(nums) : f[i] = SumAt(nums, f, i)
  BY <1>5, Zenon
<1> QED BY <1>4, <1>6, Zenon DEF f

\* The loop that adds up powers on u32 yields a number, and 0 when nobody voted.
LEMMA SumFacts ==
    ASSUME NEW nums \in Seq(Nat)
    PROVE  Sum(nums) \in Nat /\ (nums = <<>> => Sum(nums) = 0)
<1>1. PICK f : /\ \A i \in 0 .. Len(nums) : f[i] = SumAt(nums, f, i)
               /\ Sum(nums) = f[Len(nums)]
  BY SumUnfolds
<1>2. f[0] = 0
  BY <1>1 DEF SumAt
<1> DEFINE T == {i \in Nat : i <= Len(nums) => f[i] \in Nat}
<1>3. ASSUME NEW i \in Nat, i \in T PROVE i + 1 \in T
  <2> SUFFICES ASSUME i + 1 <= Len(nums) PROVE f[i + 1] \in Nat
    OBVIOUS
  <2>1. f[i] \in Nat /\ nums[i + 1] \in Nat /\ i + 1 \in 0 .. Len(nums) /\ (i + 1) - 1 = i /\ i + 1 # 0
    BY <1>3
  <2>2. f[i + 1] = (f[i] + nums[i + 1]) % U32
    BY <1>1, <2>1 DEF SumAt
  <2>3. f[i] + nums[i + 1] \in Nat
    BY <2>1
  <2> QED BY <2>2, <2>3, CouncilBounds
<1>4. 0 \in T
  BY <1>2
<1> HIDE DEF T
<1>5. Nat \subseteq T
  BY <1>3, <1>4, SetInduction
<1>6. f[Len(nums)] \in Nat
  BY <1>5 DEF T
<1> QED BY <1>1, <1>2, <1>6

\* The powers of a side's ballots are a sequence of numbers.
LEMMA PowersType ==
    ASSUME NEW pairs \in Seq(Accounts \X Nat)
    PROVE  /\ [i \in DOMAIN pairs |-> pairs[i][2]] \in Seq(Nat)
           /\ pairs = <<>> => [i \in DOMAIN pairs |-> pairs[i][2]] = <<>>
<1>1. \A i \in 1 .. Len(pairs) : pairs[i] \in Accounts \X Nat
  OBVIOUS
<1>2. \A i \in 1 .. Len(pairs) : pairs[i][2] \in Nat
  BY <1>1
<1>3. DOMAIN pairs = 1 .. Len(pairs)
  OBVIOUS
<1>4. [i \in 1 .. Len(pairs) |-> pairs[i][2]] \in Seq(Nat)
  BY <1>2
<1> QED BY <1>3, <1>4

\* A tally on which more power said aye than nay has an aye.
LEMMA DecisiveHasAye ==
    ASSUME NEW v, VotesOK(v), Decisive(SumPower(v.ayes_power), SumPower(v.nays_power))
    PROVE  \E i \in DOMAIN v.ayes : TRUE
<1>1. /\ v.ayes \in Seq(Accounts) /\ v.ayes_power \in Seq(Accounts \X Nat)
      /\ v.nays_power \in Seq(Accounts \X Nat) /\ Firsts(v.ayes_power) = v.ayes
  BY DEF VotesOK, VotesType
<1> DEFINE a == [i \in DOMAIN v.ayes_power |-> v.ayes_power[i][2]]
           n == [i \in DOMAIN v.nays_power |-> v.nays_power[i][2]]
<1>2. a \in Seq(Nat) /\ n \in Seq(Nat) /\ (v.ayes_power = <<>> => a = <<>>)
  BY <1>1, PowersType
<1>3. SumPower(v.ayes_power) = Sum(a) /\ SumPower(v.nays_power) = Sum(n)
  BY DEF SumPower
<1> HIDE DEF a, n
<1>4. Sum(a) \in Nat /\ Sum(n) \in Nat /\ (a = <<>> => Sum(a) = 0)
  BY <1>2, SumFacts
<1>5. Sum(a) > Sum(n)
  BY <1>3 DEF Decisive
<1>6. v.ayes_power # <<>>
  BY <1>2, <1>4, <1>5
<1>7. DOMAIN v.ayes = DOMAIN v.ayes_power /\ 1 \in DOMAIN v.ayes_power
  BY <1>1, <1>6 DEF Firsts
<1> QED BY <1>7

\* An approval is the step in which close dispatches that motion.
LEMMA ApprovedByClose ==
    ASSUME IInv, [Next]_vars, NEW h \in DOMAIN Voting, Approves(h)
    PROVE  Outcome(Voting[h]) = "approved"
<1>1. <<Voting[h].index, "approved">> \in decided' /\ <<Voting[h].index, "approved">> \notin decided
  BY DEF Approves
<1>2. ASSUME NEW m, NEW A, Dispatch(m, A) PROVE \E g \in A \cap DOMAIN Voting : Voting[g].index = Voting[h].index
  <2>1. decided' = decided \cup Events(A, "approved") \cup Events(DisapprovedBy(m), "disapproved")
    BY <1>2 DEF Dispatch
  <2>2. <<Voting[h].index, "approved">> \notin Events(DisapprovedBy(m), "disapproved")
    BY DEF Events
  <2>3. <<Voting[h].index, "approved">> \in Events(A, "approved")
    BY <1>1, <2>1, <2>2, Zenon
  <2> QED BY <2>3 DEF Events
<1>3. ASSUME NEW g, Disapprove(g) PROVE FALSE
  <2>1. <<Voting[h].index, "approved">> \in Events({g}, "disapproved")
    BY <1>1, <1>3 DEF Disapprove
  <2> QED BY <2>1 DEF Events
<1>4. ASSUME decided' = decided PROVE FALSE
  BY <1>1, <1>4
<1>5. CASE NextBlock \/ UNCHANGED vars
  BY <1>4, <1>5 DEF NextBlock, motionVars, vars
<1>6. ASSUME NEW token, NEW who, NEW amount, AssetsChange(token, who, amount) PROVE FALSE
  BY <1>4, <1>6 DEF AssetsChange, motionVars
<1>7. ASSUME NEW m, Dispatch(m, {}) PROVE FALSE
  BY <1>2, <1>7
<1>8. ASSUME NEW who, NEW m, NEW threshold, propose(who, m, threshold) PROVE FALSE
  BY <1>4, <1>7, <1>8, Zenon DEF propose
<1>9. ASSUME NEW who, NEW g, NEW index, NEW approve, vote(who, g, index, approve) PROVE FALSE
  BY <1>4, <1>9, Zenon DEF vote
<1>10. ASSUME NEW g, NEW index, close(g, index) PROVE Outcome(Voting[h]) = "approved"
  <2>1. CASE Outcome(Voting[g]) = "approved" /\ Dispatch(g, {g})
    <3>1. g \in DOMAIN Voting /\ Voting[g].index = Voting[h].index
      BY <1>2, <2>1
    <3>2. g = h
      BY <3>1 DEF IInv, Accounted
    <3> QED BY <2>1, <3>2
  <2> QED BY <1>3, <1>10, <2>1, Zenon DEF close
<1> QED BY <1>5, <1>6, <1>7, <1>8, <1>9, <1>10, Zenon DEF Next, RootCall, execute

\* Before the end of its period a motion passes only with the aye of a current member,
\* for every distribution of tokens, the one where actual_threshold is 0 included.
THEOREM EarlyApproval == Spec => EarlyApprovalHasAye
<1>1. ASSUME IInv, MotionsInv, [Next]_vars, NEW h \in DOMAIN Voting, Approves(h),
             block < Voting[h].end
      PROVE  \E i \in DOMAIN Voting[h].ayes : Has(Members, Voting[h].ayes[i])
  <2>1. Outcome(Voting[h]) = "approved"
    BY <1>1, ApprovedByClose
  <2>2. VotesOK(Voting[h]) /\ Voters(Voting[h]) \subseteq Elements(Members)
    BY <1>1 DEF MotionsInv
  <2>3. ~VotingEnded(Voting[h])
    <3>1. block \in Nat /\ Voting[h].end \in Nat
      BY <1>1, <2>2 DEF MotionsInv, TypeOK, VotesOK, VotesType
    <3> QED BY <1>1, <3>1 DEF VotingEnded
  <2>4. Decisive(SumPower(Voting[h].ayes_power), SumPower(Voting[h].nays_power))
    BY <2>1, <2>3 DEF Outcome
  <2>5. PICK i \in DOMAIN Voting[h].ayes : TRUE
    BY <2>2, <2>4, DecisiveHasAye
  <2> QED BY <2>2, <2>5 DEF Has, Voters, Elements
<1>2. IInv /\ MotionsInv /\ [Next]_vars =>
        [\A h \in DOMAIN Voting :
           Approves(h) /\ block < Voting[h].end =>
             \E i \in DOMAIN Voting[h].ayes : Has(Members, Voting[h].ayes[i])]_vars
  BY <1>1, Zenon
<1> QED BY <1>2, Invariant, MotionsInvariant, PTL DEF Spec, EarlyApprovalHasAye

-----------------------------------------------------------------------------
\* Votes stay

\* What VotesKept says of one motion, from votes v to votes w.
Kept(v, w, staying) ==
    /\ Voters(v) \cap staying \subseteq Voters(w)
    /\ \A b, c \in Ballots(v) \ Ballots(w) : {b[1][1], c[1][1]} \subseteq staying => b = c

\* Swapping a vote out takes at most one ballot away.
LEMMA SwapOutBallot ==
    ASSUME NEW vec, NEW pairs, SideOK(vec, pairs), NEW who
    PROVE  \E q : Elements(pairs) \subseteq Elements(SwapOut(pairs, vec, who)) \cup {q}
<1>1. CASE ~Has(vec, who)
  BY <1>1 DEF SwapOut
<1>2. CASE Has(vec, who)
  <2>1. vec \in Seq(Accounts) /\ pairs \in Seq(Accounts \X Nat) /\ Firsts(pairs) = vec
    BY DEF SideOK
  <2>2. Position(vec, who) \in 1 .. Len(vec) /\ Len(pairs) = Len(vec)
    BY <1>2, <2>1, PositionFacts DEF Firsts
  <2>3. Position(vec, who) \in 1 .. Len(pairs)
    BY <2>2
  <2>4. SwapOut(pairs, vec, who) = SwapRemove(pairs, Position(vec, who))
    BY <1>2 DEF SwapOut
  <2>5. Elements(pairs) \subseteq Elements(SwapRemove(pairs, Position(vec, who))) \cup {pairs[Position(vec, who)]}
    BY <2>1, <2>3, SwapRemoveFacts
  <2> QED BY <2>4, <2>5, Zenon
<1> QED BY <1>1, <1>2

\* vote changes the ballot of the account that votes and of nobody else.
LEMMA CastKept ==
    ASSUME NEW v, VotesOK(v), NEW who \in Accounts, NEW power \in Nat, NEW approve \in BOOLEAN,
           ~Has(IF approve THEN v.ayes ELSE v.nays, who), NEW staying
    PROVE  Kept(v, Cast(v, who, power, approve), staying)
<1> DEFINE w == Cast(v, who, power, approve)
<1>1. Voters(v) \subseteq Voters(w)
  BY CastOK
<1>2. SideOK(v.ayes, v.ayes_power) /\ SideOK(v.nays, v.nays_power)
  BY Sides
<1>3. v.ayes_power \in Seq(Accounts \X Nat) /\ v.nays_power \in Seq(Accounts \X Nat)
  BY <1>2 DEF SideOK
<1>4. \E q, side : Ballots(v) \subseteq Ballots(w) \cup {<<q, side>>}
  <2>1. CASE approve
    <3>1. /\ w.ayes_power = Append(v.ayes_power, <<who, power>>)
          /\ w.nays_power = SwapOut(v.nays_power, v.nays, who)
      BY <2>1 DEF Cast, WithVoters
    <3>2. Elements(v.ayes_power) \subseteq Elements(w.ayes_power)
      <4>1. Elements(Append(v.ayes_power, <<who, power>>)) = Elements(v.ayes_power) \cup {<<who, power>>}
        BY <1>3, AppendFacts
      <4> QED BY <3>1, <4>1, Zenon
    <3>3. PICK q : Elements(v.nays_power) \subseteq Elements(w.nays_power) \cup {q}
      BY <1>2, <3>1, SwapOutBallot
    <3> HIDE DEF w
    <3>4. Ballots(v) \subseteq Ballots(w) \cup {<<q, "nay">>}
      BY <3>2, <3>3, Zenon DEF Ballots
    <3> QED BY <3>4
  <2>2. CASE ~approve
    <3>1. /\ w.nays_power = Append(v.nays_power, <<who, power>>)
          /\ w.ayes_power = SwapOut(v.ayes_power, v.ayes, who)
      BY <2>2 DEF Cast, WithVoters
    <3>2. Elements(v.nays_power) \subseteq Elements(w.nays_power)
      <4>1. Elements(Append(v.nays_power, <<who, power>>)) = Elements(v.nays_power) \cup {<<who, power>>}
        BY <1>3, AppendFacts
      <4> QED BY <3>1, <4>1, Zenon
    <3>3. PICK q : Elements(v.ayes_power) \subseteq Elements(w.ayes_power) \cup {q}
      BY <1>2, <3>1, SwapOutBallot
    <3> HIDE DEF w
    <3>4. Ballots(v) \subseteq Ballots(w) \cup {<<q, "aye">>}
      BY <3>2, <3>3, Zenon DEF Ballots
    <3> QED BY <3>4
  <2> QED BY <2>1, <2>2
<1> HIDE DEF w
<1>5. \A b, c \in Ballots(v) \ Ballots(w) : b = c
  BY <1>4, Zenon
<1>6. Kept(v, w, staying)
  BY <1>1, <1>5, Zenon DEF Kept
<1> QED BY <1>6 DEF w

\* change_members_sorted takes only ballots of outgoing accounts away.
LEMMA StrikeKept ==
    ASSUME NEW v, VotesOK(v), NEW outgoing, NEW staying, staying \cap outgoing = {}
    PROVE  Kept(v, Strike(v, outgoing), staying)
<1> DEFINE w == Strike(v, outgoing)
           stay == (Accounts \ outgoing) \X Nat
<1>1. Voters(v) \cap staying \subseteq Voters(w)
  BY StrikeOK
<1>2. SideOK(v.ayes, v.ayes_power) /\ SideOK(v.nays, v.nays_power)
  BY Sides
<1>3. Elements(v.ayes_power) \subseteq Accounts \X Nat /\ Elements(v.nays_power) \subseteq Accounts \X Nat
  BY <1>2 DEF SideOK, Elements
<1>4. w.ayes_power = Retain(v.ayes_power, stay) /\ w.nays_power = Retain(v.nays_power, stay)
  BY DEF Strike, WithVoters
<1>5. /\ Elements(w.ayes_power) = Elements(v.ayes_power) \cap stay
      /\ Elements(w.nays_power) = Elements(v.nays_power) \cap stay
  <2>0. v.ayes_power \in Seq(Accounts \X Nat) /\ v.nays_power \in Seq(Accounts \X Nat)
    BY <1>2 DEF SideOK
  <2> HIDE DEF stay
  <2>1. Elements(Retain(v.ayes_power, stay)) = Elements(v.ayes_power) \cap stay
    BY <2>0, RetainFacts
  <2>2. Elements(Retain(v.nays_power, stay)) = Elements(v.nays_power) \cap stay
    BY <2>0, RetainFacts
  <2> QED BY <1>4, <2>1, <2>2
<1>6. \A p \in Accounts \X Nat : p[1] \in staying => p \in stay
  OBVIOUS
<1> HIDE DEF w, stay
<1>7. \A p \in Elements(v.ayes_power) : p[1] \in staying => p \in Elements(w.ayes_power)
  BY <1>3, <1>5, <1>6
<1>8. \A p \in Elements(v.nays_power) : p[1] \in staying => p \in Elements(w.nays_power)
  BY <1>3, <1>5, <1>6
<1>9. \A b \in Ballots(v) : b[1][1] \in staying => b \in Ballots(w)
  BY <1>7, <1>8 DEF Ballots
<1>10. Kept(v, w, staying)
  BY <1>1, <1>9, Zenon DEF Kept
<1> QED BY <1>10 DEF w

\* A call run as Root strikes exactly the members who do not stay.
LEMMA DispatchKept ==
    ASSUME MotionsInv, NEW m \in Motions, NEW A, Dispatch(m, A),
           NEW h \in DOMAIN Voting \cap DOMAIN Voting'
    PROVE  Kept(Voting[h], Voting'[h], Staying)
<1>1. /\ h \in DOMAIN Voting /\ Voting'[h] = VotesAfter(m, h) /\ Members' = MembersAfter(m)
  BY DEF Dispatch
<1>2. VotesOK(Voting[h]) /\ h \in Elements(Proposals)
  BY <1>1 DEF MotionsInv
<1>3. CASE m \in DOMAIN SetMembersOf
  <2>1. Voting'[h] = Strike(Voting[h], Outgoing(Members', Members))
    BY <1>1, <1>2, <1>3 DEF VotesAfter, Has
  <2>2. Staying \cap Outgoing(Members', Members) = {}
    BY Zenon DEF Staying, Outgoing
  <2> QED BY <1>2, <2>1, <2>2, StrikeKept
<1>4. CASE m \notin DOMAIN SetMembersOf
  BY <1>1, <1>4, Zenon DEF VotesAfter, Kept
<1> QED BY <1>3, <1>4

\* On a motion that stays open, a member who stays keeps a vote, and no step changes the
\* side or the recorded power of more than one voter, for every council and every call.
THEOREM VotesAreKept == Spec => VotesKept
<1>1. ASSUME MotionsInv, [Next]_vars, NEW h \in DOMAIN Voting \cap DOMAIN Voting'
      PROVE  Kept(Voting[h], Voting'[h], Staying)
  <2>0. ASSUME Voting'[h] = Voting[h] PROVE Kept(Voting[h], Voting'[h], Staying)
    BY <2>0, Zenon DEF Kept
  <2>1. CASE NextBlock \/ UNCHANGED vars
    BY <2>0, <2>1 DEF NextBlock, motionVars, vars
  <2>2. ASSUME NEW token, NEW who, NEW amount, AssetsChange(token, who, amount)
        PROVE  Kept(Voting[h], Voting'[h], Staying)
    BY <2>0, <2>2 DEF AssetsChange, motionVars
  <2>3. ASSUME NEW m \in Motions, NEW A, Dispatch(m, A)
        PROVE  Kept(Voting[h], Voting'[h], Staying)
    BY <1>1, <2>3, DispatchKept
  <2>4. ASSUME NEW who \in Accounts, NEW m \in Motions, NEW threshold, propose(who, m, threshold)
        PROVE  Kept(Voting[h], Voting'[h], Staying)
    <3>1. CASE Dispatch(m, {})
      BY <2>3, <3>1
    <3>2. CASE ~Dispatch(m, {})
      <4>1. Voting' = Insert(Voting, m, NewVotes(ProposalCount, threshold)) /\ m \notin ProposalOf
        BY <2>4, <3>2, Zenon DEF propose, Proposable
      <4>2. h # m
        BY <1>1, <4>1 DEF MotionsInv
      <4>3. Voting'[h] = Voting[h]
        BY <4>1, <4>2 DEF Insert
      <4> QED BY <2>0, <4>3
    <3> QED BY <3>1, <3>2
  <2>5. ASSUME NEW who \in Accounts, NEW g \in Motions, NEW index, NEW approve \in BOOLEAN,
               vote(who, g, index, approve)
        PROVE  Kept(Voting[h], Voting'[h], Staying)
    <3>1. CASE Accepts(g, index, who, approve) /\ g = h
      <4>1. /\ ~Has(IF approve THEN Voting[h].ayes ELSE Voting[h].nays, who)
            /\ Voting'[h] = Cast(Voting[h], who, Power(who), approve)
        BY <2>5, <3>1 DEF vote, Accepts
      <4>2. VotesOK(Voting[h]) /\ Power(who) \in Nat
        BY <1>1, PowerType DEF MotionsInv
      <4> QED BY <4>1, <4>2, CastKept
    <3>2. CASE ~(Accepts(g, index, who, approve) /\ g = h)
      <4>1. Voting'[h] = Voting[h]
        BY <2>5, <3>2 DEF vote
      <4> QED BY <2>0, <4>1
    <3> QED BY <3>1, <3>2
  <2>6. ASSUME NEW g, Disapprove(g) PROVE Kept(Voting[h], Voting'[h], Staying)
    <3>1. Voting'[h] = Voting[h]
      BY <1>1, <2>6 DEF Disapprove, RemoveKey
    <3> QED BY <2>0, <3>1
  <2>7. ASSUME NEW g \in Motions, NEW index, close(g, index)
        PROVE  Kept(Voting[h], Voting'[h], Staying)
    BY <2>3, <2>6, <2>7, Zenon DEF close
  <2> QED BY <1>1, <2>1, <2>2, <2>3, <2>4, <2>5, <2>7, Zenon DEF Next, RootCall, execute
<1>2. MotionsInv /\ [Next]_vars =>
        [\A h \in Revised :
           /\ Voters(Voting[h]) \cap Staying \subseteq Voters(Voting'[h])
           /\ \A b, c \in Ballots(Voting[h]) \ Ballots(Voting'[h]) :
                {b[1][1], c[1][1]} \subseteq Staying => b = c]_vars
  BY <1>1, Zenon DEF Kept, Revised
<1> QED BY <1>2, MotionsInvariant, PTL DEF Spec, VotesKept
=============================================================================
