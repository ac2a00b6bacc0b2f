------------------------------ MODULE Council ------------------------------
(***************************************************************************)
(* pallet-council: motions of the council, decided by the governance       *)
(* tokens of the members who vote.  One action for each dispatchable.  A   *)
(* call that is refused, or panics, before it writes is not a step.        *)
(***************************************************************************)
EXTENDS FrameStorage

CONSTANTS
    Accounts,        \* T::AccountId, numbers: the order of Ord is <
    Motions,         \* proposals, identified with their hashes
    Tokens,          \* asset ids; 0 is the default of the GovTokenId storage
    Balances,        \* balances the assets pallet may record
    None,            \* Option::None
    Genesis,         \* members at genesis, sorted
    SetMembersOf,    \* the motions that call set_members, with its arguments
    DisapproveOf,    \* the motions that call disapprove_proposal, with its argument
    SetTokenOf,      \* the motions that call set_gov_token_id, with its argument
    Thresholds,      \* values of the threshold argument of propose
    MaxProposals,    \* T::MaxProposals
    MotionDuration,  \* T::MotionDuration
    U32,             \* 2^32: u32 arithmetic wraps in the runtime's release build
    MaxBlock,        \* bound: block after which only open motions run on
    MaxCount         \* bound: proposals of a behaviour

VARIABLES
    block,
    balance,         \* token -> account -> balance, the assets pallet's
    GovTokenId,
    Proposals,       \* BoundedVec of hashes
    ProposalOf,      \* the hashes that have a proposal
    Voting,          \* hash -> Votes
    VotingPower,     \* account -> u32
    ProposalCount,   \* u32
    Members,         \* sorted Vec
    Prime,
    decided          \* the events Approved and Disapproved, with the motion's index

motionVars == <<Proposals, ProposalOf, Voting, decided>>
memberVars == <<Members, Prime, GovTokenId>>
vars == <<block, balance, GovTokenId, Proposals, ProposalOf, Voting, VotingPower,
          ProposalCount, Members, Prime, decided>>

ASSUME CouncilBounds ==
    /\ Accounts \subseteq Nat /\ Balances \subseteq Nat
    /\ MaxProposals \in Nat /\ MotionDuration \in Nat /\ U32 \in Nat \ {0}
    /\ MaxBlock \in Nat /\ MaxCount \in Nat /\ Thresholds \subseteq Nat
    /\ Genesis \in Seq(Accounts) /\ SortedVec(Genesis) /\ None \notin Accounts /\ 0 \in Tokens

ASSUME CallsAssumption ==
    /\ DOMAIN SetMembersOf \subseteq Motions
    /\ SetMembersOf \in [DOMAIN SetMembersOf ->
                           [members : Seq(Accounts), prime : Accounts \cup {None}]]
    /\ DOMAIN DisapproveOf \subseteq Motions
    /\ DisapproveOf \in [DOMAIN DisapproveOf -> Motions]
    /\ \A m \in DOMAIN DisapproveOf : DisapproveOf[m] # m  \* no call holds its own hash
    /\ DOMAIN SetTokenOf \subseteq Motions
    /\ SetTokenOf \in [DOMAIN SetTokenOf -> Tokens]

-----------------------------------------------------------------------------
\* Tallies

\* A Votes record as propose stores it.
NewVotes(index, threshold) ==
    [index |-> index, threshold |-> threshold, end |-> block + MotionDuration,
     ayes |-> <<>>, ayes_power |-> <<>>, nays |-> <<>>, nays_power |-> <<>>]

\* "for voting_power in .. { power = power + voting_power.1 }", on u32.
Sum(nums) ==
    LET power[i \in 0 .. Len(nums)] == IF i = 0 THEN 0 ELSE (power[i - 1] + nums[i]) % U32
    IN  power[Len(nums)]

SumPower(votes) == Sum([i \in DOMAIN votes |-> votes[i][2]])

\* <assets::Pallet<T>>::balance(<GovTokenId<T, I>>::get(), who)
Power(who) == balance[GovTokenId][who]

\* TryInto::<u32>::try_into(power).ok().unwrap() panics on a balance beyond u32.
FitsU32(who) == Power(who) < U32

calculate_max_gov_tokens == Sum([i \in DOMAIN Members |-> Power(Members[i])])

actual_threshold == ((calculate_max_gov_tokens * 30) % U32) \div 100

\* PrimeDefaultVote on prime().map(|who| voting.ayes.iter().any(|a| a == &who))
default_vote(votes) == Prime # None /\ Has(votes.ayes, Prime)

\* Mutant of Decisive: a tie decides.
DecisiveAtTie(power, against) ==
    /\ (power + against) % U32 >= actual_threshold
    /\ power >= against

\* Enough power has voted, and more of it on one side.
Decisive(power, against) ==
    /\ (power + against) % U32 >= actual_threshold
    /\ power > against

\* Mutant of VotingEnded: a motion nobody voted on is kept.
VotedAndEnded(votes) == block >= votes.end /\ votes.ayes \o votes.nays # <<>>

VotingEnded(votes) == block >= votes.end

\* What close makes of a motion; "open" is the error TooEarly.
Outcome(votes) ==
    LET yes == SumPower(votes.ayes_power)
        no  == SumPower(votes.nays_power)
        abstentions == (Len(Members) - (yes + no)) % U32
        final_yes == IF default_vote(votes) THEN (yes + abstentions) % U32 ELSE yes
    IN  IF Decisive(yes, no) THEN "approved"
        ELSE IF Decisive(no, yes) THEN "disapproved"
        ELSE IF ~VotingEnded(votes) THEN "open"
        ELSE IF final_yes >= actual_threshold THEN "approved" ELSE "disapproved"

\* A Votes record with other voters; index, threshold and end never change.
WithVoters(votes, ayes, ayes_power, nays, nays_power) ==
    [index |-> votes.index, threshold |-> votes.threshold, end |-> votes.end,
     ayes |-> ayes, ayes_power |-> ayes_power, nays |-> nays, nays_power |-> nays_power]

\* Mutant of SwapOut: the first vote goes, whoever cast it.
SwapOutFirst(vec, voters, who) == IF Has(voters, who) THEN SwapRemove(vec, 1) ELSE vec

\* swap_remove at the position who has in voters, if it is there.
SwapOut(vec, voters, who) ==
    IF Has(voters, who) THEN SwapRemove(vec, Position(voters, who)) ELSE vec

\* Mutant of Cast: the power of a withdrawn nay stays.
CastKeepingPower(votes, who, power, approve) ==
    IF approve
    THEN WithVoters(votes,
            Append(votes.ayes, who), Append(votes.ayes_power, <<who, power>>),
            SwapOut(votes.nays, votes.nays, who), votes.nays_power)
    ELSE WithVoters(votes,
            SwapOut(votes.ayes, votes.ayes, who), SwapOut(votes.ayes_power, votes.ayes, who),
            Append(votes.nays, who), Append(votes.nays_power, <<who, power>>))

\* The Votes record after a vote that is no duplicate: the vote is pushed to its side
\* and the one on the other side, if any, is swapped out of both vectors.
Cast(votes, who, power, approve) ==
    IF approve
    THEN WithVoters(votes,
            Append(votes.ayes, who), Append(votes.ayes_power, <<who, power>>),
            SwapOut(votes.nays, votes.nays, who), SwapOut(votes.nays_power, votes.nays, who))
    ELSE WithVoters(votes,
            SwapOut(votes.ayes, votes.ayes, who), SwapOut(votes.ayes_power, votes.ayes, who),
            Append(votes.nays, who), Append(votes.nays_power, <<who, power>>))

-----------------------------------------------------------------------------
\* Calls dispatched with the Root origin

\* The accounts in the outgoing part of compute_members_diff_sorted(new, old) for
\* sorted vectors: module MembersDiff has the loop itself.
Outgoing(new, old) == Excess(old, new)

\* Mutant of Strike: the nays of outgoing members stay.
StrikeAyes(votes, outgoing) ==
    WithVoters(votes, Retain(votes.ayes, Accounts \ outgoing),
                      Retain(votes.ayes_power, (Accounts \ outgoing) \X Nat),
                      votes.nays, votes.nays_power)

\* change_members_sorted strikes the outgoing accounts from a motion.
Strike(votes, outgoing) ==
    LET stay == Accounts \ outgoing
    IN  WithVoters(votes, Retain(votes.ayes, stay), Retain(votes.ayes_power, stay \X Nat),
                          Retain(votes.nays, stay), Retain(votes.nays_power, stay \X Nat))

\* Members, Prime and the votes on h after the call of motion m: set_members sorts
\* the new members and strikes the outgoing ones from every active proposal.
MembersAfter(m) ==
    IF m \in DOMAIN SetMembersOf THEN Sort(SetMembersOf[m].members) ELSE Members

PrimeAfter(m) == IF m \in DOMAIN SetMembersOf THEN SetMembersOf[m].prime ELSE Prime

VotesAfter(m, h) ==
    IF m \in DOMAIN SetMembersOf /\ Has(Proposals, h)
    THEN Strike(Voting[h], Outgoing(MembersAfter(m), Members))
    ELSE Voting[h]

TokenAfter(m) == IF m \in DOMAIN SetTokenOf THEN SetTokenOf[m] ELSE GovTokenId

\* disapprove_proposal removes its argument, whether or not it is there.
DisapprovedBy(m) == IF m \in DOMAIN DisapproveOf THEN {DisapproveOf[m]} ELSE {}

\* Mutant of Retained: remove_proposal forgets the vector of hashes.
RetainAll(gone) == Proposals

\* remove_proposal's retain, for every proposal in gone.
Retained(gone) == Retain(Proposals, Motions \ gone)

\* The events that say how the motions in gone ended.
Events(gone, outcome) == {<<Voting[h].index, outcome>> : h \in gone \cap DOMAIN Voting}

\* The call of m runs as Root; the motions in closing are then removed as approved.
Dispatch(m, closing) ==
    LET gone == closing \cup DisapprovedBy(m)
    IN  /\ Members' = MembersAfter(m)
        /\ Prime' = PrimeAfter(m)
        /\ GovTokenId' = TokenAfter(m)
        /\ Proposals' = Retained(gone)
        /\ ProposalOf' = ProposalOf \ gone
        /\ Voting' = [h \in DOMAIN Voting \ gone |-> VotesAfter(m, h)]
        /\ decided' = decided \cup Events(closing, "approved")
                              \cup Events(DisapprovedBy(m), "disapproved")

-----------------------------------------------------------------------------
\* initialize_members at genesis; set_gov_token_id has not been called.
Init ==
    /\ block = 1
    /\ balance \in [Tokens -> [Accounts -> Balances]]
    /\ GovTokenId = 0
    /\ Proposals = <<>> /\ ProposalOf = {} /\ Voting = [h \in {} |-> {}]
    /\ VotingPower = [a \in {} |-> 0]
    /\ ProposalCount = 0
    /\ Members = Genesis /\ Prime = None
    /\ decided = {}

NextBlock ==
    /\ block < MaxBlock \/ \E h \in DOMAIN Voting : block < Voting[h].end
    /\ block' = block + 1
    /\ UNCHANGED <<balance, VotingPower, ProposalCount, motionVars, memberVars>>

\* The assets pallet mints, burns or moves tokens.
AssetsChange(token, who, amount) ==
    /\ balance' = [balance EXCEPT ![token][who] = amount]
    /\ UNCHANGED <<block, VotingPower, ProposalCount, motionVars, memberVars>>

\* Root (sudo or another pallet) makes the call of m.
RootCall(m) ==
    /\ Dispatch(m, {})
    /\ UNCHANGED <<block, balance, VotingPower, ProposalCount>>

execute(who, m) ==
    /\ Has(Members, who)
    /\ Dispatch(m, {})
    /\ UNCHANGED <<block, balance, VotingPower, ProposalCount>>

\* Mutant of Proposable: the duplicate check is dropped.
AlwaysProposable(m) == m \in Motions

Proposable(m) == m \notin ProposalOf

\* A threshold below 2 executes at once; otherwise the motion is put to the vote.
propose(who, m, threshold) ==
    /\ Has(Members, who)
    /\ Proposable(m)
    /\ IF threshold < 2
       THEN Dispatch(m, {}) /\ UNCHANGED ProposalCount
       ELSE /\ CanPush(Proposals, MaxProposals)
            /\ ProposalCount < MaxCount
            /\ Proposals' = Append(Proposals, m)
            /\ ProposalOf' = ProposalOf \cup {m}
            /\ Voting' = Insert(Voting, m, NewVotes(ProposalCount, threshold))
            /\ ProposalCount' = ProposalCount + 1
            /\ UNCHANGED <<decided, memberVars>>
    /\ UNCHANGED <<block, balance, VotingPower>>

\* The conditions under which a vote counts.
Accepts(h, index, who, approve) ==
    /\ h \in DOMAIN Voting
    /\ Voting[h].index = index
    /\ ~Has(IF approve THEN Voting[h].ayes ELSE Voting[h].nays, who)

\* VotingPower is written before the checks, and stays when they fail.
vote(who, h, index, approve) ==
    /\ Has(Members, who)
    /\ FitsU32(who)
    /\ VotingPower' = Insert(VotingPower, who, Power(who))
    /\ Voting' = IF Accepts(h, index, who, approve)
                 THEN [Voting EXCEPT ![h] = Cast(@, who, Power(who), approve)]
                 ELSE Voting
    /\ UNCHANGED <<block, balance, ProposalCount, Proposals, ProposalOf, decided, memberVars>>

\* do_disapprove_proposal
Disapprove(h) ==
    /\ Proposals' = Retained({h})
    /\ ProposalOf' = ProposalOf \ {h}
    /\ Voting' = RemoveKey(Voting, h)
    /\ decided' = decided \cup Events({h}, "disapproved")
    /\ UNCHANGED memberVars

\* Any signed account, with bounds on length and weight that suffice.
close(h, index) ==
    /\ h \in DOMAIN Voting
    /\ Voting[h].index = index
    /\ \A i \in DOMAIN Members : FitsU32(Members[i])
    /\ \/ Outcome(Voting[h]) = "approved" /\ h \in ProposalOf /\ Dispatch(h, {h})
       \/ Outcome(Voting[h]) = "disapproved" /\ Disapprove(h)
    /\ UNCHANGED <<block, balance, VotingPower, ProposalCount>>

Next ==
    \/ NextBlock
    \/ \E token \in Tokens, who \in Accounts, amount \in Balances : AssetsChange(token, who, amount)
    \/ \E m \in Motions : RootCall(m)
    \/ \E who \in Accounts, m \in Motions :
          \/ execute(who, m)
          \/ \E threshold \in Thresholds : propose(who, m, threshold)
    \/ \E h \in Motions, index \in 0 .. MaxCount :
          \/ \E who \in Accounts, approve \in BOOLEAN : vote(who, h, index, approve)
          \/ close(h, index)

Spec == Init /\ [][Next]_vars

\* Blocks are made, and some account closes a motion that can be closed.
Fairness ==
    /\ WF_vars(NextBlock)
    /\ \A h \in Motions, index \in 0 .. MaxCount : WF_vars(close(h, index))

FairSpec == Spec /\ Fairness

-----------------------------------------------------------------------------
\* Properties

VotesType ==
    [index : 0 .. MaxCount, threshold : Thresholds, end : Nat,
     ayes : Seq(Accounts), ayes_power : Seq(Accounts \X Nat),
     nays : Seq(Accounts), nays_power : Seq(Accounts \X Nat)]

\* Every storage item has its type; the active proposals are within MaxProposals,
\* which propose enforces with try_push.
TypeOK ==
    /\ block \in Nat
    /\ balance \in [Tokens -> [Accounts -> Balances]] /\ GovTokenId \in Tokens
    /\ Proposals \in Seq(Motions) /\ Len(Proposals) <= MaxProposals
    /\ ProposalOf \subseteq Motions
    /\ DOMAIN Voting \subseteq Motions /\ \A h \in DOMAIN Voting : Voting[h] \in VotesType
    /\ DOMAIN VotingPower \subseteq Accounts
    /\ \A a \in DOMAIN VotingPower : VotingPower[a] \in Nat
    /\ ProposalCount \in 0 .. MaxCount
    /\ Members \in Seq(Accounts) /\ Prime \in Accounts \cup {None}
    /\ decided \subseteq (0 .. MaxCount) \X {"approved", "disapproved"}

Voters(votes) == Elements(votes.ayes) \cup Elements(votes.nays)

Ballots(votes) ==
    {<<v, "aye">> : v \in Elements(votes.ayes_power)} \cup
    {<<v, "nay">> : v \in Elements(votes.nays_power)}

\* The vectors of voters and of their powers stay parallel, whatever sequence of votes,
\* swap_removes and membership changes they go through, and no member has two votes:
\* vote uses a position found in the one to remove from the other.
VotesAligned ==
    \A h \in DOMAIN Voting :
      LET v == Voting[h]
      IN  /\ [i \in DOMAIN v.ayes_power |-> v.ayes_power[i][1]] = v.ayes
          /\ [i \in DOMAIN v.nays_power |-> v.nays_power[i][1]] = v.nays
          /\ Cardinality(Voters(v)) = Len(v.ayes) + Len(v.nays)

\* Only current members have votes on a motion: change_members_sorted strikes the
\* votes of the others, on both sides, from every motion that is open.
VotersAreMembers ==
    \A h \in DOMAIN Voting : Voters(Voting[h]) \subseteq Elements(Members)

\* The three storage items that hold a motion agree, and the vector has no duplicates:
\* propose and remove_proposal write them one after the other.
ProposalsConsistent ==
    /\ Elements(Proposals) = ProposalOf
    /\ Cardinality(ProposalOf) = Len(Proposals)
    /\ DOMAIN Voting = ProposalOf

\* No motion is lost and none is decided twice: each index propose has handed out is
\* that of one open motion or of one event Approved or Disapproved.
NoMotionLost ==
    LET open == {Voting[h].index : h \in DOMAIN Voting}
        closed == {e[1] : e \in decided}
    IN  /\ open \cap closed = {}
        /\ open \cup closed = 0 .. ProposalCount - 1
        /\ \A g, h \in DOMAIN Voting : Voting[g].index = Voting[h].index => g = h
        /\ \A d, e \in decided : d[1] = e[1] => d = e

\* The step approves motion h.
Approves(h) == <<Voting[h].index, "approved">> \in decided' \ decided

\* Before its period is over, close approves a motion only if a current member has
\* voted aye, even when the threshold computed from the balances is 0.
EarlyApprovalHasAye ==
    [][\A h \in DOMAIN Voting :
         Approves(h) /\ block < Voting[h].end =>
           \E i \in DOMAIN Voting[h].ayes : Has(Members, Voting[h].ayes[i])]_vars

\* The members who stay with as many entries in the vector as they had: set_members
\* does not refuse duplicates, and one who loses an entry counts as outgoing.
Staying == Elements(Members) \ Excess(Members, Members')

\* The motions that stay open with other votes than they had.
Revised == {h \in DOMAIN Voting \cap DOMAIN Voting' : Voting'[h] # Voting[h]}

\* On a motion that stays open, a member who stays keeps a vote, and no step changes
\* the side or the recorded power of more than one voter.
VotesKept ==
    [][\A h \in Revised :
         /\ Voters(Voting[h]) \cap Staying \subseteq Voters(Voting'[h])
         /\ \A b, c \in Ballots(Voting[h]) \ Ballots(Voting'[h]) :
              {b[1][1], c[1][1]} \subseteq Staying => b = c]_vars

\* Every motion is decided: after its period close works for any account, whatever
\* votes, changes of the token and transfers there were, as long as balances fit u32.
EveryMotionDecided ==
    \A index \in 0 .. MaxCount - 1 :
      (ProposalCount > index) ~> (\E e \in decided : e[1] = index)

-----------------------------------------------------------------------------
\* What a comment says and the code does not do

\* Votes.threshold is "The number of approval votes that are needed to pass the motion."
ThresholdNeeded ==
    [][\A h \in DOMAIN Voting :
         Approves(h) => Len(Voting[h].ayes) >= Voting[h].threshold]_vars
=============================================================================
