---------------------------- MODULE MCMembersDiff ----------------------------
(***************************************************************************)
(* Every vector of up to MaxLen of the accounts.                           *)
(***************************************************************************)
EXTENDS MembersDiff, SequencesExt

CONSTANT MaxLen

MCVectors == SeqOf(Accounts, MaxLen)
=============================================================================
