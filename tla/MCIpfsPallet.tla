---------------------------- MODULE MCIpfsPallet ----------------------------
(* pallet-ipfs with two cids and two accounts, or one. *)
EXTENDS IpfsPallet, TLC

CONSTANTS alice, bob, cid1, cid2, data1

MCAccounts == {alice, bob}
MCCids == {cid1, cid2}
MCData == {data1}
Symmetry == Permutations(MCAccounts) \cup Permutations(MCCids)
=============================================================================
