---------------------------- MODULE MCIpfsSystem ----------------------------
(***************************************************************************)
(* Small systems for TLC.                                                  *)
(***************************************************************************)
EXTENDS IpfsSystem, TLC

CONSTANTS alice, bob, cid1, data1, node1, node2

RawCid == [d \in Data |-> cid1]
=============================================================================
