----------------------------- MODULE MCCouncil -----------------------------
(***************************************************************************)
(* Small councils for TLC.  Account 3 is not a member at genesis.          *)
(***************************************************************************)
EXTENDS Council

CONSTANTS remark, members, disapprove, token  \* motions

MCGenesis == <<1, 2>>
MCSetMembersOf == [m \in {members} |-> [members |-> <<3, 2>>, prime |-> 3]]
MCDisapproveOf == [m \in {disapprove} |-> remark]
MCSetTokenOf == [m \in {token} |-> 1]

\* Without the calls that change the council or its motions.
NoSetMembers == [m \in {} |-> [members |-> <<>>, prime |-> None]]
NoDisapprove == [m \in {} |-> remark]
NoSetToken == [m \in {} |-> 0]
=============================================================================
