----------------------------- MODULE MCStateDb -----------------------------
(* A small block tree for StateDb: a genesis and two branches, of which the *)
(* longer one can be inserted to after it was discarded.                    *)
EXTENDS StateDb

CONSTANTS g, a1, b1, a2, b2, b3, k1, k2, k3

MCBlocks == {g, a1, b1, a2, b2, b3}
MCParentOf == g :> NoBlock @@ a1 :> g @@ b1 :> g @@ a2 :> a1 @@ b2 :> b1 @@ b3 :> b2
MCNumberOf == g :> 0 @@ a1 :> 1 @@ b1 :> 1 @@ a2 :> 2 @@ b2 :> 2 @@ b3 :> 3
MCStateOf ==
  g :> {k1, k2} @@ b1 :> {k1} @@ b2 :> {k3} @@ a1 :> {k2, k3} @@ a2 :> {k1, k2} @@ b3 :> {k1, k3}

=============================================================================
