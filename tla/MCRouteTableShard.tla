------------------------- MODULE MCRouteTableShard -------------------------
(***************************************************************************)
(* A small shard: two Gateways with one session each, two bindings, two    *)
(* destinations of this shard and one of another.                          *)
(***************************************************************************)
EXTENDS RouteTableShard

CONSTANTS g1, g2, s1, b1, b2, d1, d2, d3, shard1, shard2, l1, l2

MCAuthority == [d \in Destinations |-> IF d = d3 THEN shard2 ELSE shard1]

Own(g, b, d) ==
    [identity |-> [gateway |-> g, session |-> s1, binding |-> b], destination |-> d]

(* Snapshots of the first Gateway and one of the second, which either may  *)
(* send; an empty, an ambiguous, a repeated and a misdirected one.         *)
MCSnapshotInputs ==
    LET offered == {{Own(g1, b1, d)} : d \in {d1, d2}}
                   \cup {{Own(g1, b1, d1), Own(g1, b2, d2)}, {Own(g2, b1, d1)}}
                   \cup {{}, {Own(g1, b1, d1), Own(g1, b1, d2)},
                         {Own(g1, b1, d1), Own(g1, b2, d1)}, {Own(g1, b1, d3)}}
    IN  {S \in offered : S \subseteq Projections}
=============================================================================
