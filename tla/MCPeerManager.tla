--------------------------- MODULE MCPeerManager ---------------------------
(* Instances of PeerManager for TLC. *)
EXTENDS PeerManager, TLC

CONSTANTS o1, o2, x1, x2, g1, i1, i2

(* Two calls to one Gateway: with one identity, used again, and with two. *)
SharedIdentity == o1 :> x1 @@ o2 :> x1
OwnIdentity == o1 :> x1 @@ o2 :> x2
BothToOne == o1 :> g1 @@ o2 :> g1

(* Two OPENs and a connection of the other Gateway, or two connections, of *)
(* which the later is a duplicate.                                         *)
OpensOrDuplicates == {{o1, o2, i1}, {i1, i2}}
OpensCrossing == {{o1, o2, i1}}

(* Sound where the calls share their identity as well as their target. *)
CallSymmetry == Permutations({o1, o2})

=============================================================================
