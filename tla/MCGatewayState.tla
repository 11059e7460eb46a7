--------------------------- MODULE MCGatewayState ---------------------------
(* Instances of GatewayState for TLC. *)
EXTENDS GatewayState, TLC

(* Sessions, bindings and keys are interchangeable names (uuids). *)
Symmetry ==
    Permutations(Sessions) \cup Permutations(Bindings) \cup Permutations(Keys)
=============================================================================
