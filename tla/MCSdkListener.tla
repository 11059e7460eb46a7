--------------------------- MODULE MCSdkListener ---------------------------
(* An instance of SdkListener for TLC. *)
EXTENDS SdkListener

CONSTANTS l1, l2, l3, d1, d2

TwoDestinations == (l1 :> d1) @@ (l2 :> d2) @@ (l3 :> d1)

(* Two Listeners of different destinations, or one with every operation    *)
(* while the Relay may be closed.                                          *)
SharedOrAlone ==
    {[calls |-> {l1, l2}, closes |-> FALSE], [calls |-> {l3}, closes |-> TRUE]}

FewOrEvery ==
    [l \in {l1, l2} |-> {"accept", "drop"}]
      @@ (l3 :> {"cancel", "close", "drop", "accept", "offer"})
=============================================================================
