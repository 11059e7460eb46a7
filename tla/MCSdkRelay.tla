----------------------------- MODULE MCSdkRelay -----------------------------
(* Instances of SdkRelay for TLC. *)
EXTENDS SdkRelay

CONSTANTS l1, l2, d1, c1, c2

OneDestination  == [l \in {l1, l2} |-> d1]

(* Listeners that replace each other while the Relay stays, a Listener or  *)
(* dials that share a session with the Relay being closed.                 *)
ListenersOrDials ==
    {[calls |-> {l1, l2}, closes |-> FALSE],
     [calls |-> {l1}, closes |-> TRUE], [calls |-> {l2}, closes |-> TRUE],
     [calls |-> {c1, c2}, closes |-> TRUE]}

EveryOperation ==
    [c \in {l1, l2, c1, c2} |-> {"cancel", "close", "drop", "accept", "offer"}]

CallSymmetry == Permutations({l1, l2}) \union Permutations({c1, c2})
=============================================================================
