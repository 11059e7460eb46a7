----------------------------- MODULE MCSdkPipe -----------------------------
(* Instances of SdkPipe for TLC. *)
EXTENDS SdkPipe

CONSTANTS p1, p2

Only(operations) == [p \in Pipes |-> IF p = p1 THEN operations ELSE {}]

(* One Pipe with all that its two applications do, or without a reader and *)
(* with calls given up, or two Pipes whose writers compete for the lane    *)
(* and give up.                                                            *)
OnePipeOrTwoWriters ==
    {Only(AllOperations \ {"cancel"}), Only(AllOperations \ {"read", "reset"}),
     [p \in Pipes |-> {"write", "flush", "cancel"}]}
=============================================================================
