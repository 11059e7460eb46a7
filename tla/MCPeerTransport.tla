-------------------------- MODULE MCPeerTransport --------------------------
(* Instances of PeerTransport for TLC. *)
EXTENDS PeerTransport

OneEach == [e \in Ends |-> 1]
OneStream == [e \in Ends |-> IF e = "Dialer" THEN 1 ELSE 0]
OnlyDialer(n) == [e \in Ends |-> IF e = "Dialer" THEN n ELSE 0]

AllCommands == {"Opened", "Failed", "Data", "Fin", "Close", "Reset"}

Input(opens, data, commands, happens) ==
    [opens |-> opens, data |-> data, commands |-> commands, happens |-> happens]

(* One stream (and an OPEN more than there are StreamIds) with every       *)
(* command and failure; one stream with two DATA in each direction and     *)
(* each way it can end; or one stream from each end, with two DATA in each *)
(* direction, that share the writer's channel.                             *)
OneStreamOrTwo ==
    {Input(OnlyDialer(2), 0, AllCommands, {"open_timeout", "close", "disconnect"}),
     Input(OnlyDialer(2), 1, AllCommands, {"open_timeout", "disconnect"}),
     Input(OnlyDialer(1), 2, {"Opened", "Data", "Fin", "Close"}, {}),
     Input(OnlyDialer(1), 2, {"Opened", "Data", "Fin"}, {"close"}),
     Input(OnlyDialer(1), 2, {"Opened", "Data", "Reset"}, {"disconnect"}),
     Input(OneEach, 2, {"Opened", "Data"}, {})}

(* Streams and heartbeats over a socket that may stop. *)
Probed ==
    {Input(OnlyDialer(1), 0, {"Opened", "Fin"}, Ends \union {"open_timeout"})}
=============================================================================
