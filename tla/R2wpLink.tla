------------------------------ MODULE R2wpLink ------------------------------
(***************************************************************************)
(* The connection between a browser engine and the gateway: one reliable,  *)
(* ordered message stream in each direction (a WebSocket, or the framed    *)
(* bidirectional stream of WebTransport), lost as a whole when it breaks.  *)
(* A packet is a bootstrap record, a control frame or a data frame, with   *)
(* the sequence number the frame header carries.                           *)
(***************************************************************************)
EXTENDS R2wpSession, Sequences

CONSTANT OpIds      \* operation ids that calls and goals may use

VARIABLES
    c2g,            \* packets on their way from the client to the gateway
    g2c,            \* packets on their way from the gateway to the client
    up              \* whether the transport is still connected

linkVars == <<c2g, g2c, up>>

LinkInit == c2g = <<>> /\ g2c = <<>> /\ up = TRUE

Bootstrap(type) == [plane |-> "bootstrap", msg |-> [type |-> type], seq |-> 0]
Control(m, seq) == [plane |-> "control", msg |-> m, seq |-> seq]
Data(f, seq) == [plane |-> "data", msg |-> f, seq |-> seq]

\* A topic sample.  from is the identity of the payload: the backend entity
\* that took it, or 0 for a sample published by the client.
Sample(ch, reliable, from) ==
    [opcode |-> "ROS_SAMPLE", ch |-> ch, opid |-> "none",
     reliable |-> reliable, from |-> from]

\* A frame of the operation stream opid.
Operation(opcode, ch, opid, reliable) ==
    [opcode |-> opcode, ch |-> ch, opid |-> opid, reliable |-> reliable,
     from |-> 0]

SessionError == [type |-> "Error", ch |-> NoChannel, scope |-> "session"]
ChannelError(ch) == [type |-> "Error", ch |-> ch, scope |-> "channel"]
Heartbeat == [type |-> "Heartbeat"]

IsService(kind) == kind \in {"ServiceClient", "ServiceServer"}
IsAction(kind) == kind \in {"ActionClient", "ActionServer"}

\* A packet written to a transport that is gone is lost.
Sent(link, packets) == IF up THEN link \o packets ELSE link

TransportLost ==
    /\ up
    /\ up' = FALSE
    /\ c2g' = <<>>
    /\ g2c' = <<>>
=============================================================================
