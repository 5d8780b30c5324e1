----------------------------- MODULE SessionWire -----------------------------
(***************************************************************************)
(* The session of one peer behind its codecs: the packets of both programs *)
(* and of a foreign peer, as bytes, are parsed by the parser of the        *)
(* session's plane and what was read is given to the Session object        *)
(* (ingest for a packet that arrived, record_send for one that is about to *)
(* leave: push_control and its client counterpart read every packet they   *)
(* built before they send it).                                             *)
(***************************************************************************)
EXTENDS SessionPeer, R2wpBuilders

VARIABLE wire       \* <<>> or <<the packet being read>>

wireVars == <<session, ladder, opens, wire>>

-----------------------------------------------------------------------------
(* What a parsed packet is to the session: session/transition.rs reads the *)
(* fields below and no others.                                             *)

BootstrapName == <<"ClientHello", "ServerHello", "BootstrapError">>

ControlKindName ==
    <<"Authenticate", "SessionReady", "GraphSnapshot", "GraphDelta",
      "SchemaRequest", "SchemaAdvertise", "SchemaResponse", "OpenChannel",
      "ChannelReady", "CloseChannel", "ClockSync", "Heartbeat",
      "SessionResume", "SessionResumeResult", "Error">>

OpcodeName ==
    <<"CONTROL_CBOR", "ROS_SAMPLE", "SERVICE_REQUEST", "SERVICE_RESPONSE",
      "ACTION_GOAL", "ACTION_FEEDBACK", "ACTION_RESULT", "ACTION_STATUS",
      "ACTION_CANCEL", "MEDIA", "RECORDING", "ASSET">>

\* OperationKind::from_u8: the classes 6 to 8 are no operation.
OperationKindOf ==
    <<"TopicSubscribe", "TopicPublish", "ServiceClient", "ServiceServer",
      "ActionClient", "ActionServer">>

\* ChannelResult::from_u8
ChannelResultOf == <<"Allow", "Deny", "Limited", "Error">>

\* A scope that is neither channel nor operation is treated as the session's.
ErrorScopeOf == <<"session", "channel", "operation", "session">>

\* What apply_control reads of a message.
ControlRead(v) ==
    LET type == ControlKindName[Field(v, 1).uint]
        Uint(key) == Field(v, key).uint
    IN  CASE type = "OpenChannel" ->
                [type |-> type, ch |-> Uint(29), class |-> Uint(30)]
          [] type = "ChannelReady" ->
                [type |-> type, ch |-> Uint(29),
                 result |-> ChannelResultOf[Uint(33) + 1]]
          [] type = "CloseChannel" -> [type |-> type, ch |-> Uint(29)]
          [] type = "Error" ->
                [type |-> type, scope |-> ErrorScopeOf[Uint(49) + 1],
                 ch |-> IF 29 \in Keys(v) THEN Uint(29) ELSE NoChannel]
          [] type = "GraphSnapshot" -> [type |-> type, gen |-> Uint(14)]
          [] type = "GraphDelta" ->
                [type |-> type, base |-> Uint(24), gen |-> Uint(14)]
          [] OTHER -> [type |-> type]

\* What apply_ros_sample and apply_service_action_frame read of a frame.
DataRead(f, extensions) ==
    LET ids == {extensions[i].value :
                    i \in {j \in DOMAIN extensions : extensions[j].type = OperationId}}
    IN  [type |-> "Data", opcode |-> OpcodeName[f.opcode], ch |-> f.channel,
         reliable |-> "ROS_RELIABLE" \in f.flags,
         opid |-> IF ids = {} THEN "none" ELSE CHOOSE id \in ids : TRUE]

\* The message a packet is read as, given the result of its parser.
ReadAs(packet, read) ==
    IF packet.plane = "bootstrap" THEN [type |-> BootstrapName[packet.kind]]
    ELSE IF packet.opcode = ControlCbor THEN ControlRead(read.val)
    ELSE DataRead(packet, read.extensions)

-----------------------------------------------------------------------------
\* The packets under study.  packet is one of R2wpFrame; meant is <<>> for a
\* foreign packet, and for one that a program built holds the message meant and
\* whether its values fit the bounds of the registry.
CONSTANT Packets

\* Parsing is a function of the plane and the packet, and of whether the engine
\* reads it from a retained buffer: what the parsers make of the packets under
\* study, computed once.
Readings ==
    [p \in {w.packet : w \in Packets} |->
        [plane \in {"bootstrap", "frame"} |->
            [retained \in BOOLEAN |-> Parse(plane, p, retained)]]]

Reading(plane, packet, retained) == Readings[packet][plane][retained]

Plane(s) == IF InSelectedPlane(s.phase) THEN "frame" ELSE "bootstrap"

Init0 == Init /\ wire = <<>>

Put(p) ==
    /\ wire = <<>>
    /\ wire' = <<p>>
    /\ UNCHANGED vars

\* Only the engine reads from retained buffers, and only what the server sent.
MayRetain(sender) == {FALSE} \cup {sender = Server}

\* The packet was not encoded or does not parse, or a terminal session does not
\* look at it.
Refuse(retained) ==
    /\ wire # <<>>
    /\ \/ IsTerminal(session.phase)
       \/ Failed(Reading(Plane(session), wire[1].packet, retained))
    /\ wire' = <<>>
    /\ UNCHANGED vars

\* The classes 6 to 8 are no operation of the session.
IsOperation(m) == m.type = "OpenChannel" => m.class < 6

\* apply_open_channel turns the class into an operation kind.
SessionMessage(m) ==
    IF m.type = "OpenChannel"
    THEN [type |-> m.type, ch |-> m.ch, kind |-> OperationKindOf[m.class + 1]]
    ELSE m

\* The session takes the message, or refuses it and stays as it was.
Take(sender, retained) ==
    /\ wire # <<>>
    /\ ~IsTerminal(session.phase)
    /\ \E read \in {Reading(Plane(session), wire[1].packet, retained)} :
          /\ ~Failed(read)
          /\ \E m \in {ReadAs(wire[1].packet, read)} :
              \/ /\ Plane(session) = "bootstrap"
                 /\ ObserveBootstrap(m, sender)
              \/ /\ Plane(session) = "frame" /\ m.type # "Data" /\ IsOperation(m)
                 /\ ObserveControl(SessionMessage(m), sender)
              \/ /\ Plane(session) = "bootstrap"
                 /\ ~AcceptsBootstrap(session, m, sender)
                 /\ UNCHANGED vars
              \/ /\ Plane(session) = "frame" /\ m.type # "Data"
                 /\ IsOperation(m) => ~AcceptsControl(session, SessionMessage(m), sender)
                 /\ UNCHANGED vars
              \/ /\ Plane(session) = "frame" /\ m.type = "Data"
                 /\ UNCHANGED vars
    /\ wire' = <<>>

WireNext ==
    \/ \E p \in Packets : Put(p)
    \/ \E sender \in Role : \E retained \in MayRetain(sender) :
          Refuse(retained) \/ Take(sender, retained)

WireSpec == Init0 /\ [][WireNext]_wireVars

-----------------------------------------------------------------------------
\* What the parser of the packet's own plane makes of it.
OwnReading(packet, retained) ==
    IF Failed(packet) THEN packet ELSE Reading(packet.plane, packet, retained)

(***************************************************************************)
(* Every packet either program can build is read by the parser of its      *)
(* plane, and as the message that was meant, exactly when the values it    *)
(* was given are within the bounds of the registry (fits): the builders,   *)
(* the encoders, the parsers and the shapes agree, for all kinds, support  *)
(* rows, QoS profiles, limits and graphs.  push_control closes the         *)
(* connection on a packet that does not read back, so outside the bounds   *)
(* (a backend message over 4096 bytes, a domain above 232) the session is  *)
(* lost.                                                                   *)
(***************************************************************************)
BuiltMessagesUnderstood ==
    \A w \in ToSet(wire), retained \in BOOLEAN :
        \A read \in {OwnReading(w.packet, retained)} :
            w.meant # <<>> =>
                /\ Failed(read) <=> ~w.meant[1].fits
                /\ ~Failed(read) => ReadAs(w.packet, read) = w.meant[1].message

(***************************************************************************)
(* A message has one encoding: a packet that parses, whoever built it, is  *)
(* byte for byte what the encoders write for the value that was read (the  *)
(* extension area apart).  No two different packets are read as the same   *)
(* control message.                                                        *)
(***************************************************************************)
OneEncoding ==
    \A w \in ToSet(wire), retained \in BOOLEAN :
        \A read \in {OwnReading(w.packet, retained)} :
            ~Failed(read) /\ read.val # Null =>
                \A payload \in {EncodeValue(read.val)} :
                    /\ w.packet.payload = payload
                    /\ w.packet.payloadLen = Size(payload)
                    /\ w.packet.total - w.packet.payloadLen =
                          IF w.packet.plane = "bootstrap" THEN PrefixLength
                          ELSE HeaderLength + AreaSize(w.packet.area)
=============================================================================
