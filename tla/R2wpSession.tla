---------------------------- MODULE R2wpSession ----------------------------
(***************************************************************************)
(* The R2WP session state machine, rclweb/src/session.  Both peers run the *)
(* same machine and feed it every message in both directions, those they   *)
(* receive (ingest) and those they send (record_send).  It is a pure       *)
(* function of (state, message, sender), so this module has no variables:  *)
(* Accepts says when a message is legal and After gives the new state.     *)
(* Every check precedes every assignment in the code, so a rejected        *)
(* message leaves the state as it was.                                     *)
(*                                                                         *)
(* Correlation ids and the selected wire version are recorded by the code  *)
(* but never decide a transition, and are left out.  Field shapes (a       *)
(* missing channel id, a value out of its registry) are refused by the     *)
(* control decoder before a message gets here.                             *)
(***************************************************************************)
EXTENDS Integers

CONSTANTS
    ChannelIds,     \* channel ids under study; 0 is reserved for control
    MaxGeneration   \* largest graph generation (u64::MAX in the code)

ASSUME ChannelIdsAssumption == ChannelIds \subseteq Nat
ASSUME MaxGenerationAssumption == MaxGeneration \in Nat

-----------------------------------------------------------------------------
(* Roles, phases, channels. *)

Client == "Client"
Server == "Server"
Role == {Client, Server}

Phase == {"AwaitClientHello", "AwaitServerHello", "SelectedAwaitAuthenticate",
          "SelectedAwaitSessionReady", "Ready", "BootstrapFailed", "Failed"}

InSelectedPlane(phase) ==
    phase \in {"SelectedAwaitAuthenticate", "SelectedAwaitSessionReady",
               "Ready", "Failed"}

IsTerminal(phase) == phase \in {"BootstrapFailed", "Failed"}

OperationKind == {"TopicSubscribe", "TopicPublish", "ServiceClient",
                  "ServiceServer", "ActionClient", "ActionServer"}

ChannelState == {"Unused", "Pending", "Active", "Failed", "Closed"}

NoKind == "NoKind"
NoGeneration == -1

\* The table holds an entry for an id iff its state here is not "Unused".
ChannelEntry == [state : ChannelState, kind : OperationKind \cup {NoKind}]

UnusedEntry == [state |-> "Unused", kind |-> NoKind]

SessionState ==
    [phase : Phase,
     chan : [ChannelIds -> ChannelEntry],
     generation : (0 .. MaxGeneration) \cup {NoGeneration}]

NewSession ==
    [phase |-> "AwaitClientHello",
     chan |-> [c \in ChannelIds |-> UnusedEntry],
     generation |-> NoGeneration]

-----------------------------------------------------------------------------
(* Messages. *)

BootstrapRecord == [type : {"ClientHello", "ServerHello", "BootstrapError"}]

\* Control kinds whose fields never decide a transition.  The Resume pair is
\* the parked session-resume extension.
PlainControl ==
    [type : {"Authenticate", "SessionReady", "SessionResume",
             "SessionResumeResult", "SchemaRequest", "SchemaResponse",
             "SchemaAdvertise", "ClockSync", "Heartbeat"}]

ChannelResult == {"Allow", "Deny", "Limited", "Error"}
IsSuccess(result) == result \in {"Allow", "Limited"}

ErrorScope == {"session", "channel", "operation"}
NoChannel == -1

ControlMessage ==
    PlainControl
      \cup [type : {"OpenChannel"}, ch : ChannelIds, kind : OperationKind]
      \cup [type : {"ChannelReady"}, ch : ChannelIds, result : ChannelResult]
      \cup [type : {"CloseChannel"}, ch : ChannelIds]
      \cup [type : {"Error"}, ch : ChannelIds \cup {NoChannel},
            scope : ErrorScope]
      \cup [type : {"GraphSnapshot"}, gen : 0 .. MaxGeneration]
      \cup [type : {"GraphDelta"}, base : 0 .. MaxGeneration,
            gen : 0 .. MaxGeneration]

ServiceActionOpcode ==
    {"SERVICE_REQUEST", "SERVICE_RESPONSE", "ACTION_GOAL", "ACTION_FEEDBACK",
     "ACTION_RESULT", "ACTION_STATUS", "ACTION_CANCEL"}

Opcode == {"ROS_SAMPLE", "MEDIA"} \cup ServiceActionOpcode

-----------------------------------------------------------------------------
(* Who may send what. *)

\* Fault: directions are not enforced.
ControlSendersUnchecked(type) == Role

\* control_sender: the roles from which a control kind is legal.
ControlSenders(type) ==
    CASE type \in {"Authenticate", "SessionResume", "OpenChannel",
                   "SchemaRequest"} -> {Client}
      [] type \in {"SessionReady", "SessionResumeResult", "ChannelReady",
                   "GraphSnapshot", "GraphDelta", "SchemaAdvertise",
                   "SchemaResponse"} -> {Server}
      [] OTHER -> Role

BootstrapSenders(type) == IF type = "ClientHello" THEN {Client} ELSE {Server}

ReadyRequired ==
    {"GraphSnapshot", "GraphDelta", "SchemaRequest", "SchemaResponse",
     "SchemaAdvertise", "OpenChannel", "ChannelReady", "CloseChannel",
     "ClockSync", "Heartbeat"}

\* OperationKind::opcode_sender together with allows_opcode: the roles from
\* which an opcode is legal on a channel of this kind (none: not allowed).
OpcodeSenders(kind, opcode) ==
    LET request == {"SERVICE_REQUEST"}
        response == {"SERVICE_RESPONSE"}
        command == {"ACTION_GOAL", "ACTION_CANCEL"}
        report == {"ACTION_FEEDBACK", "ACTION_RESULT", "ACTION_STATUS"}
        fromClient ==
            [k \in OperationKind |->
                CASE k = "TopicSubscribe" -> {}
                  [] k = "TopicPublish" -> {"ROS_SAMPLE"}
                  [] k = "ServiceClient" -> request
                  [] k = "ServiceServer" -> response
                  [] k = "ActionClient" -> command
                  [] k = "ActionServer" -> report]
        fromServer ==
            [k \in OperationKind |->
                CASE k = "TopicSubscribe" -> {"ROS_SAMPLE"}
                  [] k = "TopicPublish" -> {}
                  [] k = "ServiceClient" -> response
                  [] k = "ServiceServer" -> request
                  [] k = "ActionClient" -> report
                  [] k = "ActionServer" -> command]
    IN  {r \in Role : /\ r = Client => opcode \in fromClient[kind]
                      /\ r = Server => opcode \in fromServer[kind]}

\* Opcodes of the reliable service/action streams.
ReliableRequired ==
    {"SERVICE_REQUEST", "SERVICE_RESPONSE", "ACTION_GOAL", "ACTION_CANCEL",
     "ACTION_RESULT"}

-----------------------------------------------------------------------------
(* apply_bootstrap *)

AcceptsBootstrap(s, m, sender) ==
    /\ ~IsTerminal(s.phase)
    /\ ~InSelectedPlane(s.phase)
    /\ sender \in BootstrapSenders(m.type)
    /\ s.phase = IF m.type = "ClientHello" THEN "AwaitClientHello"
                                           ELSE "AwaitServerHello"

AfterBootstrap(s, m) ==
    [s EXCEPT !.phase =
        CASE m.type = "ClientHello" -> "AwaitServerHello"
          [] m.type = "ServerHello" -> "SelectedAwaitAuthenticate"
          [] m.type = "BootstrapError" -> "BootstrapFailed"]

-----------------------------------------------------------------------------
(* apply_error and its effects *)

\* The Error pairs with an open that is still pending.
FailsPendingChannel(s, m) ==
    /\ s.phase = "Ready"
    /\ m.scope # "operation"
    /\ m.ch \in ChannelIds
    /\ s.chan[m.ch].state = "Pending"

\* effects.operation_cancelled
CancelsOperation(s, m) == s.phase = "Ready" /\ m.scope = "operation"

\* effects.session_error
IsSessionError(s, m) ==
    /\ m.type = "Error"
    /\ ~CancelsOperation(s, m)
    /\ ~FailsPendingChannel(s, m)

AcceptsError(s, m) ==
    CancelsOperation(s, m) =>
        m.ch \in ChannelIds /\ s.chan[m.ch].state = "Active"

\* In phase Ready a session error is only reported to the caller: the phase
\* stays Ready.
AfterError(s, m) ==
    CASE s.phase # "Ready" -> [s EXCEPT !.phase = "Failed"]
      [] FailsPendingChannel(s, m) -> [s EXCEPT !.chan[m.ch].state = "Failed"]
      [] OTHER -> s

-----------------------------------------------------------------------------
(* apply_open_channel, apply_channel_ready, apply_close_channel *)

\* Fault: the id of a closed channel may be opened again.
AcceptsOpenChannelReusing(s, m) ==
    m.ch # 0 /\ s.chan[m.ch].state \in {"Unused", "Closed"}

AcceptsOpenChannel(s, m) == m.ch # 0 /\ s.chan[m.ch].state = "Unused"

AfterOpenChannel(s, m) ==
    [s EXCEPT !.chan[m.ch] = [state |-> "Pending", kind |-> m.kind]]

AcceptsChannelReady(s, m) == s.chan[m.ch].state = "Pending"

AfterChannelReady(s, m) ==
    [s EXCEPT !.chan[m.ch].state = IF IsSuccess(m.result) THEN "Active"
                                                          ELSE "Failed"]

\* Fault: a pending open can be closed before it is answered.
AcceptsCloseChannelEarly(s, m) == s.chan[m.ch].state \in {"Pending", "Active"}

AcceptsCloseChannel(s, m) == s.chan[m.ch].state = "Active"

AfterCloseChannel(s, m) == [s EXCEPT !.chan[m.ch].state = "Closed"]

-----------------------------------------------------------------------------
(* apply_graph_snapshot, apply_graph_delta *)

SaturatingSucc(g) == IF g = MaxGeneration THEN g ELSE g + 1

AcceptsGraphDelta(s, m) ==
    /\ s.generation # NoGeneration
    /\ m.base = s.generation
    /\ m.gen = SaturatingSucc(m.base)

AfterGraph(s, m) == [s EXCEPT !.generation = m.gen]

-----------------------------------------------------------------------------
(* apply_control *)

AcceptsControl(s, m, sender) ==
    /\ ~IsTerminal(s.phase)
    /\ InSelectedPlane(s.phase)
    /\ sender \in ControlSenders(m.type)
    /\ m.type \notin {"SessionResume", "SessionResumeResult"}
    /\ m.type \in ReadyRequired => s.phase = "Ready"
    /\ m.type = "Authenticate" => s.phase = "SelectedAwaitAuthenticate"
    /\ m.type = "SessionReady" => s.phase = "SelectedAwaitSessionReady"
    /\ m.type = "Error" => AcceptsError(s, m)
    /\ m.type = "OpenChannel" => AcceptsOpenChannel(s, m)
    /\ m.type = "ChannelReady" => AcceptsChannelReady(s, m)
    /\ m.type = "CloseChannel" => AcceptsCloseChannel(s, m)
    /\ m.type = "GraphDelta" => AcceptsGraphDelta(s, m)

AfterControl(s, m) ==
    CASE m.type = "Authenticate" ->
            [s EXCEPT !.phase = "SelectedAwaitSessionReady"]
      [] m.type = "SessionReady" -> [s EXCEPT !.phase = "Ready"]
      [] m.type = "Error" -> AfterError(s, m)
      [] m.type = "OpenChannel" -> AfterOpenChannel(s, m)
      [] m.type = "ChannelReady" -> AfterChannelReady(s, m)
      [] m.type = "CloseChannel" -> AfterCloseChannel(s, m)
      [] m.type \in {"GraphSnapshot", "GraphDelta"} -> AfterGraph(s, m)
      [] OTHER -> s

-----------------------------------------------------------------------------
(* apply_ros_sample, apply_service_action_frame: data never changes the    *)
(* session state.                                                          *)

\* A data frame has an opcode, a channel, the ROS_RELIABLE flag, and for the
\* service/action opcodes an operation id, "zero" being the all-zero id.
AcceptsData(s, f, sender) ==
    /\ s.phase = "Ready"
    /\ f.ch \in ChannelIds /\ s.chan[f.ch].state = "Active"
    /\ sender \in OpcodeSenders(s.chan[f.ch].kind, f.opcode)
    /\ f.opcode \in ServiceActionOpcode =>
          /\ f.opid # "none"
          /\ f.opid = "zero" => f.opcode = "ACTION_STATUS"
    /\ f.opcode \in ReliableRequired => f.reliable
=============================================================================
