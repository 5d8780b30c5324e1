---------------------------- MODULE ClientEngine ----------------------------
(***************************************************************************)
(* The client connection engine, rclweb/src/engine: application commands   *)
(* and received packets in, outbound packets and application events out.   *)
(* One host event is one step; a poll is a run of them.  Retained buffers  *)
(* and leases are the subject of ClientLeases.                             *)
(***************************************************************************)
EXTENDS R2wpLink

VARIABLES
    cSession,       \* the engine's Session
    cStarted,       \* Start was handled
    cClosed,        \* the engine failed or was closed: it ignores all input
    cSeqOut,        \* control_seq_out
    cSeqIn,         \* control_seq_in
    cPending,       \* pending_opens: [ChannelIds -> kind, or NoKind]
    cActive,        \* active_* tables: [ChannelIds -> ActiveEntry]
    cDelivered,     \* data frames handed to the application, per channel
    cAnswers        \* answers to opens handed to the application, per channel

tableVars == <<cPending, cActive>>
appVars == <<cDelivered, cAnswers>>
clientVars == <<cSession, cStarted, cClosed, cSeqOut, cSeqIn, cPending,
                cActive, cDelivered, cAnswers>>

Inactive == [kind |-> NoKind, reliable |-> FALSE, next |-> 0]

ClientInit ==
    /\ cSession = NewSession
    /\ cStarted = FALSE
    /\ cClosed = FALSE
    /\ cSeqOut = 0
    /\ cSeqIn = 0
    /\ cPending = [c \in ChannelIds |-> NoKind]
    /\ cActive = [c \in ChannelIds |-> Inactive]
    /\ cDelivered = [c \in ChannelIds |-> <<>>]
    /\ cAnswers = [c \in ChannelIds |-> 0]

-----------------------------------------------------------------------------
\* Fault: a close is sent and not recorded in the session.
ClientPushControlUnrecorded(m) ==
    /\ cSession' = IF m.type = "CloseChannel" THEN cSession
                                              ELSE AfterControl(cSession, m)
    /\ cSeqOut' = cSeqOut + 1
    /\ c2g' = Sent(c2g, <<Control(m, cSeqOut)>>)

\* push_control: refused by the engine's own session, nothing is sent.
ClientPushControl(m) ==
    /\ cSession' = AfterControl(cSession, m)
    /\ cSeqOut' = cSeqOut + 1
    /\ c2g' = Sent(c2g, <<Control(m, cSeqOut)>>)

\* fail: Error and Closed events; the transport is left to the host.
ClientFail ==
    /\ cClosed' = TRUE
    /\ UNCHANGED <<cStarted, cSeqOut, tableVars, appVars, linkVars>>

-----------------------------------------------------------------------------
(* Application commands. *)

ClientStart ==
    /\ ~cClosed
    /\ ~cStarted
    /\ cStarted' = TRUE
    /\ cSession' = AfterBootstrap(cSession, [type |-> "ClientHello"])
    /\ c2g' = Sent(c2g, <<Bootstrap("ClientHello")>>)
    /\ UNCHANGED <<cClosed, cSeqOut, cSeqIn, tableVars, appVars, g2c, up>>

\* A command that sends one control message and on success moves the tables.
ClientCommand(m, pending, active) ==
    /\ ~cClosed
    /\ IF AcceptsControl(cSession, m, Client)
       THEN /\ ClientPushControl(m)
            /\ cPending' = pending
            /\ cActive' = active
            /\ UNCHANGED <<cStarted, cClosed, appVars, g2c, up>>
       ELSE ClientFail /\ UNCHANGED cSession
    /\ UNCHANGED cSeqIn

ClientAuthenticate ==
    ClientCommand([type |-> "Authenticate"], cPending, cActive)

\* Subscribe, Publish, OpenService, OpenAction.  An open whose type is not
\* in the registry is refused locally and leaves no trace.
ClientOpen(c, kind) ==
    ClientCommand([type |-> "OpenChannel", ch |-> c, kind |-> kind],
                  [cPending EXCEPT ![c] = kind], cActive)

\* Fault: the active table keeps the closed channel.
ClientUnsubscribeKeeping(c) ==
    ClientCommand([type |-> "CloseChannel", ch |-> c],
                  [cPending EXCEPT ![c] = NoKind], cActive)

\* Unsubscribe closes a channel of any kind.
ClientUnsubscribe(c) ==
    ClientCommand([type |-> "CloseChannel", ch |-> c],
                  [cPending EXCEPT ![c] = NoKind],
                  [cActive EXCEPT ![c] = Inactive])

\* send_sample_payload: a sample the session refuses takes no sequence number.
ClientSendSample(c) ==
    /\ ~cClosed
    /\ cActive[c].kind = "TopicPublish"
    /\ LET f == Sample(c, cActive[c].reliable, 0)
       IN  /\ AcceptsData(cSession, f, Client)
           /\ c2g' = Sent(c2g, <<Data(f, cActive[c].next)>>)
    /\ cActive' = [cActive EXCEPT ![c].next = @ + 1]
    /\ UNCHANGED <<cSession, cStarted, cClosed, cSeqOut, cSeqIn, cPending,
                   appVars, g2c, up>>

\* send_service_action_frame: one counter for all operations of the channel,
\* advanced before the session is asked.
ClientSendOperation(c, opcode, opid) ==
    /\ ~cClosed
    /\ IsService(cActive[c].kind) \/ IsAction(cActive[c].kind)
    /\ cActive' = [cActive EXCEPT ![c].next = @ + 1]
    /\ LET f == Operation(opcode, c, opid, opcode \in ReliableRequired)
       IN  c2g' = IF AcceptsData(cSession, f, Client)
                  THEN Sent(c2g, <<Data(f, cActive[c].next)>>)
                  ELSE c2g
    /\ UNCHANGED <<cSession, cStarted, cClosed, cSeqOut, cSeqIn, cPending,
                   appVars, g2c, up>>

\* handle_timer past the heartbeat deadline.
ClientHeartbeat ==
    /\ ~cClosed
    /\ cSession.phase = "Ready"
    /\ ClientPushControl(Heartbeat)
    /\ UNCHANGED <<cStarted, cClosed, cSeqIn, tableVars, appVars, g2c, up>>

ClientClose ==
    /\ ~cClosed
    /\ cClosed' = TRUE
    /\ UNCHANGED <<cSession, cStarted, cSeqOut, cSeqIn, tableVars, appVars,
                   linkVars>>

-----------------------------------------------------------------------------
(* Received packets. *)

\* The packet is refused: wrong plane, refused by the session, or a control
\* frame out of sequence (whose message the session has already applied).
ClientReceiveBad ==
    /\ ~cClosed /\ g2c # <<>>
    /\ LET p == Head(g2c)
           expectsBootstrap == ~InSelectedPlane(cSession.phase)
           refused ==
               \/ expectsBootstrap # (p.plane = "bootstrap")
               \/ p.plane = "bootstrap" /\ ~AcceptsBootstrap(cSession, p.msg, Server)
               \/ p.plane = "control" /\ ~AcceptsControl(cSession, p.msg, Server)
               \/ p.plane = "data" /\ ~AcceptsData(cSession, p.msg, Server)
           outOfSequence == p.plane = "control" /\ p.seq # cSeqIn
       IN  /\ refused \/ outOfSequence
           /\ cSession' = IF refused THEN cSession
                                     ELSE AfterControl(cSession, p.msg)
    /\ cClosed' = TRUE
    /\ g2c' = Tail(g2c)
    /\ UNCHANGED <<cStarted, cSeqOut, cSeqIn, tableVars, appVars, c2g, up>>

\* handle_bootstrap
ClientReceiveBootstrap ==
    /\ ~cClosed /\ g2c # <<>>
    /\ ~InSelectedPlane(cSession.phase)
    /\ LET p == Head(g2c)
       IN  /\ p.plane = "bootstrap"
           /\ AcceptsBootstrap(cSession, p.msg, Server)
           /\ cSession' = AfterBootstrap(cSession, p.msg)
           /\ cClosed' = (p.msg.type = "BootstrapError")
    /\ g2c' = Tail(g2c)
    /\ UNCHANGED <<cStarted, cSeqOut, cSeqIn, tableVars, appVars, c2g, up>>

\* The control frame at the head of the stream, when it is acceptable.
ClientAcceptsControl(m) ==
    /\ ~cClosed /\ g2c # <<>>
    /\ InSelectedPlane(cSession.phase)
    /\ LET p == Head(g2c)
       IN  /\ p.plane = "control" /\ p.msg = m /\ p.seq = cSeqIn
           /\ AcceptsControl(cSession, m, Server)
    /\ cSeqIn' = cSeqIn + 1
    /\ g2c' = Tail(g2c)
    /\ UNCHANGED <<cStarted, up>>

\* Fault: a refused open is dropped without telling the application.
ClientChannelReadySilent(m) ==
    /\ m.type = "ChannelReady"
    /\ ClientAcceptsControl(m)
    /\ cSession' = AfterControl(cSession, m)
    /\ cPending' = [cPending EXCEPT ![m.ch] = NoKind]
    /\ cAnswers' = IF IsSuccess(m.result) THEN [cAnswers EXCEPT ![m.ch] = @ + 1]
                                          ELSE cAnswers
    /\ UNCHANGED <<cClosed, cSeqOut, cActive, cDelivered, c2g>>

\* handle_control, ChannelReady: the open is answered once, and the channel
\* goes to the table of the kind it was opened with.
ClientChannelReady(m) ==
    /\ m.type = "ChannelReady"
    /\ ClientAcceptsControl(m)
    /\ cSession' = AfterControl(cSession, m)
    /\ cPending' = [cPending EXCEPT ![m.ch] = NoKind]
    /\ cActive' =
          IF IsSuccess(m.result)
          THEN [cActive EXCEPT ![m.ch] =
                   [kind |-> IF cPending[m.ch] = NoKind THEN "TopicSubscribe"
                                                        ELSE cPending[m.ch],
                    reliable |-> m.reliable, next |-> 0]]
          ELSE cActive
    /\ cAnswers' = [cAnswers EXCEPT ![m.ch] = @ + 1]
    /\ UNCHANGED <<cClosed, cSeqOut, cDelivered, c2g>>

\* handle_control, Heartbeat: answered with a heartbeat.
ClientHeartbeatEcho ==
    /\ ClientAcceptsControl(Heartbeat)
    /\ ClientPushControl(Heartbeat)
    /\ UNCHANGED <<cClosed, tableVars, appVars>>

\* handle_control, Error.
ClientError(m) ==
    /\ m.type = "Error"
    /\ ClientAcceptsControl(m)
    /\ cSession' = AfterControl(cSession, m)
    /\ cClosed' = IsSessionError(cSession, m)
    /\ IF FailsPendingChannel(cSession, m)
       THEN /\ cPending' = [cPending EXCEPT ![m.ch] = NoKind]
            /\ cAnswers' = [cAnswers EXCEPT ![m.ch] = @ + 1]
       ELSE UNCHANGED <<cPending, cAnswers>>
    /\ UNCHANGED <<cSeqOut, cActive, cDelivered, c2g>>

\* SessionReady, GraphSnapshot, GraphDelta: events for the application.
ClientOtherControl(m) ==
    /\ m.type \notin {"ChannelReady", "Heartbeat", "Error"}
    /\ ClientAcceptsControl(m)
    /\ cSession' = AfterControl(cSession, m)
    /\ UNCHANGED <<cClosed, cSeqOut, tableVars, appVars, c2g>>

\* handle_sample, handle_service_action.  The engine does not look at the
\* sequence number.  ACTION_CANCEL has no application event.
ClientReceiveData ==
    /\ ~cClosed /\ g2c # <<>>
    /\ InSelectedPlane(cSession.phase)
    /\ LET p == Head(g2c)
           f == p.msg
       IN  /\ p.plane = "data"
           /\ AcceptsData(cSession, f, Server)
           /\ cDelivered' =
                 IF f.opcode = "ACTION_CANCEL"
                 THEN cDelivered
                 ELSE [cDelivered EXCEPT ![f.ch] =
                         Append(@, [opcode |-> f.opcode, opid |-> f.opid,
                                    from |-> f.from, seq |-> p.seq])]
    /\ g2c' = Tail(g2c)
    /\ UNCHANGED <<cSession, cStarted, cClosed, cSeqOut, cSeqIn, tableVars,
                   cAnswers, c2g, up>>

\* A closed engine only repeats its Closed event.
ClientDiscard ==
    /\ cClosed /\ g2c # <<>>
    /\ g2c' = Tail(g2c)
    /\ UNCHANGED <<clientVars, c2g, up>>

ClientReceive ==
    \/ ClientReceiveBad
    \/ ClientReceiveBootstrap
    \/ g2c # <<>> /\ LET m == Head(g2c).msg
                     IN  /\ Head(g2c).plane = "control"
                         /\ \/ ClientChannelReady(m)
                            \/ m = Heartbeat /\ ClientHeartbeatEcho
                            \/ ClientError(m)
                            \/ ClientOtherControl(m)
    \/ ClientReceiveData
    \/ ClientDiscard
=============================================================================
