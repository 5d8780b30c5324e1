------------------------- MODULE GatewayConnection --------------------------
(***************************************************************************)
(* One connection of the gateway, rclwebd/src/connection.rs, with the ROS  *)
(* backend it drives.  The connection is one task: a select loop over the  *)
(* transport and three bounded queues the backend fills (samples, service  *)
(* requests, action goals and cancels).  A handler runs to completion      *)
(* before the loop takes the next event, so it is one step here, however   *)
(* long it waits for the backend.                                          *)
(***************************************************************************)
EXTENDS R2wpLink

CONSTANT
    QueueDepth,     \* sample_queue_depth: capacity of each backend queue
    MaxEntities     \* bound: backend entities ever created

VARIABLES
    gSession,       \* the connection's Session
    gLoop,          \* "running", "closing" (out of the loop), "ended"
    gSeqOut,        \* control_seq_out
    gSeqIn,         \* control_seq_in
    gRuntime,       \* channels: [ChannelIds -> ChannelRuntime or NoRuntime]
    gGeneration,    \* graph_generation
    gSamples, gRequests, gGoals,    \* the mpsc queues filled by the backend
    bLive,          \* backend: entities that exist, as [id, ch, kind]
    bCreated        \* backend: number of entities created so far

sinkVars == <<gSamples, gRequests, gGoals>>
backendVars == <<bLive, bCreated>>
gatewayVars == <<gSession, gLoop, gSeqOut, gSeqIn, gRuntime, gGeneration,
                 gSamples, gRequests, gGoals, bLive, bCreated>>

NoRuntime == [kind |-> NoKind]

NewRuntime(kind, entity, reliable) ==
    [kind |-> kind, entity |-> entity, reliable |-> reliable,
     seqOut |-> 0, seqIn |-> 0,
     opOut |-> [o \in OpIds |-> 0], opIn |-> [o \in OpIds |-> 0]]

GatewayInit ==
    /\ gSession = NewSession
    /\ gLoop = "running"
    /\ gSeqOut = 0
    /\ gSeqIn = 0
    /\ gRuntime = [c \in ChannelIds |-> NoRuntime]
    /\ gGeneration = NoGeneration
    /\ gSamples = <<>> /\ gRequests = <<>> /\ gGoals = <<>>
    /\ bLive = {}
    /\ bCreated = 0

-----------------------------------------------------------------------------
(* Outcome: what a handler accumulates before the loop sends it.           *)

Outcome(s) == [session |-> s, seq |-> gSeqOut, out |-> <<>>, close |-> FALSE]

Closing(o) == [o EXCEPT !.close = TRUE]

\* Fault: the answer to an open is sent and not recorded in the session.
PushControlUnrecorded(o, m) ==
    IF AcceptsControl(o.session, m, Server)
    THEN [o EXCEPT !.session = IF m.type = "ChannelReady"
                               THEN o.session
                               ELSE AfterControl(o.session, m),
                   !.seq = @ + 1,
                   !.out = Append(@, Control(m, o.seq))]
    ELSE Closing(o)

\* Fault: the control sequence is not advanced.
PushControlSameSeq(o, m) ==
    IF AcceptsControl(o.session, m, Server)
    THEN [o EXCEPT !.session = AfterControl(o.session, m),
                   !.out = Append(@, Control(m, o.seq))]
    ELSE Closing(o)

\* push_control: recorded in the session, then queued.
PushControl(o, m) ==
    IF AcceptsControl(o.session, m, Server)
    THEN [o EXCEPT !.session = AfterControl(o.session, m),
                   !.seq = @ + 1,
                   !.out = Append(@, Control(m, o.seq))]
    ELSE Closing(o)

\* Fault: the frame is queued twice.
PushFrameTwice(o, f, seq) ==
    IF AcceptsData(o.session, f, Server)
    THEN [o EXCEPT !.out = @ \o <<Data(f, seq), Data(f, seq)>>]
    ELSE Closing(o)

\* push_app_frame
PushFrame(o, f, seq) ==
    IF AcceptsData(o.session, f, Server)
    THEN [o EXCEPT !.out = Append(@, Data(f, seq))]
    ELSE Closing(o)

\* push_bootstrap_error: not recorded in the session.
PushBootstrapError(o) ==
    Closing([o EXCEPT !.out = Append(@, Bootstrap("BootstrapError"))])

\* fail_session
FailSession(o) ==
    IF InSelectedPlane(o.session.phase)
    THEN Closing(PushControl(o, SessionError))
    ELSE PushBootstrapError(o)

\* run_connection, after a handler: send what it queued, leave the loop if
\* it asked to close.
Finish(o) ==
    /\ gSession' = o.session
    /\ gSeqOut' = o.seq
    /\ g2c' = Sent(g2c, o.out)
    /\ gLoop' = IF o.close THEN "closing" ELSE "running"

-----------------------------------------------------------------------------
(* Bootstrap. *)

\* The inbound packet, when the loop is there to take it.
Inbound(p) ==
    /\ gLoop = "running"
    /\ c2g # <<>> /\ p = Head(c2g)
    /\ c2g' = Tail(c2g)
    /\ UNCHANGED up

\* handle_bootstrap; negotiated is the verdict of negotiate_server_hello.
GatewayBootstrap(p, negotiated) ==
    /\ ~InSelectedPlane(gSession.phase)
    /\ LET hello == AfterBootstrap(gSession, p.msg)
           accepted == /\ p.plane = "bootstrap"
                       /\ AcceptsBootstrap(gSession, p.msg, Client)
       IN  CASE ~accepted -> Finish(PushBootstrapError(Outcome(gSession)))
             [] accepted /\ negotiated ->
                   Finish([Outcome(AfterBootstrap(hello, [type |-> "ServerHello"]))
                             EXCEPT !.out = <<Bootstrap("ServerHello")>>])
             [] accepted /\ ~negotiated ->
                   Finish(PushBootstrapError(Outcome(hello)))
    /\ UNCHANGED <<gSeqIn, gRuntime, gGeneration, sinkVars, backendVars>>

-----------------------------------------------------------------------------
(* Selected-plane frames. *)

\* parse or ingest failed, or a control frame is out of sequence (after the
\* session applied it).
GatewayRefuses(p) ==
    /\ InSelectedPlane(gSession.phase)
    /\ LET refused ==
               \/ p.plane = "bootstrap"
               \/ p.plane = "control" /\ ~AcceptsControl(gSession, p.msg, Client)
               \/ p.plane = "data" /\ ~AcceptsData(gSession, p.msg, Client)
           outOfSequence == p.plane = "control" /\ p.seq # gSeqIn
       IN  /\ refused \/ outOfSequence
           /\ Finish(FailSession(Outcome(
                IF refused THEN gSession ELSE AfterControl(gSession, p.msg))))
    /\ UNCHANGED <<gSeqIn, gRuntime, gGeneration, sinkVars, backendVars>>

\* An acceptable control frame carrying m.
GatewayControl(p, m) ==
    /\ p.plane = "control" /\ p.msg = m /\ p.seq = gSeqIn
    /\ InSelectedPlane(gSession.phase)
    /\ AcceptsControl(gSession, m, Client)
    /\ gSeqIn' = gSeqIn + 1

Ingested(m) == Outcome(AfterControl(gSession, m))

\* Authenticate: refused; accepted but the graph cannot be read; accepted
\* with the first GraphSnapshot behind SessionReady.
GatewayAuthenticate(p, allowed, graph) ==
    LET m == [type |-> "Authenticate"]
        ready == PushControl(Ingested(m), [type |-> "SessionReady"])
        snapshot == PushControl(ready, [type |-> "GraphSnapshot", gen |-> 1])
    IN  /\ GatewayControl(p, m)
        /\ CASE ~allowed -> Finish(Closing(PushControl(Ingested(m), SessionError)))
             [] allowed /\ ~graph -> Finish(Closing(PushControl(ready, SessionError)))
             [] allowed /\ graph -> Finish(snapshot)
        /\ gGeneration' = IF allowed /\ graph THEN 1 ELSE gGeneration
        /\ UNCHANGED <<gRuntime, sinkVars, backendVars>>

\* Fault: a refused open is not answered.
GatewayRefuseOpenSilent(p) ==
    /\ p.plane = "control" /\ p.msg.type = "OpenChannel"
    /\ GatewayControl(p, p.msg)
    /\ Finish(Ingested(p.msg))
    /\ UNCHANGED <<gRuntime, gGeneration, sinkVars, backendVars>>

\* open_channel refused: support row, domain, encoding, ACL, or the backend.
GatewayRefuseOpen(p) ==
    LET m == p.msg
    IN  /\ p.plane = "control" /\ m.type = "OpenChannel"
        /\ GatewayControl(p, m)
        /\ Finish(PushControl(Ingested(m),
                    [type |-> "ChannelReady", ch |-> m.ch, result |-> "Error",
                     reliable |-> FALSE]))
        /\ UNCHANGED <<gRuntime, gGeneration, sinkVars, backendVars>>

\* open_channel: the entity is created before ChannelReady is sent, and a
\* GraphDelta follows when the graph view already shows the endpoint.
GatewayOpen(p, reliable, shown) ==
    LET m == p.msg
        effective == reliable \/ IsService(m.kind) \/ IsAction(m.kind)
        ready == PushControl(Ingested(m),
                    [type |-> "ChannelReady", ch |-> m.ch, result |-> "Allow",
                     reliable |-> effective])
        gen == SaturatingSucc(gGeneration)
        delta == PushControl(ready, [type |-> "GraphDelta",
                                     base |-> gGeneration, gen |-> gen])
        sendDelta == shown /\ gGeneration # NoGeneration
        id == bCreated + 1
    IN  /\ p.plane = "control" /\ m.type = "OpenChannel"
        /\ GatewayControl(p, m)
        /\ bCreated < MaxEntities
        /\ bCreated' = id
        /\ bLive' = bLive \cup {[id |-> id, ch |-> m.ch, kind |-> m.kind]}
        /\ gRuntime' = [gRuntime EXCEPT ![m.ch] =
                           NewRuntime(m.kind, id, effective)]
        /\ Finish(IF sendDelta THEN delta ELSE ready)
        /\ gGeneration' = IF sendDelta THEN gen ELSE gGeneration
        /\ UNCHANGED sinkVars

\* Fault: the runtime is dropped but its entity is not destroyed.
GatewayCloseLeaking(p) ==
    LET m == p.msg
    IN  /\ p.plane = "control" /\ m.type = "CloseChannel"
        /\ GatewayControl(p, m)
        /\ gRuntime' = [gRuntime EXCEPT ![m.ch] = NoRuntime]
        /\ Finish(Ingested(m))
        /\ UNCHANGED <<gGeneration, sinkVars, backendVars>>

\* CloseChannel: drop the runtime and destroy its entity.  What the entity
\* already put in a queue stays there.
GatewayClose(p) ==
    LET m == p.msg
    IN  /\ p.plane = "control" /\ m.type = "CloseChannel"
        /\ GatewayControl(p, m)
        /\ gRuntime' = [gRuntime EXCEPT ![m.ch] = NoRuntime]
        /\ bLive' = IF gRuntime[m.ch] = NoRuntime
                    THEN bLive
                    ELSE {e \in bLive : e.id # gRuntime[m.ch].entity}
        /\ Finish(Ingested(m))
        /\ UNCHANGED <<gGeneration, sinkVars, bCreated>>

\* Fault: the answer is followed by a heartbeat of the gateway's own.
GatewayHeartbeatTwice(p) ==
    /\ GatewayControl(p, Heartbeat)
    /\ Finish(PushControl(PushControl(Ingested(Heartbeat), Heartbeat), Heartbeat))
    /\ UNCHANGED <<gRuntime, gGeneration, sinkVars, backendVars>>

\* Heartbeat: answered with a heartbeat.
GatewayHeartbeat(p) ==
    /\ GatewayControl(p, Heartbeat)
    /\ Finish(PushControl(Ingested(Heartbeat), Heartbeat))
    /\ UNCHANGED <<gRuntime, gGeneration, sinkVars, backendVars>>

-----------------------------------------------------------------------------
(* Data from the client.  ok is whether the backend call succeeds; a       *)
(* failure is reported as a channel-scoped Error.                          *)

\* Fault: a failed backend call is swallowed.
ReportNothing(o, ch, ok) == o

Report(o, ch, ok) == IF ok THEN o ELSE PushControl(o, ChannelError(ch))

\* An acceptable data frame.
GatewayData(p) ==
    /\ p.plane = "data"
    /\ InSelectedPlane(gSession.phase)
    /\ AcceptsData(gSession, p.msg, Client)
    /\ UNCHANGED <<gSeqIn, gGeneration, sinkVars, backendVars>>

\* handle_publish_sample
GatewayPublish(p, ok) ==
    LET c == p.msg.ch
        rt == gRuntime[c]
        o == Outcome(gSession)
        flagsOk == p.msg.reliable = rt.reliable
        inOrder == IF rt.reliable THEN p.seq = rt.seqIn ELSE p.seq >= rt.seqIn
    IN  /\ GatewayData(p)
        /\ p.msg.opcode = "ROS_SAMPLE"
        /\ CASE ~flagsOk \/ (rt.reliable /\ ~inOrder) ->
                   Finish(FailSession(o)) /\ UNCHANGED gRuntime
             [] flagsOk /\ ~rt.reliable /\ ~inOrder ->
                   Finish(o) /\ UNCHANGED gRuntime
             [] flagsOk /\ inOrder ->
                   /\ Finish(Report(o, c, ok))
                   /\ gRuntime' = [gRuntime EXCEPT ![c].seqIn = p.seq + 1]

\* handle_service_frame, handle_action_frame: the operation's own sequence,
\* then the backend; a request or a goal is answered on the same operation.
GatewayOperation(p, ok) ==
    LET f == p.msg
        c == f.ch
        rt == gRuntime[c]
        o == Outcome(gSession)
        answer == CASE f.opcode = "SERVICE_REQUEST" -> "SERVICE_RESPONSE"
                    [] f.opcode = "ACTION_GOAL" -> "ACTION_RESULT"
                    [] OTHER -> "none"
    IN  /\ GatewayData(p)
        /\ f.opcode \in ServiceActionOpcode
        /\ IF p.seq # rt.opIn[f.opid]
           THEN Finish(FailSession(o)) /\ UNCHANGED gRuntime
           ELSE IF ok /\ answer # "none"
           THEN /\ Finish(PushFrame(o, Operation(answer, c, f.opid, TRUE),
                                    rt.opOut[f.opid]))
                /\ gRuntime' = [gRuntime EXCEPT ![c].opIn[f.opid] = @ + 1,
                                                ![c].opOut[f.opid] = @ + 1]
           ELSE /\ Finish(Report(o, c, ok))
                /\ gRuntime' = [gRuntime EXCEPT ![c].opIn[f.opid] = @ + 1]

-----------------------------------------------------------------------------
(* Data from the backend queues. *)

\* admit_sample and the flush that follows it.  A sample for a channel that
\* is gone is dropped.  fits is whether the frame is within the byte budget:
\* a reliable sample is refused before it takes a sequence number, a
\* best-effort one after.
GatewaySample(fits) ==
    /\ gLoop = "running" /\ gSamples # <<>>
    /\ gSamples' = Tail(gSamples)
    /\ LET x == Head(gSamples)
           rt == gRuntime[x.ch]
       IN  IF rt.kind # "TopicSubscribe" \/ (rt.reliable /\ ~fits)
           THEN UNCHANGED <<gRuntime, g2c>>
           ELSE /\ gRuntime' = [gRuntime EXCEPT ![x.ch].seqOut = @ + 1]
                /\ g2c' = IF fits
                          THEN Sent(g2c, <<Data(Sample(x.ch, rt.reliable, x.from),
                                                rt.seqOut)>>)
                          ELSE g2c
    /\ UNCHANGED <<gSession, gLoop, gSeqOut, gSeqIn, gGeneration, gRequests,
                   gGoals, backendVars, c2g, up>>

\* Fault: the frame lacks the reliable flag the session demands.
PushInboundUnflagged(x, kind, opcode) ==
    LET rt == gRuntime[x.ch]
        o == Outcome(gSession)
    IN  IF rt.kind # kind
        THEN Finish(o) /\ UNCHANGED gRuntime
        ELSE /\ Finish(PushFrame(o, Operation(opcode, x.ch, x.opid, FALSE),
                                 rt.opOut[x.opid]))
             /\ gRuntime' = [gRuntime EXCEPT ![x.ch].opOut[x.opid] = @ + 1]

\* The common part of push_service_request and push_action_inbound.
PushInbound(x, kind, opcode) ==
    LET rt == gRuntime[x.ch]
        o == Outcome(gSession)
    IN  IF rt.kind # kind
        THEN Finish(o) /\ UNCHANGED gRuntime
        ELSE /\ Finish(PushFrame(o, Operation(opcode, x.ch, x.opid, TRUE),
                                 rt.opOut[x.opid]))
             /\ gRuntime' = [gRuntime EXCEPT ![x.ch].opOut[x.opid] = @ + 1]

GatewayRequest ==
    /\ gLoop = "running" /\ gRequests # <<>>
    /\ gRequests' = Tail(gRequests)
    /\ PushInbound(Head(gRequests), "ServiceServer", "SERVICE_REQUEST")
    /\ UNCHANGED <<gSeqIn, gGeneration, gSamples, gGoals, backendVars, c2g, up>>

GatewayGoal ==
    /\ gLoop = "running" /\ gGoals # <<>>
    /\ gGoals' = Tail(gGoals)
    /\ PushInbound(Head(gGoals), "ActionServer", Head(gGoals).opcode)
    /\ UNCHANGED <<gSeqIn, gGeneration, gSamples, gRequests, backendVars, c2g, up>>

-----------------------------------------------------------------------------
(* The backend as the connection uses it (the code behind RosBackend).     *)

\* try_send: a full queue drops the newest item.
TrySend(queue, item) == IF Len(queue) < QueueDepth THEN Append(queue, item)
                                                   ELSE queue

BackendSample(e) ==
    /\ e \in bLive /\ e.kind = "TopicSubscribe"
    /\ gSamples' = TrySend(gSamples, [ch |-> e.ch, from |-> e.id])
    /\ UNCHANGED <<gSession, gLoop, gSeqOut, gSeqIn, gRuntime, gGeneration,
                   gRequests, gGoals, backendVars, linkVars>>

BackendRequest(e, opid) ==
    /\ e \in bLive /\ e.kind = "ServiceServer"
    /\ gRequests' = TrySend(gRequests, [ch |-> e.ch, opid |-> opid])
    /\ UNCHANGED <<gSession, gLoop, gSeqOut, gSeqIn, gRuntime, gGeneration,
                   gSamples, gGoals, backendVars, linkVars>>

BackendGoal(e, opcode, opid) ==
    /\ e \in bLive /\ e.kind = "ActionServer"
    /\ gGoals' = TrySend(gGoals, [ch |-> e.ch, opcode |-> opcode, opid |-> opid])
    /\ UNCHANGED <<gSession, gLoop, gSeqOut, gSeqIn, gRuntime, gGeneration,
                   gSamples, gRequests, backendVars, linkVars>>

-----------------------------------------------------------------------------
(* Leaving the loop. *)

\* recv returns None once the transport is gone.
GatewayTransportGone ==
    /\ gLoop = "running" /\ ~up
    /\ gLoop' = "closing"
    /\ UNCHANGED <<gSession, gSeqOut, gSeqIn, gRuntime, gGeneration, sinkVars,
                   backendVars, linkVars>>

\* Fault: the connection forgets its channels without destroying them.
GatewayTeardownLeaking ==
    /\ gLoop = "closing"
    /\ gLoop' = "ended"
    /\ gRuntime' = [c \in ChannelIds |-> NoRuntime]
    /\ UNCHANGED <<gSession, gSeqOut, gSeqIn, gGeneration, sinkVars,
                   backendVars, linkVars>>

\* teardown: destroy every entity the connection owns.
GatewayTeardown ==
    /\ gLoop = "closing"
    /\ gLoop' = "ended"
    /\ bLive' = {e \in bLive : \A c \in ChannelIds :
                    gRuntime[c] # NoRuntime => gRuntime[c].entity # e.id}
    /\ gRuntime' = [c \in ChannelIds |-> NoRuntime]
    /\ UNCHANGED <<gSession, gSeqOut, gSeqIn, gGeneration, sinkVars, bCreated,
                   linkVars>>
=============================================================================
