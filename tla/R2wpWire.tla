------------------------------ MODULE R2wpWire ------------------------------
(***************************************************************************)
(* A client engine and a gateway connection over one transport: the two    *)
(* halves of an R2WP session, each with its own copy of the session state, *)
(* its own channel tables and its own counters, plus the application that  *)
(* commands the engine and the ROS graph behind the gateway.               *)
(***************************************************************************)
EXTENDS ClientEngine, GatewayConnection, FiniteSets

CONSTANTS
    Kinds,          \* kinds of channel the application opens
    Disciplined,    \* the application issues only commands that make sense
    BackendFails,   \* backend calls on behalf of the client may fail
    Lossy,          \* the transport may break
    MaxSamples,     \* bound: samples the ROS graph produces
    MaxFrames,      \* bound: data frames the client sends on one channel
    MaxTicks        \* bound: heartbeat deadlines that pass

\* Channel 0 is the control plane's; an operation id a call uses is neither
\* absent nor the all-zero id.
ASSUME WireAssumption ==
    /\ 0 \notin ChannelIds
    /\ Kinds \subseteq OperationKind
    /\ OpIds \cap {"none", "zero"} = {}
    /\ {Disciplined, BackendFails, Lossy} \subseteq BOOLEAN
    /\ {QueueDepth, MaxEntities, MaxSamples, MaxFrames, MaxTicks} \subseteq Nat

VARIABLES
    opChannel,      \* history: channel an operation id was used on, or 0
    replied,        \* history: operations the application's server finished
    samples,        \* history: samples produced so far
    ticks           \* history: heartbeat deadlines passed so far

historyVars == <<opChannel, replied, samples, ticks>>
vars == <<clientVars, gatewayVars, linkVars, historyVars>>

Init ==
    /\ LinkInit
    /\ ClientInit
    /\ GatewayInit
    /\ opChannel = [o \in OpIds |-> 0]
    /\ replied = {}
    /\ samples = 0
    /\ ticks = 0

-----------------------------------------------------------------------------
(* The application.  The TypeScript client authenticates when bootstrap    *)
(* completes, opens fresh ids on a ready session and closes channels it    *)
(* was told are open; the engine itself takes any command at any time.     *)

AppStart == ClientStart /\ UNCHANGED <<gatewayVars, historyVars>>

AppAuthenticate ==
    /\ Disciplined => cSession.phase = "SelectedAwaitAuthenticate"
    /\ ClientAuthenticate
    /\ UNCHANGED <<gatewayVars, historyVars>>

AppOpen(c, kind) ==
    /\ Disciplined => /\ cSession.phase = "Ready"
                      /\ cSession.chan[c].state = "Unused"
    /\ ClientOpen(c, kind)
    /\ UNCHANGED <<gatewayVars, historyVars>>

AppUnsubscribe(c) ==
    /\ Disciplined => cSession.chan[c].state = "Active"
    /\ ClientUnsubscribe(c)
    /\ UNCHANGED <<gatewayVars, historyVars>>

AppPublish(c) ==
    /\ cActive[c].next < MaxFrames
    /\ ClientSendSample(c)
    /\ UNCHANGED <<gatewayVars, historyVars>>

\* A call or a goal, under an operation id never used before.
AppCall(c, op) ==
    /\ cActive[c].next < MaxFrames
    /\ opChannel[op] = 0
    /\ opChannel' = [opChannel EXCEPT ![op] = c]
    /\ \/ /\ cActive[c].kind = "ServiceClient"
          /\ ClientSendOperation(c, "SERVICE_REQUEST", op)
       \/ /\ cActive[c].kind = "ActionClient"
          /\ ClientSendOperation(c, "ACTION_GOAL", op)
    /\ UNCHANGED <<gatewayVars, replied, samples, ticks>>

AppCancel(c, op) ==
    /\ cActive[c].next < MaxFrames
    /\ cActive[c].kind = "ActionClient"
    /\ opChannel[op] = c
    /\ ClientSendOperation(c, "ACTION_CANCEL", op)
    /\ UNCHANGED <<gatewayVars, historyVars>>

WasDelivered(c, opcode, op) ==
    \E i \in DOMAIN cDelivered[c] :
        cDelivered[c][i].opcode = opcode /\ cDelivered[c][i].opid = op

\* The application's service answers a request it was given; its action
\* server reports on a goal it was given until the result.
AppReply(c, op) ==
    /\ cActive[c].next < MaxFrames
    /\ op \notin replied
    /\ \/ /\ WasDelivered(c, "SERVICE_REQUEST", op)
          /\ ClientSendOperation(c, "SERVICE_RESPONSE", op)
          /\ replied' = replied \cup {op}
       \/ /\ WasDelivered(c, "ACTION_GOAL", op)
          /\ \E report \in {"ACTION_FEEDBACK", "ACTION_STATUS"} :
                ClientSendOperation(c, report, op)
          /\ UNCHANGED replied
       \/ /\ WasDelivered(c, "ACTION_GOAL", op)
          /\ ClientSendOperation(c, "ACTION_RESULT", op)
          /\ replied' = replied \cup {op}
    /\ UNCHANGED <<gatewayVars, opChannel, samples, ticks>>

\* An operation frame of any opcode, on any channel.
AppMisuse(c, opcode, op) ==
    /\ ~Disciplined
    /\ cActive[c].next < MaxFrames
    /\ ClientSendOperation(c, opcode, op)
    /\ UNCHANGED <<gatewayVars, historyVars>>

AppTick ==
    /\ ticks < MaxTicks
    /\ ClientHeartbeat
    /\ ticks' = ticks + 1
    /\ UNCHANGED <<gatewayVars, opChannel, replied, samples>>

AppClose == ClientClose /\ UNCHANGED <<gatewayVars, historyVars>>

App ==
    \/ AppStart
    \/ AppAuthenticate
    \/ \E c \in ChannelIds, kind \in Kinds : AppOpen(c, kind)
    \/ \E c \in ChannelIds : AppUnsubscribe(c) \/ AppPublish(c)
    \/ \E c \in ChannelIds, op \in OpIds :
          AppCall(c, op) \/ AppCancel(c, op) \/ AppReply(c, op)
    \/ \E c \in ChannelIds, opcode \in ServiceActionOpcode, op \in OpIds :
          AppMisuse(c, opcode, op)
    \/ AppTick
    \/ AppClose

-----------------------------------------------------------------------------
(* The two receivers. *)

\* Echoed heartbeats never stop, so their number is bounded here.
EchoBound(seq) == MaxTicks * 4 + 8 > seq

EngineReceive ==
    /\ g2c # <<>> /\ Head(g2c).msg = Heartbeat => EchoBound(cSeqOut)
    /\ ClientReceive
    /\ UNCHANGED <<gatewayVars, historyVars>>

Outcomes == IF BackendFails THEN BOOLEAN ELSE {TRUE}

GatewayHandle(p) ==
    \/ \E negotiated \in Outcomes : GatewayBootstrap(p, negotiated)
    \/ GatewayRefuses(p)
    \/ \E allowed, graph \in Outcomes : GatewayAuthenticate(p, allowed, graph)
    \/ BackendFails /\ GatewayRefuseOpen(p)
    \/ \E reliable, shown \in BOOLEAN : GatewayOpen(p, reliable, shown)
    \/ GatewayClose(p)
    \/ EchoBound(gSeqOut) /\ GatewayHeartbeat(p)
    \/ \E ok \in Outcomes : GatewayPublish(p, ok) \/ GatewayOperation(p, ok)

GatewayReceive ==
    /\ c2g # <<>>
    /\ Inbound(Head(c2g))
    /\ GatewayHandle(Head(c2g))
    /\ UNCHANGED <<clientVars, historyVars>>

GatewayForward ==
    /\ \/ \E fits \in Outcomes : GatewaySample(fits)
       \/ GatewayRequest
       \/ GatewayGoal
    /\ UNCHANGED <<clientVars, historyVars>>

GatewayLeave ==
    /\ GatewayTransportGone \/ GatewayTeardown
    /\ UNCHANGED <<clientVars, historyVars>>

-----------------------------------------------------------------------------
(* The ROS graph behind the gateway, and the transport. *)

Graph ==
    /\ \/ /\ samples < MaxSamples
          /\ samples' = samples + 1
          /\ \E e \in bLive : BackendSample(e)
          /\ UNCHANGED opChannel
       \/ \E e \in bLive, op \in OpIds :
             /\ opChannel[op] = 0
             /\ opChannel' = [opChannel EXCEPT ![op] = e.ch]
             /\ BackendRequest(e, op) \/ BackendGoal(e, "ACTION_GOAL", op)
             /\ UNCHANGED samples
       \/ \E e \in bLive, op \in OpIds :
             /\ samples < MaxSamples
             /\ samples' = samples + 1
             /\ opChannel[op] = e.ch
             /\ BackendGoal(e, "ACTION_CANCEL", op)
             /\ UNCHANGED opChannel
    /\ UNCHANGED <<clientVars, replied, ticks>>

Lose ==
    /\ Lossy
    /\ TransportLost
    /\ UNCHANGED <<clientVars, gatewayVars, historyVars>>

Next ==
    \/ App
    \/ EngineReceive
    \/ GatewayReceive
    \/ GatewayForward
    \/ GatewayLeave
    \/ Graph
    \/ Lose

Spec == Init /\ [][Next]_vars

\* Both receivers are event loops: a packet that waits is eventually taken.
\* The gateway's select loop also takes the backend queues, and leaves.
FairSpec ==
    /\ Spec
    /\ WF_vars(EngineReceive)
    /\ WF_vars(GatewayReceive)
    /\ WF_vars(GatewayForward)
    /\ WF_vars(GatewayLeave)

-----------------------------------------------------------------------------
(* Properties. *)

\* The values of the variables.
TypeOK ==
    /\ cSession \in SessionState /\ gSession \in SessionState
    /\ {cStarted, cClosed, up} \subseteq BOOLEAN
    /\ {cSeqOut, cSeqIn, gSeqOut, gSeqIn, bCreated, samples, ticks} \subseteq Nat
    /\ cPending \in [ChannelIds -> OperationKind \cup {NoKind}]
    /\ gLoop \in {"running", "closing", "ended"}
    /\ Len(gSamples) <= QueueDepth
    /\ Len(gRequests) <= QueueDepth
    /\ Len(gGoals) <= QueueDepth

\* Both halves of the session are alive.
Connected == up /\ ~cClosed /\ gLoop = "running"

(***************************************************************************)
(* The two copies of the session state differ only by what is in flight:   *)
(* once the streams are empty the phase, the whole channel table, the      *)
(* graph generation and both control counters agree.                       *)
(***************************************************************************)
QuiescentAgreement ==
    Connected /\ c2g = <<>> /\ g2c = <<>> =>
        /\ cSession = gSession
        /\ cSeqOut = gSeqIn
        /\ gSeqOut = cSeqIn

(***************************************************************************)
(* At every moment, whatever is in flight, the gateway's view of a channel *)
(* is the client's, or behind an open or a close the client has sent, or   *)
(* ahead by the answer to an open.  A channel the client believes active   *)
(* is active at the gateway.                                               *)
(***************************************************************************)
ChannelViews ==
    Connected => \A c \in ChannelIds :
        <<cSession.chan[c].state, gSession.chan[c].state>> \in
            {<<"Unused", "Unused">>, <<"Pending", "Unused">>,
             <<"Pending", "Active">>, <<"Pending", "Failed">>,
             <<"Active", "Active">>, <<"Failed", "Failed">>,
             <<"Closed", "Active">>, <<"Closed", "Closed">>}

(***************************************************************************)
(* The gateway holds a backend entity for exactly the channels that are    *)
(* active, no entity is left without a channel that will destroy it, and   *)
(* none outlives the connection, however it ended.                         *)
(***************************************************************************)
EntitiesOwned ==
    /\ \A e \in bLive : gRuntime[e.ch] # NoRuntime /\ gRuntime[e.ch].entity = e.id
    /\ gLoop = "running" =>
          \A c \in ChannelIds :
              gRuntime[c] # NoRuntime <=> gSession.chan[c].state = "Active"
    /\ gLoop = "ended" => bLive = {}

(***************************************************************************)
(* The engine's own tables (pending_opens and the four active_ maps) say   *)
(* the same as its session: a channel is in the table of its state, with   *)
(* the kind it was opened with.                                            *)
(***************************************************************************)
EngineTables ==
    ~cClosed => \A c \in ChannelIds :
        LET entry == cSession.chan[c]
        IN  /\ cPending[c] = IF entry.state = "Pending" THEN entry.kind ELSE NoKind
            /\ cActive[c].kind = IF entry.state = "Active" THEN entry.kind
                                                          ELSE NoKind

(***************************************************************************)
(* The application hears of the fate of every open it made exactly once.   *)
(***************************************************************************)
OpenAnsweredOnce ==
    \A c \in ChannelIds :
        /\ cAnswers[c] <= 1
        /\ cAnswers[c] = 1 <=> cSession.chan[c].state \notin {"Unused", "Pending"}

(***************************************************************************)
(* The samples of a channel reach the application in the order they were   *)
(* taken, all from the one entity created for that channel, and on a       *)
(* reliable channel without a gap in the sequence numbers.                 *)
(***************************************************************************)
SampleStream ==
    \A c \in ChannelIds : \A i \in DOMAIN cDelivered[c] :
        LET got == cDelivered[c]
            earlier == {j \in 1 .. i - 1 : got[j].opcode = "ROS_SAMPLE"}
        IN  got[i].opcode = "ROS_SAMPLE" =>
                /\ \A j \in earlier : got[j].seq < got[i].seq /\ got[j].from = got[i].from
                /\ cActive[c].reliable =>
                      \/ got[i].seq = 0
                      \/ \E j \in earlier : got[j].seq + 1 = got[i].seq

(***************************************************************************)
(* A response or a result reaches the application once per operation, on   *)
(* the channel that made the call.                                         *)
(***************************************************************************)
OperationAnswers ==
    \A c \in ChannelIds : \A i, j \in DOMAIN cDelivered[c] :
        LET a == cDelivered[c][i]
            b == cDelivered[c][j]
            terminal == {"SERVICE_RESPONSE", "ACTION_RESULT"}
        IN  /\ a.opid # "none" => opChannel[a.opid] = c
            /\ /\ a.opid = b.opid
               /\ {a.opcode, b.opcode} \subseteq terminal
               => i = j

(***************************************************************************)
(* The gateway ends a ready session whose transport is up only on an       *)
(* operation frame whose sequence number is not the next of its operation. *)
(***************************************************************************)
GatewayClosesForCause ==
    [][ /\ gLoop = "running" /\ gLoop' = "closing"
        /\ up /\ gSession.phase = "Ready"
        => /\ c2g # <<>>
           /\ Head(c2g).plane = "data"
           /\ Head(c2g).msg.opcode \in ServiceActionOpcode
           /\ Head(c2g).seq # gRuntime[Head(c2g).msg.ch].opIn[Head(c2g).msg.opid]
      ]_vars

(***************************************************************************)
(* A packet ends a ready engine only when it is an Error, or a data frame  *)
(* the gateway sent before it saw the close of that channel.               *)
(***************************************************************************)
ClientFailsForCause ==
    [][ /\ ~cClosed /\ cClosed' /\ cSession.phase = "Ready" /\ g2c' # g2c
        => \/ Head(g2c).plane = "control" /\ Head(g2c).msg.type = "Error"
           \/ /\ Head(g2c).plane = "data"
              /\ cSession.chan[Head(g2c).msg.ch].state = "Closed"
      ]_vars

(***************************************************************************)
(* Heartbeats breed none: every heartbeat in flight, in either direction,  *)
(* goes back to a deadline that passed.                                    *)
(***************************************************************************)
InFlight(link, m) == Cardinality({i \in DOMAIN link : link[i].msg = m})

HeartbeatsConserved ==
    InFlight(c2g, Heartbeat) + InFlight(g2c, Heartbeat) <= ticks

(***************************************************************************)
(* Every open is answered, unless the engine stops or the transport goes.  *)
(***************************************************************************)
OpensAnswered ==
    \A c \in ChannelIds :
        cPending[c] # NoKind ~> cPending[c] = NoKind \/ cClosed \/ ~up

(***************************************************************************)
(* A connection that has left its loop releases every backend entity.      *)
(***************************************************************************)
EntitiesReleased == (~up \/ gLoop = "closing") ~> bLive = {}

(***************************************************************************)
(* Every service call or goal is answered, unless its channel is closed,   *)
(* the engine stops or the transport goes.                                 *)
(***************************************************************************)
CallsAnswered ==
    \A op \in OpIds, c \in ChannelIds :
        /\ opChannel[op] = c
        /\ cActive[c].kind \in {"ServiceClient", "ActionClient"}
        ~> \/ WasDelivered(c, "SERVICE_RESPONSE", op)
           \/ WasDelivered(c, "ACTION_RESULT", op)
           \/ cSession.chan[c].state = "Closed" \/ cClosed \/ ~up

-----------------------------------------------------------------------------
(* What the protocol document and the comments say, and the code does not. *)

(***************************************************************************)
(* protocol/r2wp-v0.md: "each (channel_id, OPERATION_ID, direction) stream *)
(* is independent from 0".  An application that only ever makes ordinary   *)
(* calls never loses its session to the gateway.                           *)
(***************************************************************************)
GatewayKeepsReadySession ==
    [][ gLoop = "running" /\ up /\ gSession.phase = "Ready"
        => gLoop' = "running" ]_vars

(***************************************************************************)
(* session/transition.rs: "session-scope fails the session when channel_id *)
(* is absent".  An Error about one channel does not end the engine.        *)
(***************************************************************************)
ChannelErrorStaysLocal ==
    [][ /\ ~cClosed /\ g2c # <<>> /\ g2c' = Tail(g2c)
        /\ Head(g2c).plane = "control"
        /\ Head(g2c).msg.type = "Error" /\ Head(g2c).msg.scope = "channel"
        => ~cClosed' ]_vars
=============================================================================
