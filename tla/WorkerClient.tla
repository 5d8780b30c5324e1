---------------------------- MODULE WorkerClient ----------------------------
(***************************************************************************)
(* The worker client of the TypeScript library: WorkerClient (client.ts)   *)
(* on the main thread, io-worker.ts with IoHost, the engine and the        *)
(* transport on the worker.  The two exchange messages in order and share  *)
(* nothing.  A thread handles a message, with the promise reactions and    *)
(* microtasks it causes, before it takes the next.                         *)
(*                                                                         *)
(* A request carries an id; the main thread keeps its promise in #pending, *)
(* the worker the id in a table of its own until the engine answers.       *)
(* reconnect() replaces engine and transport and reopens the channels of   *)
(* #channels one after the other under their old ids.  It rejects all that *)
(* is pending, so that an earlier reconnect() still in progress throws:    *)
(* at most one makes progress, the record rc.                              *)
(*                                                                         *)
(* The end of a WebSocket is always reported to the main thread, as a      *)
(* closed message without an id.  A WebTransport that does not come up, or *)
(* that breaks, leads to an error message without an id at most, which the *)
(* main thread ignores.                                                    *)
(***************************************************************************)
EXTENDS Integers, Sequences, FiniteSets

CONSTANTS
    Channels,       \* channel ids, 1 and on
    Services,       \* those that are service or action clients
    Transports,     \* websocket, webtransport
    MaxAttempts,    \* reconnectAttempts
    MaxRequests,    \* bound: the application makes no request past this id
    MaxConnections  \* bound: the last connection is not lost

ASSUME WorkerAssumption ==
    /\ IsFiniteSet(Channels) /\ Channels = 1 .. Cardinality(Channels)
    /\ Services \subseteq Channels
    /\ Transports \subseteq {"websocket", "webtransport"}
    /\ {MaxAttempts, MaxRequests, MaxConnections} \subseteq Nat

VARIABLES
    \* the main thread
    app,            \* create() in progress, failed, or its client in use
    pending,        \* #pending: set of [id, what, ch]
    nextRequest,    \* #nextRequest
    nextChannel,    \* #nextChannel
    tracked,        \* #channels; the order of the map is left open
    inflight,       \* #inflightByChannel: set of <<channel, request>>
    rc,             \* the reconnect() call in progress
    reconnecting,   \* #reconnecting
    attempts,       \* #reconnectAttempts
    auto,           \* #options.reconnect
    kind,           \* #options.transport, that of the host
    \* the messages between the threads
    toWorker, toMain,
    \* the worker
    host,           \* none, live or disposed
    connectId,      \* connectRequestId
    wOpen,          \* pendingSubscribe, -Publish, -Service, -Action
    wCalls,         \* pendingCalls, pendingActionResults: set of requests
    engine,         \* new, ready or failed
    chan,           \* the engine's channels
    ops,            \* operations the gateway has to answer
    transport,      \* none, connecting, open, closed; stalled (its stream has
                    \* ended, the session has not); failed (no close event)
    \* history
    connections,    \* connections made
    held,           \* channels whose object the application has
    disturbed       \* what happened during a reconnect

mainVars == <<app, pending, nextRequest, nextChannel, tracked, inflight, rc,
              reconnecting, attempts, auto, kind>>
tableVars == <<connectId, wOpen, wCalls>>
engineVars == <<engine, chan, ops, transport>>
workerVars == <<host, tableVars, engineVars>>
historyVars == <<connections, held, disturbed>>
vars == <<mainVars, toWorker, toMain, workerVars, historyVars>>

\* pc: idle, await (connected) or reopen.  id: the request the call awaits.
\* opening: the channel being reopened, or 0.  todo: what is left to reopen.
NoReconnect ==
    [pc |-> "idle", auto |-> FALSE, id |-> 0, opening |-> 0, todo |-> {}]

Request(type, id, c) == [type |-> type, id |-> id, ch |-> c]
Reply(type, id, c) == [type |-> type, id |-> id, ch |-> c]

NoId == -1                \* a message without requestId
Lost == Reply("closed", NoId, 0)

NewChannels == [c \in Channels |-> "none"]

\* create() has posted init.
Init ==
    /\ app = "creating"
    /\ pending = {Request("init", 1, 0)}
    /\ nextRequest = 2
    /\ nextChannel = 1
    /\ tracked = {}
    /\ inflight = {}
    /\ rc = NoReconnect
    /\ reconnecting = FALSE
    /\ attempts = 0
    /\ auto = TRUE
    /\ kind \in Transports
    /\ toWorker = <<Request("init", 1, 0)>>
    /\ toMain = <<>>
    /\ host = "none"
    /\ connectId = 0
    /\ wOpen = [c \in Channels |-> 0]
    /\ wCalls = {}
    /\ engine = "new"
    /\ chan = NewChannels
    /\ ops = {}
    /\ transport = "none"
    /\ connections = 0
    /\ held = {}
    /\ disturbed = {}

-----------------------------------------------------------------------------
(* reconnect() on the main thread. *)

Pending(id) == {p \in pending : p.id = id}
Opening(c) == \E p \in pending : p.type = "open" /\ p.ch = c

\* Fault: the channel is not tracked.
TrackNot(known, c) == known

\* #channels.set when an open is made.
Track(known, c) == known \cup {c}

\* #request, #subscribe and so on: keep the promise, post the message.
Ask(type, c) ==
    /\ pending' = pending \cup {Request(type, nextRequest, c)}
    /\ toWorker' = Append(toWorker, Request(type, nextRequest, c))
    /\ nextRequest' = nextRequest + 1

\* Fault: calls are not rejected.
RejectInflightButCalls == {p \in pending : p.type = "call"}

\* #rejectInflight: what stays in #pending.
RejectInflight == {}

\* Fault: #reconnecting is not set.
StillReconnectingNot == FALSE

\* An earlier call throws once this one has set #reconnecting, and its finally
\* block clears it again.
StillReconnecting == rc.pc = "idle"

\* The synchronous part of reconnect().  A rejected open leaves #channels; a
\* rejected connect makes create() throw.
StartReconnect(isAuto) ==
    /\ tracked' = {c \in tracked : ~Opening(c)}
    /\ app' = IF app = "creating" THEN "failed" ELSE app
    /\ pending' = RejectInflight \cup {Request("reconnect", nextRequest, 0)}
    /\ toWorker' = Append(toWorker, Request("reconnect", nextRequest, 0))
    /\ nextRequest' = nextRequest + 1
    /\ inflight' = {}
    /\ rc' = [NoReconnect EXCEPT !.pc = "await", !.auto = isAuto,
                                 !.id = nextRequest]
    /\ reconnecting' = StillReconnecting
    /\ disturbed' = IF rc.pc = "idle" THEN disturbed
                                      ELSE disturbed \cup {"overlap"}
    /\ UNCHANGED <<nextChannel, auto, kind, workerVars, connections, held>>

\* reopenTrackedChannels: the next channel under its old id, or the end, where
\* an automatic call resets the attempts.  known: #channels by now.
Reopen(todo, known, settled) ==
    \/ /\ todo = {}
       /\ rc' = NoReconnect
       /\ reconnecting' = FALSE
       /\ attempts' = IF rc.auto THEN 0 ELSE attempts
       /\ tracked' = known
       /\ pending' = pending \ settled
       /\ UNCHANGED <<toWorker, nextRequest>>
    \/ \E c \in todo :
          LET request == Request("open", nextRequest, c)
          IN  /\ rc' = [rc EXCEPT !.pc = "reopen", !.id = nextRequest,
                                  !.opening = c, !.todo = todo \ {c}]
              /\ tracked' = Track(known, c)
              /\ pending' = (pending \ settled) \cup {request}
              /\ toWorker' = Append(toWorker, request)
              /\ nextRequest' = nextRequest + 1
              /\ UNCHANGED <<reconnecting, attempts>>

-----------------------------------------------------------------------------
(* #onWorker: the messages from the worker. *)

FromWorker(type) ==
    /\ app # "closed" /\ toMain # <<>> /\ Head(toMain).type = type
    /\ toMain' = Tail(toMain)

\* No promise waits for the answer.
Ignore == UNCHANGED <<mainVars, toWorker, workerVars, historyVars>>

\* ready resolves the first promise, and create() goes on to connect.
MainReady ==
    /\ FromWorker("ready")
    /\ LET request == Request("connect", nextRequest, 0)
       IN  /\ pending' = {request}
           /\ toWorker' = Append(toWorker, request)
           /\ nextRequest' = nextRequest + 1
    /\ UNCHANGED <<app, nextChannel, tracked, inflight, rc, reconnecting,
                   attempts, auto, kind, workerVars, historyVars>>

\* connect is answered, and create() returns; or reconnect is, and the tracked
\* channels are taken and forgotten, to be reopened.
MainConnected ==
    /\ FromWorker("connected")
    /\ \/ Pending(Head(toMain).id) = {} /\ Ignore
       \/ \E p \in Pending(Head(toMain).id) :
             \/ /\ p.type = "connect"
                /\ app' = "using"
                /\ pending' = pending \ {p}
                /\ UNCHANGED <<rc, reconnecting, attempts, tracked, toWorker,
                               nextRequest>>
             \/ /\ p.type = "reconnect"
                /\ Reopen(tracked, {}, {p})
                /\ UNCHANGED app
          /\ UNCHANGED <<nextChannel, inflight, auto, kind, workerVars, historyVars>>

\* subscribed, published, serviceReady, actionReady
MainOpened ==
    /\ FromWorker("opened")
    /\ \/ Pending(Head(toMain).id) = {} /\ Ignore
       \/ \E p \in Pending(Head(toMain).id) :
             /\ IF p.id = rc.id
                THEN Reopen(rc.todo, tracked, {p}) /\ UNCHANGED held
                ELSE /\ pending' = pending \ {p}
                     /\ held' = held \cup {p.ch}
                     /\ UNCHANGED <<rc, reconnecting, attempts, tracked,
                                    toWorker, nextRequest>>
             /\ UNCHANGED <<app, nextChannel, inflight, auto, kind, workerVars,
                            connections, disturbed>>

\* subscribeFailed, publishFailed, serviceFailed, actionFailed, and error with
\* a request id.  A rejected open leaves #channels; a reconnect() that waits
\* for the request throws, and what it had left to reopen is dropped.
MainRejected ==
    /\ FromWorker("openFailed") \/ FromWorker("error")
    /\ \/ Pending(Head(toMain).id) = {} /\ Ignore
       \/ \E p \in Pending(Head(toMain).id) :
             /\ pending' = pending \ {p}
             /\ tracked' = IF p.type = "open" THEN tracked \ {p.ch} ELSE tracked
             /\ app' = IF app = "creating" THEN "failed" ELSE app
             /\ IF p.id = rc.id
                THEN rc' = NoReconnect /\ reconnecting' = FALSE
                ELSE UNCHANGED <<rc, reconnecting>>
             /\ UNCHANGED <<nextRequest, nextChannel, inflight, attempts, auto, kind,
                            toWorker, workerVars, historyVars>>

\* serviceResponse, actionResult, ack
MainResponse ==
    /\ FromWorker("response") \/ FromWorker("ack")
    /\ LET m == Head(toMain)
       IN  /\ inflight' = inflight \ {<<m.ch, m.id>>}
           /\ pending' = pending \ Pending(m.id)
    /\ UNCHANGED <<app, nextRequest, nextChannel, tracked, rc, reconnecting,
                   attempts, auto, kind, toWorker, workerVars, historyVars>>

\* operationCancelled: every call of the channel is rejected.
MainCancelled ==
    /\ FromWorker("cancelled")
    /\ LET mine == {f \in inflight : f[1] = Head(toMain).ch}
       IN  /\ inflight' = inflight \ mine
           /\ pending' = {p \in pending : <<p.ch, p.id>> \notin mine}
    /\ UNCHANGED <<app, nextRequest, nextChannel, tracked, rc, reconnecting,
                   attempts, auto, kind, toWorker, workerVars, historyVars>>

\* closed with the id of close(): the worker is terminated, and what is still
\* pending stays so.
MainClosed ==
    /\ FromWorker("closed") /\ Head(toMain).id # NoId
    /\ \/ Pending(Head(toMain).id) = {} /\ Ignore
       \/ \E p \in Pending(Head(toMain).id) :
             /\ pending' = pending \ {p}
             /\ app' = "closed"
             /\ UNCHANGED <<nextRequest, nextChannel, tracked, inflight, rc,
                            reconnecting, attempts, auto, kind, toWorker, workerVars,
                            historyVars>>

\* Fault: one attempt too few.
MayRetryOnceLess == ~reconnecting /\ auto /\ attempts + 1 < MaxAttempts

\* Not while a reconnect is in progress, when it is switched off, or when the
\* attempts are used up.
MayRetry == ~reconnecting /\ auto /\ attempts < MaxAttempts

\* closed without an id: #autoReconnect
MainLost ==
    /\ FromWorker("closed") /\ Head(toMain).id = NoId
    /\ IF MayRetry
       THEN StartReconnect(TRUE) /\ attempts' = attempts + 1
       ELSE Ignore

-----------------------------------------------------------------------------
(* The application. *)

MayAsk == app = "using" /\ nextRequest <= MaxRequests

\* The channel is not open again yet.
Unrestored(c) ==
    rc.pc = "await" \/ c = rc.opening \/ c \in rc.todo

Disturbs(early, how) ==
    disturbed' = IF early THEN disturbed \cup {how} ELSE disturbed

AppOpen(c) ==
    /\ MayAsk /\ c = nextChannel
    /\ nextChannel' = c + 1
    /\ tracked' = Track(tracked, c)
    /\ Ask("open", c)
    /\ Disturbs(rc.pc = "await", "open")
    /\ UNCHANGED <<app, inflight, rc, reconnecting, attempts, auto, kind, toMain,
                   workerVars, connections, held>>

\* #callService, #sendActionGoal
AppCall(c) ==
    /\ MayAsk /\ c \in held \cap Services
    /\ inflight' = inflight \cup {<<c, nextRequest>>}
    /\ Ask("call", c)
    /\ Disturbs(Unrestored(c), "use")
    /\ UNCHANGED <<app, nextChannel, tracked, rc, reconnecting, attempts, auto, kind,
                   toMain, workerVars, connections, held>>

\* Publisher.publish
AppSend(c) ==
    /\ MayAsk /\ c \in held \ Services
    /\ Ask("send", c)
    /\ Disturbs(Unrestored(c), "use")
    /\ UNCHANGED <<app, nextChannel, tracked, inflight, rc, reconnecting,
                   attempts, auto, kind, toMain, workerVars, connections, held>>

\* unsubscribe, unadvertise, close of a channel.  The worker does not answer.
AppUnsubscribe(c) ==
    /\ MayAsk /\ c \in held
    /\ tracked' = tracked \ {c}
    /\ held' = held \ {c}
    /\ Ask("unsubscribe", c)
    /\ Disturbs(Unrestored(c), "use")
    /\ UNCHANGED <<app, nextChannel, inflight, rc, reconnecting, attempts,
                   auto, kind, toMain, workerVars, connections>>

AppReconnect ==
    /\ MayAsk
    /\ StartReconnect(FALSE)
    /\ UNCHANGED <<attempts, toMain>>

AppClose ==
    /\ MayAsk
    /\ auto' = FALSE
    /\ Ask("close", 0)
    /\ UNCHANGED <<kind, app, nextChannel, tracked, inflight, rc, reconnecting,
                   attempts, toMain, workerVars, historyVars>>

-----------------------------------------------------------------------------
(* The worker: self.onmessage.  Telemetry, the graph and errors without an *)
(* id change nothing on the main thread and are left out.                  *)

FromMain(type) ==
    /\ app # "closed" /\ toWorker # <<>> /\ Head(toWorker).type = type
    /\ toWorker' = Tail(toWorker)
    /\ UNCHANGED mainVars

Post(replies) == toMain' = toMain \o replies

\* "host not initialized": the host was disposed of.
HostGone(m) ==
    /\ host # "live"
    /\ Post(<<Reply("error", m.id, 0)>>)
    /\ UNCHANGED <<workerVars, historyVars>>

WorkerInit ==
    /\ FromMain("init")
    /\ \/ host' = "live" /\ Post(<<Reply("ready", NoId, 0)>>)
       \/ host' = host /\ Post(<<Reply("error", Head(toWorker).id, 0)>>)
    /\ UNCHANGED <<tableVars, engineVars, historyVars>>

\* connect() of the host on a new engine.
NewConnection ==
    /\ engine' = "new"
    /\ chan' = NewChannels
    /\ ops' = {}
    /\ transport' = "connecting"
    /\ connections' = connections + 1

WorkerConnect ==
    /\ FromMain("connect")
    /\ connectId' = Head(toWorker).id
    /\ NewConnection
    /\ UNCHANGED <<host, wOpen, wCalls, toMain, held, disturbed>>

\* Fault: the tables of the worker, the id of the connect too, outlive the
\* connection.
WorkerReconnectKeeping ==
    /\ FromMain("reconnect")
    /\ \/ HostGone(Head(toWorker))
       \/ /\ host = "live"
          /\ NewConnection
          /\ UNCHANGED <<host, tableVars, toMain, held, disturbed>>

\* The worker forgets what was pending, and the host replaces the engine and
\* the transport.  The close event of the old socket is ignored.
WorkerReconnect ==
    /\ FromMain("reconnect")
    /\ \/ HostGone(Head(toWorker))
       \/ /\ host = "live"
          /\ connectId' = Head(toWorker).id
          /\ wOpen' = [c \in Channels |-> 0]
          /\ wCalls' = {}
          /\ NewConnection
          /\ UNCHANGED <<host, toMain, held, disturbed>>

\* subscribe, publish, openService, openAction.  An engine whose session is
\* not ready fails; one that has failed repeats closed.
WorkerOpen ==
    /\ FromMain("open")
    /\ \/ HostGone(Head(toWorker))
       \/ LET m == Head(toWorker)
              accepted == engine = "ready" /\ chan[m.ch] = "none"
          IN  /\ host = "live"
              /\ wOpen' = [wOpen EXCEPT ![m.ch] = m.id]
              /\ IF accepted
                 THEN /\ chan' = [chan EXCEPT ![m.ch] = "opening"]
                      /\ UNCHANGED <<engine, toMain>>
                 ELSE /\ engine' = "failed"
                      /\ Post(<<Lost>>)
                      /\ UNCHANGED chan
              /\ UNCHANGED <<host, connectId, wCalls, ops, transport,
                             historyVars>>

\* callService, sendActionGoal; and what is sent and acknowledged at once:
\* samples, responses, feedback, results, status, cancel.  On a channel that
\* is not open the engine reports a failure, which the worker takes for the
\* answer to the open of that channel, if it has one pending.
WorkerUse ==
    /\ FromMain("call") \/ FromMain("send")
    /\ \/ HostGone(Head(toWorker))
       \/ LET m == Head(toWorker)
              ack == IF m.type = "send" THEN <<Reply("ack", m.id, m.ch)>>
                                        ELSE <<>>
          IN  /\ host = "live"
              /\ wCalls' = IF m.type = "call" THEN wCalls \cup {m.id}
                                              ELSE wCalls
              /\ CASE engine = "failed" ->
                         Post(<<Lost>> \o ack) /\ UNCHANGED <<ops, wOpen>>
                   [] engine # "failed" /\ chan[m.ch] = "active" ->
                         /\ ops' = IF m.type = "call"
                                   THEN ops \cup {<<m.ch, m.id>>} ELSE ops
                         /\ Post(ack)
                         /\ UNCHANGED wOpen
                   [] OTHER ->
                         /\ Post(<<Reply("openFailed", wOpen[m.ch], m.ch)>>
                                 \o ack)
                         /\ wOpen' = [wOpen EXCEPT ![m.ch] = 0]
                         /\ UNCHANGED ops
              /\ UNCHANGED <<host, connectId, engine, chan, transport,
                             historyVars>>

\* The session closes an active channel; anything else makes the engine fail.
WorkerUnsubscribe ==
    /\ FromMain("unsubscribe")
    /\ \/ HostGone(Head(toWorker))
       \/ LET c == Head(toWorker).ch
          IN  /\ host = "live"
              /\ IF engine = "ready" /\ chan[c] = "active"
                 THEN /\ chan' = [chan EXCEPT ![c] = "closed"]
                      /\ ops' = {o \in ops : o[1] # c}
                      /\ UNCHANGED <<engine, toMain>>
                 ELSE /\ engine' = "failed"
                      /\ Post(<<Lost>>)
                      /\ UNCHANGED <<chan, ops>>
              /\ UNCHANGED <<host, tableVars, transport, historyVars>>

\* host.dispose() closes engine and transport; the close event of the socket
\* that follows finds the automatic reconnect off.
WorkerClose ==
    /\ FromMain("close")
    /\ Post((IF host = "live" /\ transport # "closed" THEN <<Lost>> ELSE <<>>)
            \o <<Reply("closed", Head(toWorker).id, 0)>>)
    /\ host' = "disposed"
    /\ engine' = "failed"
    /\ transport' = "closed"
    /\ UNCHANGED <<tableVars, chan, ops, historyVars>>

-----------------------------------------------------------------------------
(* The worker: the events of the transport and the engine. *)

OnWorker ==
    /\ app # "closed" /\ host = "live"
    /\ UNCHANGED <<mainVars, toWorker, host, connections, held>>

\* The socket opens.  A failed engine answers Start with closed.
Connects ==
    /\ OnWorker /\ transport = "connecting"
    /\ transport' = "open"
    /\ Post(IF engine = "failed" THEN <<Lost>> ELSE <<>>)
    /\ UNCHANGED <<tableVars, engine, chan, ops, disturbed>>

SessionReady ==
    /\ OnWorker /\ transport = "open" /\ engine = "new"
    /\ engine' = "ready"
    /\ Post(<<Reply("connected", connectId, 0)>>)
    /\ UNCHANGED <<tableVars, chan, ops, transport, disturbed>>

Answering == OnWorker /\ transport = "open" /\ engine = "ready"

OpenAnswered(c, ok) ==
    /\ Answering /\ chan[c] = "opening"
    /\ chan' = [chan EXCEPT ![c] = IF ok THEN "active" ELSE "closed"]
    /\ Post(<<Reply(IF ok THEN "opened" ELSE "openFailed", wOpen[c], c)>>)
    /\ wOpen' = [wOpen EXCEPT ![c] = 0]
    /\ disturbed' = IF ok \/ c \notin held THEN disturbed
                                           ELSE disturbed \cup {"refused"}
    /\ UNCHANGED <<connectId, wCalls, engine, ops, transport>>

CallAnswered(o) ==
    /\ Answering /\ o \in ops
    /\ ops' = ops \ {o}
    /\ Post(<<Reply("response", IF o[2] \in wCalls THEN o[2] ELSE 0, o[1])>>)
    /\ wCalls' = wCalls \ {o[2]}
    /\ UNCHANGED <<connectId, wOpen, engine, chan, transport, disturbed>>

\* The worker keeps the id of the call.
CallCancelled(o) ==
    /\ Answering /\ o \in ops
    /\ ops' = ops \ {o}
    /\ Post(<<Reply("cancelled", NoId, o[1])>>)
    /\ UNCHANGED <<tableVars, engine, chan, transport, disturbed>>

CutsReconnect == disturbed' = IF rc.pc = "idle" THEN disturbed
                                                ELSE disturbed \cup {"lost"}

\* A session error, or a packet the engine refuses.
EngineFails ==
    /\ OnWorker /\ transport = "open" /\ engine # "failed"
    /\ connections < MaxConnections
    /\ engine' = "failed"
    /\ Post(<<Lost>>)
    /\ CutsReconnect
    /\ UNCHANGED <<tableVars, chan, ops, transport>>

\* The gateway answers a call of an engine that has failed.
PacketDiscarded(o) ==
    /\ OnWorker /\ transport = "open" /\ engine = "failed" /\ o \in ops
    /\ ops' = ops \ {o}
    /\ Post(<<Lost>>)
    /\ UNCHANGED <<tableVars, engine, chan, transport, disturbed>>

\* onClosed: a WebSocket ends anywhere, a WebTransport once it is open and as
\* long as wt.closed is not rejected.
TransportLost ==
    /\ OnWorker
    /\ IF kind = "websocket" THEN transport \in {"connecting", "open"}
                             ELSE transport \in {"open", "stalled"}
    /\ connections < MaxConnections
    /\ transport' = "closed"
    /\ Post(<<Lost>>)
    /\ CutsReconnect
    /\ UNCHANGED <<tableVars, engine, chan, ops>>

\* #connectWebTransport and #readWtLoop: the attempt fails; the stream ends;
\* the session breaks, and nothing handles the rejection of wt.closed.  At most
\* onTransportError is called.
TransportFails ==
    /\ OnWorker /\ kind = "webtransport"
    /\ \/ transport \in {"connecting", "open", "stalled"} /\ transport' = "failed"
       \/ transport = "open" /\ transport' = "stalled"
    /\ connections < MaxConnections
    /\ Post(<<>>)
    /\ CutsReconnect
    /\ UNCHANGED <<tableVars, engine, chan, ops>>

-----------------------------------------------------------------------------
MainStep ==
    \/ MainReady \/ MainConnected \/ MainOpened \/ MainRejected
    \/ MainResponse \/ MainCancelled \/ MainClosed \/ MainLost

WorkerStep ==
    \/ WorkerInit \/ WorkerConnect \/ WorkerReconnect \/ WorkerOpen
    \/ WorkerUse \/ WorkerUnsubscribe \/ WorkerClose

AppStep ==
    \/ \E c \in Channels :
          AppOpen(c) \/ AppCall(c) \/ AppSend(c) \/ AppUnsubscribe(c)
    \/ AppReconnect
    \/ AppClose

Next ==
    \/ MainStep
    \/ WorkerStep
    \/ AppStep
    \/ Connects \/ SessionReady
    \/ \E c \in Channels, ok \in BOOLEAN : OpenAnswered(c, ok)
    \/ \E o \in ops : CallAnswered(o) \/ CallCancelled(o) \/ PacketDiscarded(o)
    \/ EngineFails \/ TransportLost \/ TransportFails

Spec == Init /\ [][Next]_vars

\* Both threads run; an attempt to connect ends, one way or the other; a gateway
\* that is reached lets the session in and answers every open and every call.
FairSpec ==
    /\ Spec
    /\ WF_vars(MainStep) /\ WF_vars(WorkerStep)
    /\ WF_vars(Connects) /\ WF_vars(SessionReady)
    /\ \A c \in Channels : WF_vars(\E ok \in BOOLEAN : OpenAnswered(c, ok))
    /\ \A o \in Services \X (1 .. MaxRequests) :
          WF_vars(CallAnswered(o) \/ CallCancelled(o))

-----------------------------------------------------------------------------
\* The values of the variables.
TypeOK ==
    /\ app \in {"creating", "failed", "using", "closed"}
    /\ pending \subseteq [type : {"init", "connect", "reconnect", "open",
                                  "call", "send", "unsubscribe", "close"},
                          id : 1 .. nextRequest - 1, ch : Channels \cup {0}]
    /\ rc.pc \in {"idle", "await", "reopen"}
    /\ {reconnecting, auto} \subseteq BOOLEAN
    /\ attempts \in 0 .. MaxAttempts
    /\ host \in {"none", "live", "disposed"}
    /\ chan \in [Channels -> {"none", "opening", "active", "closed"}]
    /\ engine \in {"new", "ready", "failed"}
    /\ kind \in Transports
    /\ transport \in {"none", "connecting", "open", "stalled", "failed",
                      "closed"}
    /\ held \subseteq Channels

(***************************************************************************)
(* No promise is orphaned between the threads, and none is settled by an   *)
(* answer meant for another: whatever overlaps, every request pending on   *)
(* the main thread is on its way to the worker, in the table of the worker *)
(* that will answer it, or answered on the way back; and a reply with its  *)
(* id is of the kind it waits for, about its channel.  (A close of a       *)
(* channel is never answered: client.ts awaits a reply to unsubscribe that *)
(* io-worker.ts does not send.)  The exception is an open made while a     *)
(* reconnect waits for its session: the reconnect finds the channel        *)
(* tracked and opens it again.                                             *)
(***************************************************************************)
AnswerTo(p) ==
    CASE p.type \in {"connect", "reconnect"} -> {"connected", "error"}
      [] p.type = "open" -> {"opened", "openFailed", "error"}
      [] p.type = "call" -> {"response", "error"}
      [] p.type = "send" -> {"ack", "error"}
      [] p.type = "close" -> {"closed"}
      [] OTHER -> {"error"}

Kept(p) ==
    \/ \E i \in DOMAIN toWorker : toWorker[i] = p
    \/ \E i \in DOMAIN toMain : toMain[i].id = p.id
    \/ p.type = "init" /\ \E i \in DOMAIN toMain : toMain[i].type = "ready"
    \/ p.type \in {"connect", "reconnect"} /\ connectId = p.id
    \/ p.type = "open" /\ wOpen[p.ch] = p.id
    \/ p.type = "call" /\ p.id \in wCalls
    \/ p.type = "unsubscribe"

RequestsKept ==
    app # "closed" /\ "open" \notin disturbed =>
        \A p \in pending :
            /\ Kept(p)
            /\ \A i \in DOMAIN toMain : toMain[i].id = p.id =>
                  toMain[i].type \in AnswerTo(p) /\ toMain[i].ch \in {0, p.ch}

(***************************************************************************)
(* The automatic reconnect never tears down a connection that works: when  *)
(* it starts, the engine has failed or the transport is gone, although     *)
(* several closed messages report one loss and may arrive late.  Overlaps  *)
(* clear #reconnecting too early and are the exception.                    *)
(***************************************************************************)
RetriesForCause ==
    [][ attempts' > attempts /\ "overlap" \notin disturbed
        => engine = "failed" \/ transport = "closed" ]_vars

(***************************************************************************)
(* types.ts: reconnect() "re-opens subscribe, publish, service, and action *)
(* channels with the same client-assigned channel IDs so existing session  *)
(* objects keep working": at rest on a ready session, the channels of the  *)
(* application's objects are tracked and open, and no others are open.     *)
(***************************************************************************)
AtRest ==
    /\ app = "using" /\ host = "live"
    /\ toWorker = <<>> /\ toMain = <<>>
    /\ rc.pc = "idle" /\ \A c \in Channels : ~Opening(c)
    /\ engine = "ready" /\ transport = "open"

Restored ==
    /\ \A c \in held : c \in tracked /\ chan[c] = "active"
    /\ \A c \in Channels : chan[c] = "active" => c \in tracked

(***************************************************************************)
(* It holds of the reconnects that are left alone: not overlapped by a     *)
(* second one, not cut short by a loss or a refusal, and without use of a  *)
(* channel that is not open again yet.                                     *)
(***************************************************************************)
QuietlyRestored == disturbed = {} /\ AtRest => Restored

\* The connection is gone and its close is not reported.
Unreported == transport \in {"stalled", "failed"}

(***************************************************************************)
(* docs/api.md: "On transport close, start a new session and re-open       *)
(* channels", up to reconnectAttempts times: a connection that is down is  *)
(* replaced and its channels reopened, unless the attempts are used up,    *)
(* the client is closed, or the reconnect is disturbed.  A WebSocket's     *)
(* end is always reported; a WebTransport that fails without a close event *)
(* is not, nothing retries, and it is the exception.                       *)
(***************************************************************************)
Up == engine = "ready" /\ transport = "open" /\ rc.pc = "idle"
Troubled == disturbed # {} \/ ~auto \/ app \in {"failed", "closed"}

Recovers ==
    ~Up ~> \/ Up \/ Troubled \/ Unreported
           \/ rc.pc = "idle" /\ attempts = MaxAttempts

(***************************************************************************)
(* Every open and every call is settled: by its answer, by its failure, or *)
(* by the reconnect that replaces its connection; a call also ends with    *)
(* the use of its channel.  On a WebTransport that has failed without a    *)
(* close event nothing does.                                               *)
(***************************************************************************)
Waiting(c) ==
    \E p \in pending :
        p.ch = c /\ (p.type = "open" \/ (p.type = "call" /\ c \in held))

Settles ==
    \A c \in Channels :
        Waiting(c) ~> \/ ~Waiting(c) \/ Troubled \/ Unreported
                      \/ rc.pc = "idle" /\ attempts = MaxAttempts
=============================================================================
