----------------------------- MODULE Reconnect ------------------------------
(***************************************************************************)
(* Reconnection in the TypeScript client (InlineClient in client.ts over   *)
(* IoHost in host.ts).  A reconnect() call replaces the engine and the     *)
(* transport, waits for SessionReady, and reopens the tracked channels one *)
(* after the other under their old ids.  Calls are asynchronous and may    *)
(* overlap: one per entry of Calls.  JavaScript runs a callback and the    *)
(* promise reactions it causes to completion before the next event, so a   *)
(* call that is not waiting for the network moves before anything else.    *)
(*                                                                         *)
(* The two transports end differently.  A WebSocket always ends with a     *)
(* close event.  A WebTransport that does not come up, or that breaks, has *)
(* none: the error callback is all the client hears, if it hears that.     *)
(***************************************************************************)
EXTENDS Integers, Sequences, FiniteSets

CONSTANTS
    Channels,       \* channel ids, 1 and on
    Topics,         \* those that are subscriptions or publishers
    Transports,     \* websocket, webtransport
    Calls,          \* reconnect() calls that may be in progress together
    MaxAttempts,    \* reconnectAttempts
    MaxConnections  \* bound: connections made

ASSUME ReconnectAssumption ==
    /\ Topics \subseteq Channels
    /\ Transports \subseteq {"websocket", "webtransport"}
    /\ IsFiniteSet(Channels)
    /\ Channels = 1 .. Cardinality(Channels)
    /\ {MaxAttempts, MaxConnections} \subseteq Nat

VARIABLES
    kind,           \* #options.transport
    transport,      \* of the current connection: connecting, open, closed;
                    \* stalled (its stream has ended, the session has not);
                    \* failed (no close event comes)
    sessionReady,   \* #sessionReady
    reconnecting,   \* #reconnecting
    attempts,       \* #reconnectAttempts
    waiters,        \* #connectWaiters: calls, in the order they will resume
    call,           \* [Calls -> state of the reconnect() call]
    channels,       \* #channels: the tracked channels
    inflight,       \* #pendingCalls: connections that owe an answer
    nextChannel,    \* #nextChannel
    disposed,       \* close() was called
    connection,     \* history: connections made
    opened,         \* history: [Channels -> opens sent on this connection]
    held,           \* history: channels the application has, not refused
    disturbed       \* history: a reconnect was cut short

netVars == <<kind, transport, connection>>
appVars == <<nextChannel, held>>
vars == <<kind, transport, sessionReady, reconnecting, attempts, waiters, call,
          channels, inflight, nextChannel, disposed, connection, opened, held,
          disturbed>>

\* pc: idle, await (SessionReady) or reopen.  opening: the channel whose open
\* the call awaits, or 0.
IdleCall == [pc |-> "idle", auto |-> FALSE, todo |-> {}, opening |-> 0]

Init ==
    /\ kind \in Transports
    /\ transport = "connecting"
    /\ sessionReady = FALSE
    /\ reconnecting = FALSE
    /\ attempts = 0
    /\ waiters = <<>>
    /\ call = [p \in Calls |-> IdleCall]
    /\ channels = {}
    /\ inflight = {}
    /\ nextChannel = 1
    /\ disposed = FALSE
    /\ connection = 1
    /\ opened = [c \in Channels |-> 0]
    /\ held = {}
    /\ disturbed = FALSE

\* A call can run without waiting for the network.
Runnable(p) == call[p].pc = "reopen" /\ call[p].opening = 0

Settled == \A p \in Calls : ~Runnable(p)
Idle == \A p \in Calls : call[p].pc = "idle"

-----------------------------------------------------------------------------
(* reconnect() *)

\* The reopen of these calls is rejected: each throws, and its finally block
\* clears #reconnecting.  What it had left to reopen is dropped.
Thrown(calls, ps) == [p \in Calls |-> IF p \in ps THEN IdleCall ELSE calls[p]]

Awaiting(calls) == {p \in Calls : calls[p].opening # 0}

\* Fault: nothing is rejected.
RejectInflightNothing(pending) == pending

\* #rejectInflight: every promise still pending is rejected and forgotten.
RejectInflight(pending) == {}

\* The synchronous part of reconnect(), from a state in which the calls are
\* calls: reject what is in flight, replace engine and transport, wait.  The
\* opens it rejects make their calls throw after it set #reconnecting.
StartReconnect(p, auto, calls) ==
    LET thrown == Awaiting(calls)
    IN  /\ calls[p].pc = "idle"
        /\ connection < MaxConnections
        /\ connection' = connection + 1
        /\ transport' = "connecting"
        /\ sessionReady' = FALSE
        /\ reconnecting' = (thrown = {})
        /\ inflight' = RejectInflight(inflight)
        /\ opened' = [c \in Channels |-> 0]
        /\ call' = [Thrown(calls, thrown) EXCEPT
                       ![p] = [IdleCall EXCEPT !.pc = "await", !.auto = auto]]
        /\ waiters' = Append(waiters, p)

ManualReconnect(p) ==
    /\ Settled /\ ~disposed
    /\ StartReconnect(p, FALSE, call)
    /\ disturbed' = (disturbed \/ ~Idle)
    /\ UNCHANGED <<kind, attempts, channels, disposed, appVars>>

\* Fault: every waiter reopens the channels.
SnapshotForAll(p) == channels

\* #reopenChannels takes the tracked channels and clears them, so that only
\* the first of several waiters gets any.
Snapshot(p) == IF waiters[1] = p THEN channels ELSE {}

\* onEvent sessionReady: every waiter resumes, in order.
SessionReady ==
    /\ Settled /\ ~disposed
    /\ transport = "open" /\ ~sessionReady
    /\ sessionReady' = TRUE
    /\ waiters' = <<>>
    /\ call' = [p \in Calls |->
                   IF \E i \in DOMAIN waiters : waiters[i] = p
                   THEN [call[p] EXCEPT !.pc = "reopen",
                            !.todo = Snapshot(p)]
                   ELSE call[p]]
    /\ channels' = IF waiters = <<>> THEN channels ELSE {}
    /\ UNCHANGED <<netVars, reconnecting, attempts, inflight, disposed, opened,
                   appVars, disturbed>>

\* reopenTrackedChannels: open the next channel under its old id, in the order
\* of the map, which is that of the ids.
ReopenNext(p, c) ==
    /\ Runnable(p) /\ c \in call[p].todo
    /\ \A k \in call[p].todo : c <= k
    /\ call' = [call EXCEPT ![p].todo = @ \ {c}, ![p].opening = c]
    /\ opened' = [opened EXCEPT ![c] = @ + 1]
    /\ UNCHANGED <<netVars, sessionReady, reconnecting, attempts, waiters,
                   channels, inflight, disposed, appVars, disturbed>>

\* Fault: no finally block.
ReopenDoneNoFinally(p) ==
    /\ Runnable(p) /\ call[p].todo = {}
    /\ call' = [call EXCEPT ![p] = IdleCall]
    /\ attempts' = IF call[p].auto THEN 0 ELSE attempts
    /\ UNCHANGED <<netVars, sessionReady, reconnecting, waiters, channels,
                   inflight, disposed, opened, appVars, disturbed>>

\* Nothing left: reconnect() returns, and an automatic one resets the count.
ReopenDone(p) ==
    /\ Runnable(p) /\ call[p].todo = {}
    /\ call' = [call EXCEPT ![p] = IdleCall]
    /\ reconnecting' = FALSE
    /\ attempts' = IF call[p].auto THEN 0 ELSE attempts
    /\ UNCHANGED <<netVars, sessionReady, waiters, channels, inflight,
                   disposed, opened, appVars, disturbed>>

\* Fault: an answered open is not tracked.
TrackedNot(c) == channels

\* #channels after the open of c was answered.
Tracked(c) == channels \cup {c}

\* The open is answered: subscribed, published and so on track the channel.
Reopened(p) ==
    /\ Settled /\ ~disposed
    /\ transport = "open" /\ call[p].opening # 0
    /\ call' = [call EXCEPT ![p].opening = 0]
    /\ channels' = Tracked(call[p].opening)
    /\ UNCHANGED <<netVars, sessionReady, reconnecting, attempts, waiters,
                   inflight, disposed, opened, appVars, disturbed>>

\* subscribeFailed and so on: the call throws.
ReopenDenied(p) ==
    /\ Settled /\ ~disposed
    /\ transport = "open" /\ call[p].opening # 0
    /\ call' = Thrown(call, {p})
    /\ reconnecting' = FALSE
    /\ disturbed' = TRUE
    /\ held' = held \ {call[p].opening}
    /\ UNCHANGED <<netVars, sessionReady, attempts, waiters, channels,
                   inflight, disposed, opened, nextChannel>>

-----------------------------------------------------------------------------
(* The transport. *)

Connects ==
    /\ Settled /\ ~disposed
    /\ transport = "connecting"
    /\ transport' = "open"
    /\ UNCHANGED <<kind, sessionReady, reconnecting, attempts, waiters,
                   call, channels, inflight, disposed, connection, opened,
                   appVars, disturbed>>

\* #autoReconnect: the attempts are not used up.
MayRetry == attempts < MaxAttempts

\* The calls onTransportError makes throw, if it is called: it rejects the
\* opens of topics.
ErrorThrows(error) ==
    IF error THEN {p \in Awaiting(call) : call[p].opening \in Topics} ELSE {}

\* Where the connection can end with a close event: a WebSocket anywhere, a
\* WebTransport once it is open and as long as wt.closed is not rejected.
Closeable ==
    IF kind = "websocket" THEN transport \in {"connecting", "open"}
                          ELSE transport \in {"open", "stalled"}

\* The connection is closed, with or without an error before the close event.
\* The close starts a reconnect unless one is in progress or the attempts are
\* used up.
Disconnects(error) ==
    LET thrown == ErrorThrows(error)
        calls == Thrown(call, thrown)
        stillReconnecting == reconnecting /\ thrown = {}
    IN  /\ Settled /\ ~disposed
        /\ connection < MaxConnections
        /\ Closeable
        /\ error => transport # "stalled"
        /\ IF stillReconnecting \/ ~MayRetry
           THEN /\ transport' = "closed"
                /\ call' = calls
                /\ reconnecting' = stillReconnecting
                /\ UNCHANGED <<connection, sessionReady, attempts, waiters,
                               inflight, opened>>
           ELSE /\ \E p \in Calls : StartReconnect(p, TRUE, calls)
                /\ attempts' = attempts + 1
        /\ disturbed' = (disturbed \/ ~Idle)
        /\ UNCHANGED <<kind, channels, disposed, appVars>>

\* #connectWebTransport and #readWtLoop: the attempt fails; the stream ends,
\* with an error or without; the session breaks, and wt.closed is rejected,
\* which nothing handles.  No close event, no retry.
FailsUnreported(error, end) ==
    LET thrown == ErrorThrows(error)
    IN  /\ Settled /\ ~disposed
        /\ kind = "webtransport"
        /\ \/ transport = "connecting" /\ end = "failed" /\ error
           \/ transport = "open" /\ end \in {"stalled", "failed"}
           \/ transport = "stalled" /\ end = "failed" /\ ~error
        /\ transport' = end
        /\ call' = Thrown(call, thrown)
        /\ reconnecting' = (reconnecting /\ thrown = {})
        /\ disturbed' = (disturbed \/ ~Idle)
        /\ UNCHANGED <<kind, connection, sessionReady, attempts, waiters,
                       channels, inflight, disposed, opened, appVars>>

-----------------------------------------------------------------------------
(* The application. *)

Online == Settled /\ ~disposed /\ transport = "open" /\ sessionReady

\* A new channel, answered.  An open that a reconnect rejects leaves no trace.
AppOpen(c) ==
    /\ Online /\ Idle
    /\ c = nextChannel
    /\ nextChannel' = c + 1
    /\ opened' = [opened EXCEPT ![c] = 1]
    /\ channels' = Tracked(c)
    /\ held' = held \cup {c}
    /\ UNCHANGED <<netVars, sessionReady, reconnecting, attempts, waiters,
                   call, inflight, disposed, disturbed>>

AppUnsubscribe(c) ==
    /\ Online
    /\ c \in held /\ c \in channels
    /\ channels' = channels \ {c}
    /\ held' = held \ {c}
    /\ UNCHANGED <<netVars, sessionReady, reconnecting, attempts, waiters,
                   call, inflight, disposed, opened, nextChannel, disturbed>>

AppCall ==
    /\ Online
    /\ inflight' = inflight \cup {connection}
    /\ UNCHANGED <<netVars, sessionReady, reconnecting, attempts, waiters,
                   call, channels, disposed, opened, appVars, disturbed>>

\* The answers that are owed arrive.
CallAnswered ==
    /\ Online
    /\ inflight' = inflight \ {connection}
    /\ UNCHANGED <<netVars, sessionReady, reconnecting, attempts, waiters,
                   call, channels, disposed, opened, appVars, disturbed>>

AppClose ==
    /\ Settled /\ ~disposed
    /\ disposed' = TRUE
    /\ transport' = "closed"
    /\ UNCHANGED <<kind, sessionReady, reconnecting, attempts, waiters,
                   call, channels, inflight, connection, opened, appVars,
                   disturbed>>

Next ==
    \/ \E p \in Calls :
          \/ ManualReconnect(p)
          \/ \E c \in Channels : ReopenNext(p, c)
          \/ ReopenDone(p)
          \/ Reopened(p)
          \/ ReopenDenied(p)
    \/ SessionReady
    \/ Connects
    \/ \E error \in BOOLEAN :
          \/ Disconnects(error)
          \/ \E end \in {"stalled", "failed"} : FailsUnreported(error, end)
    \/ \E c \in Channels : AppOpen(c) \/ AppUnsubscribe(c)
    \/ AppCall
    \/ CallAnswered
    \/ AppClose

Spec == Init /\ [][Next]_vars

\* JavaScript runs what can run; an attempt to connect ends, one way or the
\* other; a gateway that is reached answers.
FairSpec ==
    /\ Spec
    /\ WF_vars(Connects)
    /\ WF_vars(SessionReady)
    /\ \A p \in Calls :
          /\ WF_vars(Reopened(p))
          /\ WF_vars(ReopenDone(p) \/ \E c \in Channels : ReopenNext(p, c))

-----------------------------------------------------------------------------
\* The values of the variables.
TypeOK ==
    /\ kind \in Transports
    /\ transport \in {"connecting", "open", "stalled", "failed", "closed"}
    /\ {sessionReady, reconnecting, disposed} \subseteq BOOLEAN
    /\ attempts \in 0 .. MaxAttempts
    /\ call \in [Calls -> [pc : {"idle", "await", "reopen"}, auto : BOOLEAN,
                           todo : SUBSET Channels,
                           opening : Channels \cup {0}]]
    /\ {waiters[i] : i \in DOMAIN waiters}
          = {p \in Calls : call[p].pc = "await"}
    /\ channels \subseteq Channels /\ held \subseteq Channels
    /\ nextChannel \in Nat

(***************************************************************************)
(* No call outlives its session: whatever sequence of failures and         *)
(* overlapping reconnects, a promise still pending was made on the current *)
(* connection, so that a response can only settle the call it answers.     *)
(***************************************************************************)
InflightIsCurrent == inflight \subseteq {connection}

(***************************************************************************)
(* A channel id is opened at most once per connection, although two        *)
(* overlapping reconnects both want to reopen: a second OpenChannel for an *)
(* id would make the session fail.                                         *)
(***************************************************************************)
OpenedOncePerConnection == \A c \in Channels : opened[c] <= 1

(***************************************************************************)
(* types.ts: a reconnect "re-opens subscribe, publish, service, and action *)
(* channels with the same client-assigned channel IDs so existing session  *)
(* objects keep working": whenever the client is connected and no          *)
(* reconnect is in progress, every channel the application holds, and was  *)
(* not refused, is open.                                                   *)
(***************************************************************************)
ChannelsRestored ==
    Online /\ Idle => \A c \in held : c \in channels /\ opened[c] = 1

(***************************************************************************)
(* The same of the reconnects that were left alone: as long as none was    *)
(* cut short by a loss, a refusal or another reconnect(), every channel    *)
(* comes back, over any number of connections.                             *)
(***************************************************************************)
QuietlyRestored == ~disturbed => ChannelsRestored

(***************************************************************************)
(* docs/api.md: "On transport close, start a new session and re-open       *)
(* channels", up to reconnectAttempts times: a lost connection is          *)
(* eventually replaced, unless the attempts are used up or the client is   *)
(* closed.                                                                 *)
(***************************************************************************)
Recovered ==
    \/ Online
    \/ transport = "closed" /\ attempts = MaxAttempts
    \/ disposed

Recovers == transport # "open" ~> Recovered

\* The connection is gone and its close is not reported.
Unreported == transport \in {"stalled", "failed"}

(***************************************************************************)
(* The same where the code brings it about: of the losses that a close     *)
(* event reports, and of the reconnects that were left alone.  A           *)
(* WebSocket's losses all are.  A WebTransport's attempt that fails, or    *)
(* session that breaks, is not, and the client stays down until reconnect()*)
(* is called; those, and the reconnects a loss, a refusal or another       *)
(* reconnect() cuts short, are the only ways to stay down with attempts    *)
(* left.                                                                   *)
(***************************************************************************)
QuietlyRecovers ==
    transport # "open" /\ ~disturbed ~> Recovered \/ disturbed \/ Unreported
=============================================================================
