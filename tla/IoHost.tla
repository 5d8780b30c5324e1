------------------------------- MODULE IoHost -------------------------------
(***************************************************************************)
(* The host of the TypeScript library, host.ts: it owns the transport,     *)
(* queues what the application and the transport have for the engine,      *)
(* passes the queue to the engine in one turn at the next microtask, and   *)
(* gives the results to callbacks, which may call it again.  A sample that *)
(* finds the queue empty goes to its callback at once, around the engine.  *)
(*                                                                         *)
(* Every command of the application and every event of the engine occurs,  *)
(* though not in every state: the host treats them alike, the layouts of   *)
(* PollAbi do not.                                                         *)
(***************************************************************************)
EXTENDS PollAbi, FiniteSets

CONSTANTS
    MaxHostEvents,  \* MAX_HOST_EVENTS_PER_POLL
    Transports,     \* websocket, webtransport
    MaxEngines,     \* bound: engines, one for each connect and reconnect
    MaxCommands,    \* bound: commands of the application
    MaxFrames       \* bound: frames received

ASSUME IoHostAssumption ==
    /\ MaxHostEvents \in Nat \ {0} /\ MaxEngines \in Nat \ {0}
    /\ Transports \subseteq {"websocket", "webtransport"}
    /\ {MaxCommands, MaxFrames} \subseteq Nat

VARIABLES
    transport,      \* #connectOptions.transport
    pending,        \* #pending
    scheduled,      \* #flushScheduled, with the microtask
    started, closed, disposed,
    handle,         \* #handle, 0 when there is no engine
    links,          \* [attempt -> state of the transport it makes]
    current,        \* the attempt in #ws or #wt
    sink,           \* the attempt in #sink
    hostLeases, hostLeaseSeq,
    eng,            \* the engine: closed, nextLease, leases
    calls,          \* events whose callbacks are still to be called
    inCallback,     \* the last of them is running
    held,           \* leases the application has
    \* history
    engines,        \* engines made
    commands,       \* commands issued
    issued,         \* those for this engine, in order
    taken,          \* what the engine took for commands
    frames,         \* frames received
    arrived,        \* those for this engine, in order
    seen,           \* the frames whose event reached its callback
    lost,           \* why something may be missing
    ended           \* leases of this engine ended by the release of another's

hostVars == <<transport, pending, scheduled, started, closed, disposed, handle>>
linkVars == <<links, current, sink>>
leaseVars == <<hostLeases, hostLeaseSeq, held>>
historyVars == <<engines, commands, issued, taken, frames, arrived, seen, lost,
                ended>>
vars == <<hostVars, linkVars, leaseVars, eng, calls, inCallback, historyVars>>

NewEngine == [closed |-> FALSE, nextLease |-> 1, leases |-> {}]

-----------------------------------------------------------------------------
(* What the application and the engine say. *)

AppCommands == SelectSeq(Commands, LAMBDA c : c \notin {"start", "authenticate", "close"})
ControlEvents == SelectSeq(AppEvents, LAMBDA k : k \notin Leased \cup {"sample", "closed"})
DataEvents == SelectSeq(AppEvents, LAMBDA k : k \in Leased \cup {"sample"})

\* Which one it is follows from how far things have come, so that each occurs.
Some(seq) ==
    LET n == commands + frames + 4 * engines + (IF transport = "websocket" THEN 0 ELSE 7)
    IN  seq[(n % Len(seq)) + 1]

\* A value for every field, another for every field of a record.
Value(field, shape, i, len) ==
    CASE shape = "fields" ->
            <<[name |-> Text("name", len), offset |-> 5, datatype |-> 6, count |-> 7]>>
      [] shape = "optional" -> NoText
      [] shape \in DOMAIN LengthShape -> Text(field, len)
      [] shape \in {"pad2", "pad3"} -> 0
      [] OTHER -> i

Values(layout, len) ==
    [f \in {layout[i][1] : i \in DOMAIN layout} |->
        LET i == CHOOSE i \in DOMAIN layout : layout[i][1] = f
        IN  Value(f, layout[i][2], i, len)]

Lengths == {2, 65536}

\* What becomes of a command, with texts of some length, on its way to the
\* engine: whether the turn fails, and the command the engine reads.  A batch
\* is read event by event, and fails when one of its events does.
Crossed(command, read) ==
    [ok |-> Fits(<<command>>) /\ read.ok,
     cmd |-> IF read.got = <<command>> THEN command.cmd ELSE "another"]

Crossing ==
    [cmd \in Range(Commands) |-> [len \in Lengths |->
        LET command == [type |-> "command", cmd |-> cmd,
                        args |-> Values(decode_command(cmd), len)]
        IN  Crossed(command, decode_host_batch(encodeHostBatch(<<command>>)))]]

\* The same of an event on its way back, alone and after a frame to send.
Told(event, alone, after) ==
    [ok |-> alone.ok /\ after.ok,
     kind |-> IF alone.events = <<event>> /\ after.events = <<event>>
              THEN event.kind ELSE "another"]

Telling ==
    [kind \in Range(AppEvents) |->
        LET event == [kind |-> kind, args |-> Values(encode_app_event(kind), 2)]
            frame == [buffer |-> 1, ptr |-> 0, bytes |-> Text("bytes", 2)]
            read(outbound) == decodePollResult(encode_poll_result(
                [outbound |-> outbound, events |-> <<event>>, released |-> <<>>]))
        IN  Told(event, read(<<>>), read(<<frame>>))]

Command(cmd, len) == [type |-> "command", cmd |-> cmd, len |-> len]

\* A call of a callback with an event, under a lease or none (0): for frame n of
\* the engine h, or for none (0).
Call(n, h, kind, lease) == [n |-> n, handle |-> h, kind |-> kind, lease |-> lease]
Disposing == Call(0, 0, "dispose", 0)

-----------------------------------------------------------------------------
(* A turn of the engine (engine/mod.rs poll), as far as the host sees it. *)

\* "take(limit)": what is past the limit is dropped.
TakeEvents(events) ==
    SubSeq(events, 1, IF Len(events) < MaxHostEvents THEN Len(events) ELSE MaxHostEvents)

\* The turn t so far: the engine, what it took, the calls it leads to, the host
\* leases, whether the host threw or something was dropped, and the leases ended
\* by a release that was meant for another.
Turn == [eng |-> eng, took |-> <<>>, calls |-> <<>>, leases |-> hostLeases,
         seq |-> hostLeaseSeq, threw |-> FALSE, dropped |-> FALSE,
         ended |-> {}]

\* The result of a poll crosses the boundary and becomes a call.
Calls(t, told, n, lease) ==
    IF ~told.ok THEN [t EXCEPT !.threw = TRUE]
    ELSE [t EXCEPT !.calls = Append(@, Call(n, handle, told.kind, lease))]
Gives(t, n, kind, lease) == Calls(t, Telling[kind], n, lease)

\* poll: one event of the batch.
EngineTakes(t, e) ==
    CASE t.eng.closed -> [t EXCEPT !.dropped = TRUE]
      [] ~t.eng.closed /\ e.type = "releaseLease" ->
            [t EXCEPT !.eng.leases = @ \ {e.lease},
                      !.ended = IF e.of = handle THEN @
                                ELSE @ \cup (t.eng.leases \cap {e.lease})]
      [] ~t.eng.closed /\ e.type = "command" /\ e.cmd = "close" ->
            [t EXCEPT !.eng.closed = TRUE]
      [] OTHER ->
            [t EXCEPT !.took = Append(@, [e EXCEPT !.cmd = Crossing[e.cmd][e.len].cmd])]

\* pollEngineInline: a batch without frames.  A closed engine says so again.
InlineTurn(t, run) ==
    IF t.eng.closed THEN Gives(t, 0, "closed", 0)
    ELSE [t EXCEPT !.dropped = @ \/ Len(run) > MaxHostEvents]

PollInline(t, run) ==
    IF \E i \in DOMAIN run : run[i].type = "command" /\ ~Crossing[run[i].cmd][run[i].len].ok
    THEN [t EXCEPT !.threw = TRUE]
    ELSE InlineTurn(FoldLeft(EngineTakes, t, TakeEvents(run)), run)

\* allocHostLease: the frame is kept under an id of its own, with the top bit
\* set, which is a negative number here.
Pin(t, n) ==
    [t EXCEPT !.leases = @ \cup {[id |-> -t.seq, handle |-> handle]},
              !.seq = @ + 1,
              !.calls = Append(@, Call(n, handle, "sample", -t.seq))]

\* The engine and a frame: the body of a data frame stays with it under a lease.
Ingest(t, kind) ==
    CASE t.eng.closed -> [t EXCEPT !.dropped = TRUE]
      [] ~t.eng.closed /\ kind = "control" -> t
      [] ~t.eng.closed /\ kind = "data" ->
            [t EXCEPT !.eng.nextLease = @ + 1, !.eng.leases = @ \cup {t.eng.nextLease}]
      [] ~t.eng.closed /\ kind = "bad" ->
            [t EXCEPT !.eng.closed = TRUE, !.dropped = TRUE]

\* pollOneExternalWs: a sample stays with the host, whatever the engine; of the
\* other frames the engine gets the header, or all.
PollFrame(t, e) ==
    IF e.kind = "sample" THEN Pin(t, e.n)
    ELSE Gives(Ingest(t, e.kind), e.n,
               CASE t.eng.closed \/ e.kind = "bad" -> "closed"
                 [] ~t.eng.closed /\ e.kind = "control" -> Some(ControlEvents)
                 [] ~t.eng.closed /\ e.kind = "data" -> Some(DataEvents),
               IF e.kind = "data" /\ ~t.eng.closed THEN t.eng.nextLease ELSE 0)

\* The batch cut into frames and the runs of other events between them.
Runs(batch) ==
    FoldLeft(LAMBDA runs, e :
                IF \/ runs = <<>> \/ e.type = "wsBytes"
                   \/ Last(Last(runs)).type = "wsBytes"
                THEN Append(runs, <<e>>)
                ELSE Append(Front(runs), Append(Last(runs), e)),
             <<>>, batch)

\* pollEngine.  (dropHostReleases finds nothing to drop: releaseLease has looked
\* among the host's leases, and their ids are not used again.)
PollEngine(batch) ==
    FoldLeft(LAMBDA t, run :
                CASE t.threw \/ run = <<>> -> t
                  [] run # <<>> /\ run[1].type = "wsBytes" -> PollFrame(t, run[1])
                  [] OTHER -> PollInline(t, run),
             Turn, Runs(batch))

-----------------------------------------------------------------------------
(* The queue. *)

\* #enqueue
Enqueue(e) ==
    IF disposed THEN UNCHANGED <<pending, scheduled>>
    ELSE pending' = Append(pending, e) /\ scheduled' = TRUE

\* #flush of a batch, in place of the calls that are left or before them.  An
\* exception loses the results of the whole batch.
FlushOf(batch, later) ==
    \E t \in {PollEngine(batch)} :
        /\ eng' = t.eng
        /\ hostLeases' = t.leases
        /\ hostLeaseSeq' = t.seq
        /\ taken' = taken \o t.took
        /\ calls' = (IF t.threw THEN <<>> ELSE t.calls) \o later
        /\ lost' = lost \cup (IF t.threw THEN {"threw"} ELSE {})
                        \cup (IF t.dropped THEN {"dropped"} ELSE {})
        /\ ended' = ended \cup t.ended

\* The stack is empty, or a callback runs.
AppRuns == calls = <<>> \/ inCallback

\* The microtask.
Flush ==
    /\ scheduled /\ calls = <<>>
    /\ scheduled' = FALSE
    /\ IF handle = 0 \/ pending = <<>>
       THEN UNCHANGED <<pending, eng, hostLeases, hostLeaseSeq, taken, calls, lost,
                        ended>>
       ELSE pending' = <<>> /\ FlushOf(pending, <<>>)
    /\ inCallback' = FALSE
    /\ UNCHANGED <<transport, started, closed, disposed, handle, linkVars, held,
                   engines, commands, issued, frames, arrived, seen>>

-----------------------------------------------------------------------------
(* The application. *)

\* A command, with short texts or with some of 64 KiB.
Issue ==
    /\ AppRuns /\ commands < MaxCommands
    /\ LET command == Command(Some(AppCommands), Some(<<2, 2, 65536, 2>>))
       IN  /\ Enqueue(command)
           /\ issued' = IF disposed THEN issued ELSE Append(issued, command)
    /\ commands' = commands + 1
    /\ UNCHANGED <<transport, started, closed, disposed, handle, linkVars, leaseVars,
                   eng, calls, inCallback, engines, taken, frames, arrived,
                   seen, lost, ended>>

\* releaseLease: one of the host's leases ends at once, another is the engine's.
\* The ids of an engine's leases begin again with every engine, and the release
\* does not say whose it is (`of` is history).
Release(lease) ==
    /\ AppRuns /\ lease \in held
    /\ held' = held \ {lease}
    /\ IF \E l \in hostLeases : l.id = lease.id
       THEN /\ hostLeases' = {l \in hostLeases : l.id # lease.id}
            /\ UNCHANGED <<pending, scheduled>>
       ELSE /\ Enqueue([type |-> "releaseLease", lease |-> lease.id,
                        of |-> lease.handle])
            /\ UNCHANGED hostLeases
    /\ UNCHANGED <<transport, started, closed, disposed, handle, linkVars, hostLeaseSeq,
                   eng, calls, inCallback, historyVars>>

\* sink.close(), when there is one.
CloseSink ==
    links' = IF sink = 0 \/ links[sink] = "closed" THEN links
             ELSE [links EXCEPT ![sink] = "closing"]

\* connect(): a WebSocket is there at once, WebTransport first awaits hashes.
ConnectAs(i, known) ==
    IF transport = "websocket"
    THEN links' = [known EXCEPT ![i] = "opening"] /\ current' = i /\ sink' = i
    ELSE links' = [known EXCEPT ![i] = "fetching"] /\ current' = 0 /\ sink' = 0

\* Fault: the engine's leases with the host outlive it.
FreedLeasesNone == hostLeases

\* rclweb_engine_free with dropHostEngine
FreedLeases == {l \in hostLeases : l.handle # handle}

\* reconnect(): all of it before its promise resolves.
Reconnect ==
    /\ AppRuns /\ engines < MaxEngines
    /\ LET h == engines + 1
           known == IF sink = 0 \/ links[sink] = "closed" THEN links
                    ELSE [links EXCEPT ![sink] = "closing"]
       IN  handle' = h /\ engines' = h /\ ConnectAs(h, known)
    /\ closed' = FALSE
    /\ started' = FALSE
    /\ pending' = <<>>
    /\ hostLeases' = FreedLeases
    /\ eng' = NewEngine
    /\ issued' = <<>> /\ taken' = <<>> /\ arrived' = <<>> /\ seen' = <<>>
    /\ lost' = {} /\ ended' = {}
    /\ UNCHANGED <<transport, scheduled, disposed, hostLeaseSeq, held, calls, inCallback,
                   commands, frames>>

\* What dispose() does after close().
DisposeRest ==
    /\ pending' = <<>>
    /\ scheduled' = FALSE
    /\ disposed' = TRUE
    /\ handle' = 0
    /\ eng' = [NewEngine EXCEPT !.closed = TRUE]

\* dispose(): close() tells the engine in a turn of its own, whose callbacks come
\* before the rest.
Dispose ==
    /\ AppRuns /\ ~disposed
    /\ IF closed
       THEN /\ DisposeRest
            /\ hostLeases' = FreedLeases
            /\ lost' = lost \cup {"disposed"}
            /\ UNCHANGED <<closed, links, hostLeaseSeq, taken, calls, inCallback,
                           ended>>
       ELSE /\ closed' = TRUE
            /\ CloseSink
            /\ pending' = <<>>
            /\ scheduled' = TRUE
            /\ FlushOf(Append(pending, Command("close", 2)), <<Disposing>> \o calls)
            /\ inCallback' = FALSE
            /\ UNCHANGED <<disposed, handle>>
    /\ UNCHANGED <<transport, started, current, sink, held, engines, commands,
                   issued, frames, arrived, seen>>

\* The next callback.  Bootstrap is followed by authenticate.
Deliver ==
    LET call == Head(calls)
        bootstrap == call.kind = "bootstrapComplete" /\ ~started
    IN  /\ calls # <<>> /\ call # Disposing
        /\ calls' = Tail(calls)
        /\ inCallback' = (Tail(calls) # <<>>)
        /\ started' = (started \/ bootstrap)
        /\ IF bootstrap
           THEN /\ pending' = Append(pending, Command("authenticate", 2))
                /\ scheduled' = ~disposed
           ELSE UNCHANGED <<pending, scheduled>>
        /\ held' = IF call.lease # 0
                   THEN held \cup {[id |-> call.lease, handle |-> call.handle]}
                   ELSE held
        /\ seen' = IF call.n > 0 /\ call.handle = handle THEN Append(seen, call.n)
                                                         ELSE seen
        /\ UNCHANGED <<transport, closed, disposed, handle, linkVars, hostLeases,
                       hostLeaseSeq, eng, engines, commands, issued, taken,
                       frames, arrived, lost, ended>>

DeliverDispose ==
    /\ calls # <<>> /\ Head(calls) = Disposing
    /\ calls' = Tail(calls)
    /\ inCallback' = (Tail(calls) # <<>>)
    /\ DisposeRest
    /\ hostLeases' = FreedLeases
    /\ lost' = lost \cup {"disposed"}
    /\ UNCHANGED <<transport, started, closed, linkVars, hostLeaseSeq, held, engines,
                   commands, issued, taken, frames, arrived, seen, ended>>

-----------------------------------------------------------------------------
(* The transport. *)

OnLink(i) == calls = <<>> /\ i \in DOMAIN links

\* #connectWebTransport goes on, whatever has become of the host.
Fetched(i, ok) ==
    /\ OnLink(i) /\ links[i] = "fetching"
    /\ links' = [links EXCEPT ![i] = IF ok THEN "opening" ELSE "closed"]
    /\ current' = IF ok THEN i ELSE current
    /\ UNCHANGED <<hostVars, sink, leaseVars, eng, calls, inCallback, historyVars>>

Opens(i) ==
    /\ OnLink(i) /\ links[i] = "opening"
    /\ links' = [links EXCEPT ![i] = "open"]
    /\ sink' = i
    /\ Enqueue(Command("start", 2))
    /\ UNCHANGED <<transport, started, closed, disposed, handle, current, leaseVars, eng,
                   calls, inCallback, historyVars>>

\* The close event of a WebSocket.  WebTransport tells its end in wt.closed, once
\* it is open and only if that ends cleanly: nobody waits for its rejection.
Closes(i, cleanly) ==
    /\ OnLink(i) /\ links[i] \in {"opening", "open", "closing"}
    /\ links' = [links EXCEPT ![i] = "closed"]
    /\ closed' = \/ closed
                 \/ /\ i = current
                    /\ transport = "websocket" \/ (links[i] # "opening" /\ cleanly)
    /\ UNCHANGED <<transport, pending, scheduled, started, disposed, handle, current,
                   sink, leaseVars, eng, calls, inCallback, historyVars>>

\* Fault: a sample goes to its callback although the queue is not empty.
IdleAlways == TRUE

\* The queue is idle.
Idle == pending = <<>>

\* #ingestWsBytes
Receives(i, kind) ==
    /\ OnLink(i) /\ links[i] = "open" /\ frames < MaxFrames
    /\ frames' = frames + 1
    /\ IF disposed \/ handle = 0
       THEN UNCHANGED <<pending, scheduled, hostLeases, hostLeaseSeq, calls, inCallback,
                        arrived>>
       ELSE /\ arrived' = Append(arrived, frames + 1)
            /\ IF Idle /\ kind = "sample"
               THEN LET t == Pin(Turn, frames + 1)
                    IN  /\ hostLeases' = t.leases
                        /\ hostLeaseSeq' = t.seq
                        /\ calls' = t.calls
                        /\ inCallback' = FALSE
                        /\ UNCHANGED <<pending, scheduled>>
               ELSE /\ Enqueue([type |-> "wsBytes", n |-> frames + 1, kind |-> kind])
                    /\ UNCHANGED <<hostLeases, hostLeaseSeq, calls, inCallback>>
    /\ UNCHANGED <<transport, started, closed, disposed, handle, linkVars, held, eng,
                   engines, commands, issued, taken, seen, lost, ended>>

-----------------------------------------------------------------------------
\* create() and connect() have been called.
Init ==
    /\ transport \in Transports
    /\ pending = <<>> /\ scheduled = FALSE
    /\ started = FALSE /\ closed = FALSE /\ disposed = FALSE
    /\ handle = 1 /\ engines = 1 /\ eng = NewEngine
    /\ links = [i \in 1 .. MaxEngines |->
                  IF i > 1 THEN "none"
                  ELSE IF transport = "websocket" THEN "opening" ELSE "fetching"]
    /\ current = (IF transport = "websocket" THEN 1 ELSE 0)
    /\ sink = current
    /\ hostLeases = {} /\ hostLeaseSeq = 1 /\ held = {}
    /\ calls = <<>> /\ inCallback = FALSE
    /\ commands = 0 /\ issued = <<>> /\ taken = <<>>
    /\ frames = 0 /\ arrived = <<>> /\ seen = <<>>
    /\ lost = {} /\ ended = {}

Next ==
    \/ Flush \/ Deliver \/ DeliverDispose
    \/ Issue
    \/ \E lease \in held : Release(lease)
    \/ Reconnect \/ Dispose
    \/ \E i \in DOMAIN links :
          \/ \E ok \in BOOLEAN : Fetched(i, ok)
          \/ Opens(i)
          \/ \E cleanly \in BOOLEAN : Closes(i, cleanly)
          \/ \E kind \in {"sample", "control", "data", "bad"} : Receives(i, kind)

Spec == Init /\ [][Next]_vars

-----------------------------------------------------------------------------
(* Properties. *)

\* The commands of the application among some events.
AppOnly(events) ==
    SelectSeq(events, LAMBDA e : e.type = "command" /\ e.cmd \in Range(AppCommands))

\* A text that its u16 length cannot tell.
TooLong(command) ==
    LET layout == decode_command(command.cmd)
    IN  /\ command.len >= 65536
        /\ \E i \in DOMAIN layout : layout[i][2] \in {"text16", "fields"}

\* Every command the application issues reaches the engine, once, in order and
\* with the arguments it was issued with, through a batch one side writes and
\* the other reads; only a text of 64 KiB in a short field makes a turn fail,
\* and only a batch past the limit, or a closed engine, loses a command.
CommandsInOrder ==
    /\ lost = {} => AppOnly(taken) \o AppOnly(pending) = issued
    /\ "threw" \in lost => \E i \in DOMAIN issued : TooLong(issued[i])

FramesIn(events) ==
    LET of == SelectSeq(events, LAMBDA e : e.type = "wsBytes")
    IN  [i \in DOMAIN of |-> of[i].n]

FramesOf(some) ==
    LET of == SelectSeq(some, LAMBDA c : c.n > 0 /\ c.handle = handle)
    IN  [i \in DOMAIN of |-> of[i].n]

\* The frames of a connection reach their callbacks in the order in which they
\* came, the sample that goes around the engine never overtakes what waits for
\* it, none is lost while no turn fails and the engine is open, and a callback
\* is told what the engine said.
DeliveredInOrder ==
    /\ \A i, j \in DOMAIN seen : i < j => seen[i] < seen[j]
    /\ lost = {} => seen \o FramesOf(calls) \o FramesIn(pending) = arrived
    /\ \A i \in DOMAIN calls : calls[i].kind # "another"

\* The leases of this engine the application has, or is about to be given.
InHand ==
    {l.id : l \in {l \in held : l.handle = handle}}
        \cup {call.lease : call \in {call \in Range(calls) : call.handle = handle}}

\* The releases of this engine's leases that are queued.
ReleasesQueued ==
    {e.lease : e \in {e \in Range(pending) : e.type = "releaseLease" /\ e.of = handle}}

\* The bytes under a lease stay until the application releases it, and then are
\* let go: those of the host's own leases at once, those of the engine with the
\* release that is queued, unless a turn failed or was cut short, or the engine
\* is closed.  A lease of the engine ends earlier in one case only: the release of
\* a lease that an earlier engine had granted under the same number reached the
\* engine (releaseLease passes the number alone).  The host keeps no lease of an
\* engine that is gone.
LeasesHeld ==
    /\ \A l \in hostLeases : l.handle = handle
    /\ "threw" \notin lost => {l.id : l \in hostLeases} = {id \in InHand : id < 0}
    /\ lost = {} => eng.leases = {id \in InHand \cup ReleasesQueued : id > 0} \ ended
=============================================================================
