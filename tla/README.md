# rclweb in TLA+

rclweb lets a browser take part in a ROS 2 graph. A page runs the TypeScript
client, which drives a Rust engine compiled to WebAssembly; the engine speaks
R2WP, a framed protocol, over a WebSocket or a WebTransport stream to the
gateway `rclwebd`; the gateway owns the ROS entities, all of them on one
thread. This directory models the parts of that system which decide, checks
them with TLC on small instances and proves the safety of most of them with
TLAPS for every size.

## Inventory

| Part | State it keeps | Operations | Talks to | Hard about it | Correct when |
|---|---|---|---|---|---|
| Session machine `rclweb/src/session` | phase, channel table, graph generation | ingest a message, record a message sent | used by both peers | both peers keep a copy and must apply the same messages | Ready is earned, an id is used once, the copies agree |
| Client engine `rclweb/src/engine` | session, control counters, pending and active channel tables | host events: commands, bytes, timers | the host, the gateway | commands race with frames in flight | tables match the session, opens are answered once, failures have a cause |
| Buffers and leases, same crate | retained buffers, leases, two id counters | deliver, lease, release, sweep | the host's memory | ids chosen by two parties, counters that saturate | a lease reads its own frame; nothing leaks |
| Gateway connection `rclwebd/src/connection.rs` | session, channel runtimes, sequence numbers, three bounded queues | bootstrap, control, data, backend items, teardown | engine, backend | many early returns; backend calls fail; the transport breaks | entities owned by channels; answers given |
| ROS thread `rclwebd/src/ros` | entity tables, pending requests, goals, a stack of calls | commands, pumps, nested blocking calls | connections, rcl | commands are handled inside calls; late responses | no entity lost or finalised twice; answers go to their calls |
| TypeScript reconnect `typescript/src/client.ts` | tracked channels, pending promises, flags, attempts | reconnect(), automatic reconnect, reopen | host, engine | asynchronous calls overlap and are cut short | channels restored, client comes back |
| TypeScript host `typescript/src/host.ts`, `wasm/abi.ts` | event queue, sink, host leases, one transport for each attempt | enqueue, microtask flush, fast path for samples, reconnect, dispose | engine, socket, application | callbacks call back; the fast path goes around the engine; batch layouts are written twice | commands arrive as issued, frames in order, a lease ends by a release only |
| Worker client `typescript/src/worker`, `WorkerClient` | promises by request id on the page, request ids by channel in the worker | messages to and from the I/O worker, reconnect, reopen | host | two threads clear their tables at different times; one loss is told several times | every request is settled by its own answer or a reconnect |
| Write queue `rclwebd/src/budgets.rs` | queued frames, byte budget | admit, evict, drain | connection | eviction under pressure | a reliable frame is never evicted (see "What is left out") |
| Operations plane `ops.rs`, `ws.rs`, `wt.rs`, `main.rs` | draining flag, session count | readiness, drain, upgrade, shutdown | connections | drain races an upgrade | a drain waits for sessions, and ends |
| Audit log `audit.rs` | live file, rotated files, hash chain | emit, rewind, rotate, open, verify, export | connection | every file operation may fail, the process may die between two | the live file verifies, the kept files export as one chain |
| Authentication, ACL, config | static tables | match | connection | precedence of rules | left out |
| Codecs `rclweb/src/protocol`: CBOR profile, control shapes, frames, bootstrap | none | encode, decode, validate | both peers, which also read back what they built | messages are written by hand in two programs and checked against closed shapes in a third place; many bounds | what a program builds is read as it was meant; a message has one encoding |
| CDR reader and writer | none | encode, decode | engine | alignment, recursion over types | byte level, left out |
| rcl bindings, generated types | - | - | - | - | generated, left out |

`PROJECT.json` lists the hazards of this code line by line, each with the
properties aimed at it.

## Modules

| Module | Models |
|---|---|
| `R2wpSession` | the session machine as pure operators: `Accepts...` says when a message is legal, `After...` gives the next state. A refused message changes nothing in the code, so these two are all there is |
| `SessionPeer` | one observer fed every message from both roles in every order |
| `R2wpCbor` | the deterministic CBOR profile: values, heads, encoder, decoder |
| `R2wpControl` | the schema engine and the closed shapes of the fifteen control kinds |
| `R2wpFrame` | frames, extension areas and bootstrap records, written and parsed |
| `R2wpBuilders` | every message the engine and the gateway build, with hello negotiation and QoS resolution |
| `SessionWire` | the composition of `SessionPeer` with those codecs: packets are parsed by the parser of the session's plane and what was read is given to the session |
| `SessionLifecycle` | the abstract specification: a ladder of phases and one walk per channel id |
| `R2wpLink` | the two ordered streams and the packets on them; a broken transport loses both |
| `ClientEngine` | the engine: one action per host command and per kind of packet |
| `GatewayConnection` | the gateway's connection task, and the backend as that task sees it |
| `R2wpWire` | the composition: engine, gateway, application, ROS graph, transport |
| `ClientLeases` | retained buffers and leases over a sequence of polls |
| `Reconnect` | `InlineClient.reconnect` and what it awaits, for several overlapping calls |
| `RosWorker` | the ROS thread and the connections that command it |
| `WorkerClient` | `WorkerClient` on the page, `io-worker.ts` with its host and engine, and the two message queues between them |
| `AuditLog` | the audit sink's files and hash chain, one action per file operation |
| `GatewayProcess` | the composition of sessions, drain and shutdown with `AuditLog` |
| `PollAbi` | the batch layouts of the WebAssembly boundary as tables: what each of the four encoders and decoders writes or reads |
| `IoHost` | the host over those layouts: queue, flush, transports, leases, callbacks |
| `SessionPeerProofs`, `ClientLeasesProofs`, `GatewayProcessProofs`, `ReconnectProofs`, `RosWorkerProofs`, `WireAgreement`, `WireProofs`, `WorkerClientProofs` | theorems |
| `MC...` | the same modules with model values and symmetry sets |

Each definition stands for the source lines `PROJECT.json` maps it to.
Definitions introduced by a comment that begins with `Fault:` are not part of
any specification: each is a plausible mistake in the definition that follows
it, kept to show that a property notices.

### How the state corresponds

*Session.* `phase`, `chan` and `generation` are the fields of `SessionState`
that decide a transition. Correlation ids and the selected wire version are
recorded by the code and never read by a transition. An absent table entry is
the state `Unused`.

*Codecs.* Bytes are tokens: a token is one CBOR head (major type, additional
information, argument) with the string that follows it, so that every wrong way
to write a value can be written down. A string is a name, its place in the byte
order and its length. A packet is a record of its header fields, its extension
area and its payload, and the number of bytes that arrived. TLC's integers have
32 bits: bounds up to 2^26 have their value, the five above keep their order
(`R2wpCbor` says which). Encoders and parsers return a value or the reason of a
refusal; the byte offset of a refusal is left out. `retained` tells the engine's
parser, which may see a frame whose payload stayed with the host, from the
gateway's.

*Wire.* A variable that begins with `c` belongs to the engine, with `g` to the
gateway, with `b` to the backend. A handler that may queue several messages and
ask to close returns an `Outcome` in the code, and does so here: `PushControl`,
`PushFrame` and `FailSession` transform an outcome, and `Finish` does what
`run_connection` does with it. Verdicts that rest on data the model does not
have (negotiation, authentication, ACL, QoS resolution, a backend error, the
byte budget) are inputs, so that both outcomes are explored.
`Disciplined` restricts the application to what the TypeScript client does;
without it the application issues any engine command at any time.

*Leases.* A buffer is described by the number of the frame in it, so that a
buffer handed to another frame is told apart from the right one. Ids run to
small constants in the place of `u32::MAX`, and the counters saturate there as
in the code.

*Reconnect.* A JavaScript callback runs to completion together with the
promise reactions it causes. `Settled` expresses that: nothing happens while a
call can move by itself. `disturbed` records that a reconnect was cut short by
a loss, a refusal or another reconnect.
The transport a client uses is its `kind`. A WebSocket that fails to open or is
lost always gives a close event, on which the client retries. A WebTransport
gives one only when its session ends properly: an attempt that fails before the
stream is there ends with `onTransportError` (`host.ts:183-201`, `248-252`), and
an abrupt loss rejects `wt.closed`, for which `host.ts:241` has no handler.
`FailsUnreported` leads to the states that stand for these: `stalled` (nothing is
read any more, the session is not over and may still end with a close event) and
`failed` (no close event will come), which only a `reconnect()` of the application
leaves. `WorkerClient` has the same states; there the failure is an
`error` message without a request id, which the page ignores. An attempt that a
`reconnect()` replaced while it was still connecting goes on in the code
(`host.ts:191-211`); its late events are modelled in `IoHost` only.

*ROS thread.* `stack` is the Rust call stack of nested `call_client` and
`send_action_goal` calls; the entity of a call in progress is not in `table`.
A ROS request is a number in `req`, and a service's operation id stands for the
request it was made up for. `excused` is a history: each handler that gives a
request up without an answer puts it there, for the cause that handler has.

*Worker client.* `toWorker` and `toMain` are the `postMessage` queues. A
thread handles a message with all the promise reactions it causes before it
takes the next. A second `reconnect()` rejects what the first awaits, so at
most one makes progress (`rc`), and the flag `#reconnecting`, which the first
one's `finally` clears, is a variable of its own. `tracked` (`#channels`) is a set:
the order in which a reconnect reopens channels is left open.

*Gateway process.* A file is the sequence of the records in it and whether it
lacks its last newline; a record is its number, its sequence number and the
hash it continues. A failing operation, a write cut in the middle and a crash
are each one fault, and histories (`torn`, `cut`, `joined`) tell them apart.
A session is `admitted` by the upgrade handler and counted when its task runs:
the gap between the two is where a drain can begin.

*Host.* `links` has a state for each connection attempt, because a replaced
socket goes on and its late events still call the host; `current` and `sink`
are the attempts that `#ws`/`#wt` and `#sink` refer to. A batch is a sequence
of cells, a cell being what one side writes at once, with its width: reading a
cell of another width is a misread, and numbers and lengths are cut to their
width (a text of 64 KiB has length 0 on the wire). Which command is issued and
which event the engine gives follows from how far the run has come (`Some`), so
that each of the commands and events crosses the boundary in some behaviours
and not in all; the host treats them alike, the layouts do not.
A text or a payload is a name and a length. Two histories serve `LeasesHeld`:
the engine a queued release was meant for (`of`), which the code does not keep,
and the leases of this engine that a release meant for another one ended
(`ended`).

## Runs

| Run | Question | States |
|---|---|---|
| `session_peer` | a session behind its codecs: is every packet the two programs build read as it was meant, has a message one encoding, does the session admit only legal histories and implement the lifecycle | 103 000 |
| `wire_topics` | two topic channels or a service, an application that issues any command, a transport that breaks, full queues, failing backend: do tables, entities, answers and streams of the two sides stay consistent | 1 030 000 |
| `wire_operations` | services and actions, two operations, cancels, heartbeats: do answers pair with requests | 1 050 000 |
| `wire_liveness` | is every open and call answered and every entity released | 2 400 |
| `leases` | do leases stay sound up to the end of both id spaces | 469 000 |
| `reconnect` | what holds of reconnects that are disturbed, and of those that are not, over either transport | 16 600 |
| `ros_worker` | two connections, nested calls, services, actions | 1 580 000 |
| `worker_client` | page and worker with losses, refusals and overlapping reconnects: does every request keep its answer, does the client come back | 300 000 |
| `gateway_process` | audit files under faults and restarts, drain and shutdown | 415 000 |
| `io_host` | batches across the WebAssembly boundary, the fast path, leases, replaced sockets | 1 950 000 |

`BuiltMessagesUnderstood` says exactly which inputs are lost: a packet is read
as it was meant if and only if the values it was built from fit the bounds of
the registry. The converse matters because `push_control` reads back what it
built and closes the connection when that fails (`rclwebd/src/connection.rs:142`,
"A failure here is a builder bug"): the text of a backend failure above 4096
bytes, an instance name outside 1..4096 bytes and a domain above 232, none of
which is checked before, each end the session. In the same way `encode.rs:5-7`
says the encoders can never produce bytes the parser would reject, which holds of
the CBOR profile and the frame limits, not of the shapes.

Two runs end in a counterexample, each about a sentence of the repository:

* `wire_second_call`: the protocol says that every operation's stream counts
  from 0. The engine takes the sequence number of an operation frame from a
  counter of the channel; the gateway checks it per operation. The second call
  on a channel ends the session.
* `reconnect_hangs`: a connection lost during a reconnect is ignored because
  a reconnect is in progress, and that reconnect waits for a SessionReady that
  cannot come, with attempts left.

Two more disagreements are stated in the modules and are not runs of the
project; a configuration with the property as its only one shows them:

* `R2wpWire!ChannelErrorStaysLocal`: a failed backend call is reported by an
  Error of channel scope (`rclwebd/src/control.rs:471`), which
  `protocol/r2wp-v0.md:407` gives as "Single application channel". The session
  machine pairs such an Error only with a pending open
  (`session/transition.rs:424`); on an active channel it is a session error,
  and the engine closes.
* `RosWorker!CallGetsItsAnswer`: a call that timed out leaves its response to
  the next call on the same client, which returns it: the response's header is
  not compared with the sequence number of the request (`ros/rcl.rs:480`).

Because of these, some passing properties carry a condition.
`GatewayClosesForCause` allows exactly one cause on a ready session, the
operation sequence; `ClientFailsForCause` allows an Error, or a data frame for a
channel the client has closed; `QuietlyRestored` and `QuietlyRecovers` speak of
reconnects that were left alone (a reopen cut short or refused drops the
channels after it: `#reopenChannels` clears the table before it reopens);
`NestingKeepsAnswersApart` lets an answer go astray only at a client of which
an earlier call gave up.
`QuietlyRecovers`, and of the worker client `Recovers` and `Settles`, exempt a
WebTransport that failed without a close event: nothing retries then, and what
was asked of that connection is settled by nobody until the application calls
`reconnect()` or closes. Over a WebSocket the exemption is empty.
`NobodyForgotten` lets a request go unanswered for these causes only: rcl failed to
accept the goal, to let it succeed (`ros/backend.rs:852`) or to send the response
(`858`); its goal is unknown; a second request for the same result overwrote it
(`1022`), or a second goal of the same uuid its slot; its server was destroyed;
the thread ended. A request whose event did not fit the connection's queue still
counts as waiting: the thread keeps it, although nobody will answer.
`LeasesHeld` says when a lease of the engine ends before its own release: when the
release of a lease of a replaced engine, which had the same number, reaches the
engine. `releaseLease` passes on the number alone (`host.ts:658`), and numbers
start again with each engine. Turns that failed or were cut short and a closed
engine are exempt. The properties of `ClientLeases` hold until the ids are used up;
after that a lease may read another frame.
`CommandsInOrder` allows a command to be lost only when more than the limit of
events is in one batch (the engine drops the rest without an error), when the
engine is closed, or when a text of 64 KiB stands in a field with a 16-bit
length. `LiveVerifies` and `ExportsWhatWasWritten` exempt what the code has no
defence against: a write cut in the middle, a rotation cut short, an empty live
file found at start-up. `DrainWaitsForSessions` exempts a session admitted and
not yet counted when the drain began, which a process that exits at once cuts off. `RequestsKept`, `RetriesForCause`,
`QuietlyRestored`, `Recovers` and `Settles` exempt the disturbances each names;
an unsubscribe is awaited by the page and answered by nobody, so `Settles`
speaks of opens and calls.

`TypeOK` is proved for `SessionPeer` and `ClientLeases`; in the other modules it
documents the variables. `ChannelIdUsedOnce` is proved and no run checks it: a
run would only see the refinement of the lifecycle again.

### Bounds

* Session: ids 0 and 1 (0 is reserved), generations to 1, which reaches the
  saturation of the generation counter. The theorems remove both bounds.
* Packets (`MCSessionWire`): each input of a builder takes the values on both
  sides of its bounds while the others stay ordinary (text of 0, 1, 4096, 4097
  bytes, credentials to a payload the encoder refuses, error codes around the
  hole at 20, all six support rows, all QoS profiles that pass validation, graphs
  with unsorted and repeated ids, limits on both sides of the ceilings). Foreign
  packets are one message of every kind and variant, each with a field missing,
  added or of another type, and each way to write a head, an order, a header, an
  extension area or a bootstrap prefix wrongly.
* Wire: two channels where channels interact (topics), one where operations do;
  queues of depth 1 or 2, so that one item more is dropped; at most 2 or 3 data frames
  for each channel, which is enough for a gap and for a repeated operation.
  Echoed heartbeats never stop, so their number is capped (`EchoBound`).
* Leases: 6 buffer ids, 4 lease ids, 5 frames and two ids the host may choose:
  both counters reach their end, and a host id lies behind and ahead of the
  engine's counter. The theorem removes these bounds.
* Reconnect: both transports, two channels, two overlapping calls, two attempts,
  five connections. Two calls are the least that can disturb each other.
* ROS thread: two connections, so that calls nest two deep; two entities, so
  that a client may meet its own server; two requests of its own and one from
  elsewhere.
* Worker client: both transports, a publisher and a service client, so that a reopen can be cut
  between them; one automatic attempt, three connections, so that a loss
  during a reconnect and an attempt too many can happen; six requests.
* Gateway process: files of two lines and two kept rotations, seven events, so
  that the oldest file is removed; two faults, so that a second one meets the
  state the first left; two sessions, one of them racing the drain.
* Host: a limit of 2 events for each poll in the place of 64, two engines, two
  commands and two frames: a batch exceeds the limit, a frame waits behind a
  command, a lease outlives its engine and its release meets the lease of the next
  engine with the same number.

### Fairness

* `R2wpWire!FairSpec`: weak fairness of the two receivers, of the gateway's
  forwarding and of its leaving. The receivers are event loops that take what
  waits (`run_connection` is a `select!` loop; the host polls the engine for
  every message). Nothing is assumed of the application, the ROS graph or the
  transport.
* `Reconnect!FairSpec`: weak fairness of JavaScript's own steps, of an attempt to
  connect, which ends one way or the other, and of a gateway that answers an open
  it received. A refusal, a loss, a failed attempt and the application are not
  fair.
* `WorkerClient!FairSpec`: weak fairness of the two threads' message loops, of an
  attempt to connect, of a gateway that lets the session in and answers an open
  or a call it received. Losses, failed attempts, refusals and the application
  are not fair.
* `GatewayProcess!FairSpec`: weak fairness of the steps of `emit`, of
  `wait_idle`, whose deadline passes, and of the exit. Sessions may last for
  ever.

The other specifications are safety only. Deadlock is not checked: every
system here may come to rest (a closed session, an idle ROS thread).

## Proofs

Each theorem is `Spec => []Inv` for a property that a run checks (or, where
said, an action property or a refinement). TLC's runs show them for the
instances above, the theorems for every value of the constants. Invariants are
conjunctions of named parts, defined at the head of the proof modules; each
action has a lemma of its own.

`SessionPeerProofs`, for every set of channel ids and every largest generation:

* `SessionSafety`: `TypeOK`, `ReadyIsEarned` and `ChannelIdUsedOnce`;
  `ChannelIdsConsumed` and `SessionTyped` are two of its parts. `ReadyIsEarned`
  speaks of the phase Ready only, so a step into Ready cannot be justified from
  it. The inductive invariant adds `LadderMatchesPhase`: in each phase on the way
  the history holds exactly the messages that lead there. The proof goes through
  one lemma for what a control message may do to the phase (`ControlPhase`) and
  one for what it may do to a channel (`OpenConsumesId`).
* `SessionRefinement`: `Spec => ImplementsLifecycle`. Every accepted message is
  a rung of the ladder, one edge of one channel, or a stutter.

`ClientLeasesProofs`, for every number of ids and frames:

* `LeaseSafety`: `TypeOK`, `LeaseReadsItsFrame`, `FramesAccountedFor`
  (`BuffersAccounted`) and `IdleKeepsOnlyLeased` (`IdleBuffersLeased`). The
  inductive invariant adds that ids from the counters up are unused (so a fresh
  id never hits a live buffer), that a lease pins its buffer with a count of one,
  that no two leases share a buffer, that a positive count belongs to somebody,
  and that no two buffers hold the same frame. `IdleKeepsOnlyLeased` is exact: a
  frame is retained if and only if a lease refers to its buffer, and its count is
  the number of those leases; `CountsAreLeases` gets that from the parts of the
  invariant. All of it is conditional on ids being left (`IdsLeft`), a condition
  that only ever changes from true to false: nothing is claimed past the end of a
  counter.

`GatewayProcessProofs`, for every number of files, lines, events and faults, and
every finite set of sessions:

* `LiveFileVerifies`: `LiveVerifies`. `AuditInv` relates the chain in memory to
  the file: a running sink whose open live file verifies has the hash of the last
  line as its `prev` (`Linked`); a file that lacks its newline comes from a torn
  write that was noticed or resumed (`OpenIsTorn`); while a rotation is under way
  there is no handle, and before a file is opened there is none (`EmitPlace`).
* `KeptFilesExport`: `ExportsWhatWasWritten`, which speaks of the files at rest.
  `ExportInv` also says where they are while a rotation moves them: `Kept` is the
  list of rotated files as the rotation under way will leave it, so that only the
  removal of the oldest file changes it and the renames do not. Each file holds
  consecutive records of those written (`Holds`), each takes up where the one before
  it ends (`Ordered`, `Continues`), the oldest starts with the first record unless
  one was removed, and the sink's copy of the chain and of the size is that of the
  live file (`Sink`). The step from there to the concatenation is an induction over
  the files, done by contradiction with the least place where it would fail
  (`LeastNat`, from the library's theorem that `<` is well founded on the naturals).
* `DrainWaits`: the action property `DrainWaitsForSessions`: an exit before the
  deadline cuts off no session that was counted when the drain began. Those admitted
  and not yet counted at that moment are outside it. `DrainInv` says that the
  counter is the number of running sessions and that a drain finds nobody admitted
  and uncounted but the ones that raced it.

`ReconnectProofs`, for every finite set of channels, any number of overlapping
`reconnect()` calls and of attempts:

* `ReopensOnce`: `OpenedOncePerConnection`. `OpenInv` says where the channels
  still to be opened are: in the `todo` of one call only, unopened, and nowhere
  before SessionReady.
* `InflightCurrent`: `InflightIsCurrent`, inductive as it stands.
* `QuietReconnects`: `QuietlyRestored`. `QuietInv` adds, for histories without a
  disturbance, that at most one call is in progress and that every held channel
  is tracked, to be reopened, or being reopened.

`RosWorkerProofs`, for any number of connections, entities, goals and requests
and any depth of nesting; all four rest on `WorkerInvariant`:

* `OnePlace`: `EntityInOnePlace`, and `CommandsFind`: `CommandsFindTheirEntity`.
  `PlaceInv` follows the entities. The reason a command finds its entity is that a
  connection has one command or one call outstanding (`OneOutstanding`) and names
  only what it holds (`Owned`, `Named`): the entity of a call in progress belongs
  to a connection that waits and so has no command in the queue.
* `NoneForgotten`: `NobodyForgotten`. `OwedInv` follows the requests: what is
  pending at a service or waits in a goal's slot was taken and not answered, no
  request is in two of these places, and an answer takes it out of its place. The
  account of the others is an invariant of its own, `AccountInv`, inductive on top
  of `WorkerInvariant`: each action that takes a request out of its place answers
  it or gives it up.
* `AnswersApart`: `NestingKeepsAnswersApart`. `ResponseInv` says that a response
  that waits at a client is to a request of that client, and, as long as no call
  of it gave up, to the one call in progress.

`WireAgreement`, for every set of channels and operation ids, any depth of the
queues and any number of frames in flight, an application that issues any command
at any time, a backend that fails and a transport that breaks; all five follow
from `WireInvariant`:

* `SessionsAgree`: `QuiescentAgreement`, and `ChannelsViewedAlike`:
  `ChannelViews`. Neither says what happens to a packet in flight, so the
  inductive invariant relates the two sessions *through* the two streams
  (`Joint`). For a channel (`View`): the two entries are one of
  eight pairs, each packet about the channel fits the pair, and where the entries
  differ the packet that will end the difference is on its way (an open, a close,
  or the answer to an open); an Error about a pending channel can only be behind
  the answer to its open, which is why it never fails a channel the gateway
  holds active. The phases are related in the same way, and the generations
  through the last graph message in flight. `Numbered` counts the control frames
  of a stream, so that no control frame is ever out of sequence. It holds as long as both
  ends run: an end that stopped discards what arrives.
* `EntitiesAreOwned`: `EntitiesOwned`, inductive together with the agreement of
  the gateway's session and its runtimes: an open is served only for an unused id,
  which has no runtime, so the entity it creates is the only one of its channel.
* `TablesFollowSession`: `EngineTables`, and `OpensAreAnsweredOnce`:
  `OpenAnsweredOnce`, inductive with the types of the tables.

The first half of `WireAgreement` holds what these proofs need as facts about
values, without the variables: what one packet more or less does to a stream's
numbers, to a view, to the phases and to the generations, and what the session
machine makes of each message. In the second half a handler of the gateway is
followed from push to push: `Sending` says that what it accumulated continues the
numbers of the stream, `Joined` that the sessions are related once it is sent.

`WireProofs`, as general, builds on `WireInv`:

* `GatewayHasCause`: `GatewayClosesForCause`, and `ClientHasCause`:
  `ClientFailsForCause`: action properties that name the few packets on which a
  side ends a ready session. Neither can be decided where the packet is read, so
  `FitInv` says that every other packet on its way will be accepted by the
  session that reads it, once what is in front of it has been read (`OutFits`,
  `InFits`), that the two sides agree on which channels are reliable while the
  answer is still in flight (`Flags`), and that what the application publishes
  arrives with the numbers the gateway expects (`Published`).
* `SamplesInOrder`: `SampleStream`. `StreamInv` says of every stage between the
  backend and the application what the property says of the last one: a sample
  delivered continues those before it, one on the wire continues those delivered and
  those ahead of it, the gateway's next number continues all of these, and what is
  queued at the backend comes from the entity of its channel.
* `HeartbeatsBounded`: `HeartbeatsConserved`. It is inductive with the type of the
  counter; the work is in what each handler adds to and takes from the two streams.
* `AnswersOnce`: `OperationAnswers`, under the assumption `Disciplined`, as in the
  run that checks it: the application behaves as the TypeScript client does (it calls
  under a fresh id and answers what it was given, once) and does not hand the engine
  operation frames of its own making. `AnswerInv` counts
  where an operation is: its request on the way, its conclusion on the way, or its
  conclusion delivered, at most one of the three (`OnceOf`), all on the channel the
  id was used on (`OwnerInv`).

`WorkerClientProofs`, for any number of channels, requests, attempts and
connections:

* `RequestsAreKept`: `RequestsKept`. The property speaks of what the page
  awaits, so the inductive invariant `RequestInv` says where the other half of
  each request is. An id is given once, and the ids in the worker's tables are
  below the ones on their way to it, which come in order (`Given`). An id stands
  for one request wherever it appears: in a message either way, in a table of the
  worker, in the reconnect in progress (`Means`). What replaces the connection
  rejects everything asked of the one before (`Replaces`), an open is in one
  place (`OpensOnce`), and the promises a reconnect waits for are among the
  pending ones (`Awaits`, `AllWait`). The queues are reasoned about as the
  sets of what is in them (`Outbox`, `Inbox`), with order only where it matters.
* `RetriesHaveCause`: the action property `RetriesForCause`. A retry is decided
  by the page on a report that was true when the worker sent it. `CauseInv` says
  why it still is: the worker answers in the order in which it was asked
  (`Behind`), a reconnect holds off the automatic one until its own request is
  answered (`InCharge`), and a reported loss is either still so or is read before
  the answer of the reconnect that repaired it (`LossesKnown`). `Created` says that
  the first connect happens once, before there is a transport to lose.
* `QuietlyRestores`: `QuietlyRestored`, which speaks of the two threads at rest.
  `RestoreInv` adds to `CauseInv`, for histories without a disturbance
  (`QuietState`), that every channel the application holds is tracked
  (`HeldTracked`), that an open on its way or in a table is one the page awaits
  (`OpensKnown`, `Awaited`), and that the worker's channels are those of the page up
  to the messages in flight (`ChannelsMatch`, `MessagesMatch`): a channel that is
  held and not open at the worker is to be reopened by the reconnect in progress, or
  the answer that says why is on its way.

The assumptions used are the named ones of `R2wpSession`, `ClientLeases`,
`AuditLog`, `GatewayProcess`, `Reconnect`, `RosWorker`, `R2wpWire` and `WorkerClient`:
bounds are natural numbers, channel ids are natural numbers (positive ones in
`Reconnect`, numbered from 1 in `WorkerClient`),
the ids a host chooses are ids, the kinds opened are kinds, and the sets of
sessions and channels are finite (in `R2wpWire` they need not be). In `R2wpWire`,
0 is no channel id (the session refuses to open it, `open_channel_id_zero` in
`session/transition.rs`), and no operation id is the one a sample carries or the
one that stands for no operation: the gateway numbers service requests from 1
(`next_operation_id` in `rclwebd/src/ros/backend.rs`), the TypeScript client takes
16 random bytes, and goals carry ROS UUIDs.

Only model-checked:

* liveness (`OpensAnswered`, `CallsAnswered`, `EntitiesReleased`,
  `QuietlyRecovers`, `Recovers`, `Settles`, `ShutdownCompletes`), which is out of
  the prover's reach;
* `BuiltMessagesUnderstood` and `OneEncoding`, which are about recursive
  operators over data, out of its reach too; what the session makes of a packet
  once it is read is covered by the theorems about `SessionPeer`;
* the host's `CommandsInOrder`, `DeliveredInOrder` and `LeasesHeld`, which are
  about folds over a batch whose operators are parameters of the fold, and which
  rest on what encoding and decoding each concrete command and event yields: a
  computation, done by TLC.

## What is left out

* CDR: payloads are a name and a length. On the wire (`R2wpWire`) messages are
  decoded records; `SessionWire` covers the way from bytes to records and back.
  Of the WebAssembly batches the order, width and value of every field is
  modelled.
* Time: a deadline may pass whenever the model says so; heartbeats carry no
  intervals.
* The write queue's eviction: `run_connection` drains the queue after each frame
  it admits, so there is never a queued frame to evict. `GatewaySample` admits
  or refuses a sample.
* Authentication and ACL are verdicts with both outcomes: they are pure matching
  on tables and change no state.
* Schema bundles, telemetry and clock synchronisation change no state the
  properties look at.
* The worker client's sample, graph and telemetry messages: nobody waits for
  them.
* The operations plane's HTTP pages and certificates.
* The ROS thread's graph queries change no state.

## Plan

Done: session machine with its codecs, wire, leases, reconnect, ROS thread,
worker client, gateway process with the audit log, host with the WebAssembly
layouts; the safety of the session, the wire, the leases, the gateway process,
the reconnects, the ROS thread and the worker client proved: every safety
property that a run checks, but those of the codecs and of the host.

Left:

1. The engine's inside of `IoHost` replaced by `ClientLeases`, so that one
   model covers a lease from the frame to its release.
2. `LeasesHeld`, which does not depend on what the codecs compute, proved by an
   induction over the events of a batch like the one over the kept files.
