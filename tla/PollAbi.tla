------------------------------ MODULE PollAbi -------------------------------
(***************************************************************************)
(* The binary layout in which the host and the engine exchange a poll turn *)
(* across the WebAssembly boundary.  Each side has its own code for it:    *)
(* wasm/abi.ts writes batches and reads results, host/batch.rs reads       *)
(* batches and writes results.  Here each of the four has its own table.   *)
(*                                                                         *)
(* A message is a sequence of cells, a cell a run of bytes that one side   *)
(* writes at once: w is its width in bytes and v what it says.  A reader   *)
(* that expects another width than it finds misreads.  Numbers are cut to  *)
(* the width of their field, lengths of texts too.                         *)
(***************************************************************************)
EXTENDS Integers, Sequences, SequencesExt, Functions, FiniteSetsExt

Width == [u8 |-> 1, pad2 |-> 2, pad3 |-> 3, u16 |-> 2, u32 |-> 4, u64 |-> 8,
          id |-> 16]

\* Shapes of fields: a number, a text after its length, an optional text, and
\* the list of the fields of a point cloud.
IsNumber(shape) == shape \in DOMAIN Width
LengthShape == [text16 |-> "u16", text32 |-> "u32"]

Cell(w, v) == [w |-> w, v |-> v]
Cut(n, shape) == IF Width[shape] > 2 THEN n ELSE n % 2 ^ (8 * Width[shape])

\* A text is told by its length and by whose text it is.
Text(of, len) == [of |-> of, len |-> len]
NoText == Text("none", -1)

-----------------------------------------------------------------------------
(* Writing and reading one field. *)

WriteNumber(n, shape) == <<Cell(Width[shape], Cut(n, shape))>>

WriteText(text, shape) ==
    WriteNumber(text.len, LengthShape[shape])
        \o (IF text.len = 0 THEN <<>> ELSE <<Cell(text.len, text)>>)

WriteFlat(value, shape) ==
    IF IsNumber(shape) THEN WriteNumber(value, shape) ELSE WriteText(value, shape)

WriteRecord(record, layout) ==
    FlattenSeq([i \in DOMAIN layout |->
        WriteFlat(record[layout[i][1]], layout[i][2])])

\* The fields of a point cloud, each a record.
PointField == << <<"name", "text16">>, <<"offset", "u32">>, <<"datatype", "u8">>,
                 <<"count", "u32">> >>

WriteField(value, shape) ==
    CASE shape = "fields" ->
            WriteNumber(Len(value), "u32")
                \o FlattenSeq([i \in DOMAIN value |-> WriteRecord(value[i], PointField)])
      [] shape = "optional" ->
            IF value = NoText THEN <<Cell(4, -1)>> ELSE WriteText(value, "text32")
      [] OTHER -> WriteFlat(value, shape)

Write(record, layout) ==
    FlattenSeq([i \in DOMAIN layout |->
        WriteField(record[layout[i][1]], layout[i][2])])

\* A reader: what is left to read, what it has read, and whether all was as it
\* expected.
Reader(cells) == [rest |-> cells, got |-> <<>>, ok |-> TRUE]
Misread(r) == [r EXCEPT !.ok = FALSE]

\* The next w bytes are to be one cell.
Take(r, w, name) ==
    IF ~r.ok \/ r.rest = <<>> \/ Head(r.rest).w # w THEN Misread(r)
    ELSE [r EXCEPT !.rest = Tail(@), !.got = Append(@, <<name, Head(r.rest).v>>)]

\* Drop the length that was read last, and read as many bytes.
TakeText(r, name) ==
    LET len == Last(r.got)[2]
        past == [r EXCEPT !.got = Front(@)]
    IN  CASE ~r.ok -> r
          [] r.ok /\ len = -1 -> [past EXCEPT !.got = Append(@, <<name, NoText>>)]
          [] r.ok /\ len = 0 -> [past EXCEPT !.got = Append(@, <<name, Text(name, 0)>>)]
          [] OTHER -> Take(past, len, name)

ReadFlat(r, field) ==
    LET name == field[1]  shape == field[2]
    IN  IF IsNumber(shape) THEN Take(r, Width[shape], name)
        ELSE TakeText(Take(r, Width[LengthShape[shape]], name), name)

\* What a sequence of <<name, value>> says.
Record(pairs) ==
    [name \in {pairs[i][1] : i \in DOMAIN pairs} |->
        pairs[CHOOSE i \in DOMAIN pairs : pairs[i][1] = name][2]]

ReadRecord(r, layout) == FoldLeft(ReadFlat, r, layout)

\* One element of a list: read after what is there, then made a record.
ReadElement(r) ==
    LET one == ReadRecord([r EXCEPT !.got = <<>>], PointField)
    IN  [one EXCEPT !.got = Append(r.got, Record(one.got))]

ReadList(r, name) ==
    LET counted == Take(r, 4, name)
        n == Last(counted.got)[2]
        all == FoldLeft(LAMBDA s, i : ReadElement(s),
                        [counted EXCEPT !.got = <<>>], [i \in 1 .. n |-> i])
    IN  IF ~counted.ok THEN counted
        ELSE [all EXCEPT !.got = Append(r.got, <<name, all.got>>)]

ReadField(r, field) ==
    CASE field[2] = "fields" -> ReadList(r, field[1])
      [] field[2] = "optional" -> TakeText(Take(r, 4, field[1]), field[1])
      [] OTHER -> ReadFlat(r, field)

Read(r, layout) == FoldLeft(ReadField, r, layout)

-----------------------------------------------------------------------------
(* Commands. *)

\* cmd:u8 of each command, on both sides.
Commands ==
    <<"start", "authenticate", "subscribe", "unsubscribe", "close", "publish",
      "sendSample", "openService", "callService", "sendServiceResponse",
      "openAction", "sendActionGoal", "cancelAction", "sendActionFeedback",
      "sendActionResult", "sendActionStatus", "sendPointCloud2", "sendGenerated">>

CommandCode(cmd) == CHOOSE i \in DOMAIN Commands : Commands[i] = cmd

OpidPayload ==
    {"callService", "sendServiceResponse", "sendActionGoal", "sendActionFeedback",
     "sendActionResult", "sendActionStatus"}

\* Fault: the domain is written before the reliability.
topicCommandSwapped ==
    << <<"correlation", "id">>, <<"channel", "u32">>, <<"domain", "u8">>,
       <<"reliability", "u8">>, <<"depth", "u16">>, <<"topic", "text16">>,
       <<"type", "text16">> >>

\* writeCommand of a subscribe or a publish.
topicCommand ==
    << <<"correlation", "id">>, <<"channel", "u32">>, <<"reliability", "u8">>,
       <<"domain", "u8">>, <<"depth", "u16">>, <<"topic", "text16">>,
       <<"type", "text16">> >>

\* writeCommand of a point cloud.
pointCloudCommand ==
    << <<"channel", "u32">>, <<"height", "u32">>, <<"width", "u32">>,
       <<"pointStep", "u32">>, <<"rowStep", "u32">>, <<"bigendian", "u8">>,
       <<"dense", "u8">>, <<"pad", "pad2">>, <<"sec", "u32">>, <<"nanosec", "u32">>,
       <<"frame", "text16">>, <<"fields", "fields">>, <<"data", "text32">> >>

\* writeCommand about services and actions, with writeOpidPayload.
operationCommand(cmd) ==
    CASE cmd \in {"openService", "openAction"} ->
            << <<"correlation", "id">>, <<"channel", "u32">>, <<"client", "u8">>,
               <<"domain", "u8">>, <<"pad", "pad2">>, <<"name", "text16">>,
               <<"type", "text16">> >>
      [] cmd \in OpidPayload ->
            << <<"channel", "u32">>, <<"operation", "id">>, <<"payload", "text32">> >>
      [] cmd = "cancelAction" -> << <<"channel", "u32">>, <<"operation", "id">> >>

\* What writeCommand writes after cmd and its padding.
writeCommand(cmd) ==
    CASE cmd = "start" ->
            << <<"transferable", "u8">>, <<"webtransport", "u8">>, <<"pad", "pad2">> >>
      [] cmd = "authenticate" ->
            << <<"correlation", "id">>, <<"scheme", "text16">>, <<"token", "text16">> >>
      [] cmd \in {"subscribe", "publish"} -> topicCommand
      [] cmd = "sendSample" -> << <<"channel", "u32">>, <<"string", "text32">> >>
      [] cmd = "sendPointCloud2" -> pointCloudCommand
      [] cmd = "sendGenerated" ->
            << <<"channel", "u32">>, <<"type", "text16">>, <<"value", "text32">> >>
      [] cmd = "unsubscribe" -> << <<"correlation", "id">>, <<"channel", "u32">> >>
      [] cmd = "close" -> <<>>
      [] OTHER -> operationCommand(cmd)

\* commandEncodedSize, without the texts: what writeCommand is given room for.
commandEncodedSize(cmd) ==
    CASE cmd = "start" -> 8
      [] cmd \in {"authenticate", "cancelAction", "unsubscribe"} -> 24
      [] cmd \in {"subscribe", "publish", "openService", "openAction"} -> 32
      [] cmd = "sendSample" -> 12
      [] cmd = "sendPointCloud2" -> 46
      [] cmd = "sendGenerated" -> 14
      [] cmd \in OpidPayload -> 28
      [] cmd = "close" -> 4

\* decode_command of a point cloud.
decode_point_cloud ==
    << <<"channel", "u32">>, <<"height", "u32">>, <<"width", "u32">>,
       <<"pointStep", "u32">>, <<"rowStep", "u32">>, <<"bigendian", "u8">>,
       <<"dense", "u8">>, <<"pad", "pad2">>, <<"sec", "u32">>, <<"nanosec", "u32">>,
       <<"frame", "text16">>, <<"fields", "fields">>, <<"data", "text32">> >>

\* decode_command about services and actions, with decode_opid_payload.
decode_operation(cmd) ==
    CASE cmd \in {"openService", "openAction"} ->
            << <<"correlation", "id">>, <<"channel", "u32">>, <<"client", "u8">>,
               <<"domain", "u8">>, <<"pad", "pad2">>, <<"name", "text16">>,
               <<"type", "text16">> >>
      [] cmd \in OpidPayload ->
            << <<"channel", "u32">>, <<"operation", "id">>, <<"payload", "text32">> >>
      [] cmd = "cancelAction" -> << <<"channel", "u32">>, <<"operation", "id">> >>

\* The layout decode_command reads.
decode_command(cmd) ==
    CASE cmd = "start" ->
            << <<"transferable", "u8">>, <<"webtransport", "u8">>, <<"pad", "pad2">> >>
      [] cmd = "authenticate" ->
            << <<"correlation", "id">>, <<"scheme", "text16">>, <<"token", "text16">> >>
      [] cmd \in {"subscribe", "publish"} ->
            << <<"correlation", "id">>, <<"channel", "u32">>, <<"reliability", "u8">>,
               <<"domain", "u8">>, <<"depth", "u16">>, <<"topic", "text16">>,
               <<"type", "text16">> >>
      [] cmd = "sendSample" -> << <<"channel", "u32">>, <<"string", "text32">> >>
      [] cmd = "unsubscribe" -> << <<"correlation", "id">>, <<"channel", "u32">> >>
      [] cmd = "close" -> <<>>
      [] cmd = "sendPointCloud2" -> decode_point_cloud
      [] cmd = "sendGenerated" ->
            << <<"channel", "u32">>, <<"type", "text16">>, <<"value", "text32">> >>
      [] OTHER -> decode_operation(cmd)

-----------------------------------------------------------------------------
(* Batches: encodeHostBatch and decode_host_batch.  Frames do not travel in *)
(* a batch (pollEngine), and the host has no timer.                        *)

HostEvents == <<"wsBytes", "timer", "command", "releaseLease">>
BatchHeader == << <<"magic", "u32">>, <<"version", "u16">>, <<"flags", "u16">>,
                  <<"count", "u32">> >>

\* A kind or a code in its first byte, and the padding.
Tag(code) == <<Cell(1, code), Cell(3, 0)>>

Bytes(cells) == FoldLeft(LAMBDA n, c : n + c.w, 0, cells)
TextBytes(args) ==
    MapThenSumSet(LAMBDA f : IF f \in {"scheme", "token", "topic", "type", "string",
                                       "name", "payload", "value", "frame", "data"}
                             THEN args[f].len ELSE 0, DOMAIN args)
FieldBytes(args) ==
    IF "fields" \notin DOMAIN args THEN 0
    ELSE FoldLeft(LAMBDA n, f : n + 11 + f.name.len, 0, args.fields)

WriteEvent(e) ==
    IF e.type = "releaseLease" THEN Tag(4) \o WriteNumber(e.lease, "u32")
    ELSE Tag(3) \o Tag(CommandCode(e.cmd)) \o Write(e.args, writeCommand(e.cmd))

\* The room encodeHostBatch computes before it writes.
RoomFor(e) ==
    IF e.type = "releaseLease" THEN 8
    ELSE 4 + commandEncodedSize(e.cmd) + TextBytes(e.args) + FieldBytes(e.args)

encodeHostBatch(events) ==
    Write([magic |-> "RCLB", version |-> 1, flags |-> 1, count |-> Len(events)],
          BatchHeader)
        \o FlattenSeq([i \in DOMAIN events |-> WriteEvent(events[i])])

\* "encodeHostBatch size mismatch": the batch is not as long as its room.
Fits(events) ==
    Bytes(encodeHostBatch(events)) =
        12 + FoldLeft(LAMBDA n, e : n + RoomFor(e), 0, events)

\* What follows a kind or a code, in a reader that has got no more than that.
Tagged(r) == Take(Take([r EXCEPT !.got = <<>>], 1, "code"), 3, "pad")
CodeOf(r) == r.got[1][2]
Blank(r) == [r EXCEPT !.got = <<>>]

\* s has read a whole event, and says so after what r has got.
Adds(r, s, event) == IF s.ok THEN [s EXCEPT !.got = Append(r.got, event)] ELSE Misread(r)

ReadCommand(r, s) ==
    IF ~s.ok THEN Misread(r)
    ELSE LET cmd == Commands[CodeOf(s)]
             done(args) == Adds(r, args, [type |-> "command", cmd |-> cmd,
                                          args |-> Record(args.got)])
         IN  done(Read(Blank(s), decode_command(cmd)))

ReadRelease(r, s) == Adds(r, s, [type |-> "releaseLease", lease |-> CodeOf(s)])

ReadKind(r, s) ==
    CASE ~s.ok -> Misread(r)
      [] s.ok /\ HostEvents[CodeOf(s)] = "releaseLease" ->
            ReadRelease(r, Take(Blank(s), 4, "lease"))
      [] OTHER -> ReadCommand(r, Tagged(s))

ReadEvent(r) == ReadKind(r, Tagged(r))

\* ok is FALSE on a BatchError.  (A length cut to its field may also make other
\* commands of the bytes that follow; that too is a misreading here.)
ReadEvents(r) ==
    FoldLeft(LAMBDA s, i : IF s.ok THEN ReadEvent(s) ELSE s,
             Blank(r), [i \in 1 .. Record(r.got).count |-> i])

decode_host_batch(cells) == ReadEvents(Read(Reader(cells), BatchHeader))

-----------------------------------------------------------------------------
(* Results: encode_poll_result_into and decodePollResult. *)

\* kind:u8 of each event, on both sides.
AppEvents ==
    <<"bootstrapComplete", "sessionReady", "subscribed", "subscribeFailed", "sample",
      "heartbeat", "error", "closed", "published", "publishFailed", "serviceReady",
      "serviceFailed", "serviceRequest", "serviceResponse", "actionReady",
      "actionFailed", "actionGoal", "actionFeedback", "actionResult", "actionStatus",
      "graphSnapshot", "graphDelta", "operationCancelled">>

EventCode(kind) == CHOOSE i \in DOMAIN AppEvents : AppEvents[i] = kind

Leased == {"serviceRequest", "serviceResponse", "actionGoal", "actionFeedback",
           "actionResult", "actionStatus"}

\* encode_app_event of what services, actions and the graph say, with
\* encode_leased_opid_event.
encode_operation_event(kind) ==
    CASE kind \in {"serviceReady", "actionReady"} ->
            << <<"channel", "u32">>, <<"client", "u8">>, <<"pad", "pad3">>,
               <<"name", "text16">>, <<"type", "text16">> >>
      [] kind \in {"serviceFailed", "actionFailed", "operationCancelled"} ->
            << <<"channel", "u32">>, <<"code", "u8">>, <<"pad", "pad3">>,
               <<"message", "text16">> >>
      [] kind \in Leased ->
            << <<"channel", "u32">>, <<"operation", "id">>, <<"lease", "u32">>,
               <<"sequence", "u64">>, <<"ptr", "u32">>, <<"len", "u32">> >>
      [] kind = "graphSnapshot" ->
            << <<"generation", "u64">>, <<"nodes", "text32">>, <<"endpoints", "text32">> >>
      [] kind = "graphDelta" -> << <<"generation", "u64">> >>

\* What encode_app_event writes after the kind and its padding.
encode_app_event(kind) ==
    CASE kind = "bootstrapComplete" -> << <<"version", "u8">>, <<"pad", "pad3">> >>
      [] kind = "sessionReady" ->
            << <<"domain", "u8">>, <<"pad", "pad3">>, <<"row", "text16">>,
               <<"gateway", "text16">> >>
      [] kind = "subscribed" ->
            << <<"channel", "u32">>, <<"topic", "text16">>, <<"type", "text16">> >>
      [] kind = "published" ->
            << <<"channel", "u32">>, <<"reliability", "u8">>, <<"pad", "pad3">>,
               <<"topic", "text16">>, <<"type", "text16">> >>
      [] kind \in {"subscribeFailed", "publishFailed"} ->
            << <<"channel", "u32">>, <<"code", "u8">>, <<"pad", "pad3">>,
               <<"message", "text16">> >>
      [] kind = "sample" ->
            << <<"channel", "u32">>, <<"lease", "u32">>, <<"sequence", "u64">>,
               <<"time", "u64">>, <<"ptr", "u32">>, <<"len", "u32">>,
               <<"string", "optional">> >>
      [] kind = "heartbeat" -> << <<"counter", "u64">> >>
      [] kind = "error" -> << <<"code", "u8">>, <<"pad", "pad3">>, <<"message", "text16">> >>
      [] kind = "closed" -> << <<"phase", "u8">>, <<"pad", "pad3">> >>
      [] OTHER -> encode_operation_event(kind)

\* decodePollResult of a request, a response, or a message of an action.
leasedEvent ==
    << <<"channel", "u32">>, <<"operation", "id">>, <<"lease", "u32">>,
       <<"sequence", "u64">>, <<"ptr", "u32">>, <<"len", "u32">> >>

\* decodePollResult of what services, actions and the graph say.
decodeOperationEvent(kind) ==
    CASE kind \in {"serviceReady", "actionReady"} ->
            << <<"channel", "u32">>, <<"client", "u8">>, <<"pad", "pad3">>,
               <<"name", "text16">>, <<"type", "text16">> >>
      [] kind \in {"serviceFailed", "actionFailed", "operationCancelled"} ->
            << <<"channel", "u32">>, <<"code", "u8">>, <<"pad", "pad3">>,
               <<"message", "text16">> >>
      [] kind \in Leased -> leasedEvent
      [] kind = "graphSnapshot" ->
            << <<"generation", "u64">>, <<"nodes", "text32">>, <<"endpoints", "text32">> >>
      [] kind = "graphDelta" -> << <<"generation", "u64">> >>

\* The layout decodePollResult reads.
decodeAppEvent(kind) ==
    CASE kind = "bootstrapComplete" -> << <<"version", "u8">>, <<"pad", "pad3">> >>
      [] kind = "sessionReady" ->
            << <<"domain", "u8">>, <<"pad", "pad3">>, <<"row", "text16">>,
               <<"gateway", "text16">> >>
      [] kind = "subscribed" ->
            << <<"channel", "u32">>, <<"topic", "text16">>, <<"type", "text16">> >>
      [] kind = "published" ->
            << <<"channel", "u32">>, <<"reliability", "u8">>, <<"pad", "pad3">>,
               <<"topic", "text16">>, <<"type", "text16">> >>
      [] kind \in {"subscribeFailed", "publishFailed"} ->
            << <<"channel", "u32">>, <<"code", "u8">>, <<"pad", "pad3">>,
               <<"message", "text16">> >>
      [] kind = "sample" ->
            << <<"channel", "u32">>, <<"lease", "u32">>, <<"sequence", "u64">>,
               <<"time", "u64">>, <<"ptr", "u32">>, <<"len", "u32">>,
               <<"string", "optional">> >>
      [] kind = "heartbeat" -> << <<"counter", "u64">> >>
      [] kind = "error" -> << <<"code", "u8">>, <<"pad", "pad3">>, <<"message", "text16">> >>
      [] kind = "closed" -> << <<"phase", "u8">>, <<"pad", "pad3">> >>
      [] OTHER -> decodeOperationEvent(kind)

ResultHeader ==
    << <<"magic", "u32">>, <<"version", "u16">>, <<"flags", "u16">>,
       <<"outbound", "u32">>, <<"events", "u32">>, <<"released", "u32">>,
       <<"deadline", "u64">> >>
Outbound == << <<"buffer", "u32">>, <<"ptr", "u32">>, <<"bytes", "text32">> >>
Released == << <<"buffer", "u32">>, <<"len", "u32">> >>

\* What one turn of the engine gives.
encode_poll_result(outcome) ==
    Write([magic |-> "RCLR", version |-> 1, flags |-> 0,
           outbound |-> Len(outcome.outbound), events |-> Len(outcome.events),
           released |-> Len(outcome.released), deadline |-> -1], ResultHeader)
        \o FlattenSeq([i \in DOMAIN outcome.outbound |->
                          Write(outcome.outbound[i], Outbound)])
        \o FlattenSeq([i \in DOMAIN outcome.events |->
                          Tag(EventCode(outcome.events[i].kind))
                              \o Write(outcome.events[i].args,
                                       encode_app_event(outcome.events[i].kind))])
        \o FlattenSeq([i \in DOMAIN outcome.released |->
                          Write(outcome.released[i], Released)])

\* The short way for a result that is one sample without text, 68 bytes long:
\* every field at its offset.
SampleOffsets == [channel |-> 32, lease |-> 36, sequence |-> 40, time |-> 48,
                  ptr |-> 56, len |-> 60, string |-> 64]

At(cells, offset) ==
    cells[CHOOSE i \in DOMAIN cells : Bytes(SubSeq(cells, 1, i - 1)) = offset].v

ShortSample(cells) ==
    [kind |-> "sample",
     args |-> [f \in DOMAIN SampleOffsets |->
                 IF f = "string" THEN NoText ELSE At(cells, SampleOffsets[f])]]

ReadArgs(r, s) ==
    LET kind == AppEvents[CodeOf(s)]
        done(args) == Adds(r, args, [kind |-> kind, args |-> Record(args.got)])
    IN  IF s.ok THEN done(Read(Blank(s), decodeAppEvent(kind))) ELSE Misread(r)

ReadAppEvent(r) == ReadArgs(r, Tagged(r))

\* n records of one layout, in what is left of a result.
ReadMany(r, n, layout) ==
    FoldLeft(LAMBDA s, i : LET add(one) == Adds(s, one, Record(one.got))
                           IN  add(Read(Blank(s), layout)),
             Blank(r), [i \in 1 .. n |-> i])

ReadAppEvents(r, n) ==
    FoldLeft(LAMBDA s, i : IF s.ok THEN ReadAppEvent(s) ELSE s,
             Blank(r), [i \in 1 .. n |-> i])

\* The parts of a result, one after the other.
ReadReleased(header, out, events) ==
    LET all(r) == [ok |-> r.ok, outbound |-> out, events |-> events.got, released |-> r.got]
    IN  all(ReadMany(events, header.released, Released))
ReadAfterOutbound(header, r) ==
    ReadReleased(header, r.got, ReadAppEvents(r, header.events))
ReadResult(header, r) ==
    ReadAfterOutbound(header, ReadMany(r, header.outbound, Outbound))

\* The turn gave one sample without text and nothing else.
IsShort(header, cells) ==
    /\ header.outbound = 0 /\ header.events = 1 /\ header.released = 0
    /\ Bytes(cells) = 68 /\ At(cells, 28) = EventCode("sample")
    /\ At(cells, 64) < 0

decodePollResult(cells) ==
    LET result(r, header) ==
            IF IsShort(header, cells)
            THEN [ok |-> TRUE, outbound |-> <<>>, events |-> <<ShortSample(cells)>>,
                  released |-> <<>>]
            ELSE ReadResult(header, r)
        parts(r) == result(r, Record(r.got))
    IN  parts(Read(Reader(cells), ResultHeader))
=============================================================================
