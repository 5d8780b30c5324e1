----------------------------- MODULE R2wpControl -----------------------------
(***************************************************************************)
(* The control messages of R2WP, protocol/control.rs: the schema engine    *)
(* and the closed shape of each of the fifteen control kinds.  Validation  *)
(* returns Ok or the reason of the refusal; an accepted value is returned  *)
(* unchanged, because a decoded map is already sorted by key.              *)
(***************************************************************************)
EXTENDS R2wpCbor

ControlPayloadMaxBytes == 1048576

Utf8TextMax == 4096
DomainIdMax == 232
GraphMax == 65535

-----------------------------------------------------------------------------
(* Schemas.  A map schema is a sequence of fields <<key, required, schema>>. *)

BoolOf == [is |-> "bool"]
U(min, max) == [is |-> "uint", min |-> min, max |-> max]
Int64 == [is |-> "int64"]
TextIn(min, max, oneOf) ==
    [is |-> "text", min |-> min, max |-> max, oneOf |-> oneOf]
BytesOf(min, max) == [is |-> "bytes", min |-> min, max |-> max]
ConstU64(n) == [is |-> "const", value |-> Unsigned(n)]
ConstBool(b) == [is |-> "const", value |-> Bool(b)]
ArrayOf(min, max, items, rule) ==
    [is |-> "array", min |-> min, max |-> max, items |-> items, rule |-> rule]
MapOf(fields) == [is |-> "map", fields |-> fields]
Union(variants) == [is |-> "union", variants |-> variants]
Identity == [is |-> "identity"]
\* A QoS profile: the history it names chooses the shape.
ByHistory(keepLast, others, histories) ==
    [is |-> "qos", keepLast |-> keepLast, others |-> others,
     histories |-> histories]

Req(key, schema) == <<key, TRUE, schema>>
Opt(key, schema) == <<key, FALSE, schema>>

\* No restriction on a text; no rule on an array.
AnyText == {}
NoRule == "none"

-----------------------------------------------------------------------------
(* validate_schema *)

Ok == "ok"

\* The first refusal of a sequence of checks.
FirstFailure(test(_), items) ==
    FoldLeft(LAMBDA verdict, x : IF verdict = Ok THEN test(x) ELSE verdict,
             Ok, items)

IsNumber(v) == Is(v, "uint") \/ Is(v, "nint")
Number(v) == IF Is(v, "uint") THEN v.uint ELSE v.nint

AsInteger(v, min, max) ==
    IF ~IsNumber(v) THEN "wrong_type"
    ELSE IF Number(v) \notin min .. max THEN "range_violation"
    ELSE Ok

\* A wire error code is 1..28 without 20.
AsUint(v, min, max) ==
    LET verdict == AsInteger(v, min, max)
    IN  IF verdict = Ok /\ min = 1 /\ max = 28 /\ Number(v) = 20
        THEN "enum_violation" ELSE verdict

AsConst(v, c) ==
    LET type == IF Is(c, "bool") THEN IF Is(v, "bool") THEN Ok ELSE "wrong_type"
                ELSE AsInteger(v, 0, U64Max)
    IN  IF type # Ok THEN type ELSE IF v = c THEN Ok ELSE "enum_violation"

AsText(v, s) ==
    IF ~Is(v, "text") THEN "wrong_type"
    ELSE IF v.text.len \notin s.min .. s.max THEN "text_length"
    ELSE IF s.oneOf # AnyText /\ v.text.name \notin s.oneOf THEN "enum_violation"
    ELSE Ok

AsBytes(v, s) ==
    IF ~Is(v, "bytes") THEN "wrong_type"
    ELSE IF v.bytes.len \notin s.min .. s.max THEN "bytes_length" ELSE Ok

\* The place of an array element in the order its rule asks for; the element
\* has passed the item schema, which requires the field.
OrderKey(v, rule) ==
    CASE rule = "ascending" -> Number(v)
      [] rule = "channelId" -> Number(Field(v, 1))
      [] rule = "nodes" -> Field(v, 55).bytes.num
      [] rule = "endpoints" -> Field(v, 56).bytes.num

\* apply_array_rule: strictly ascending.
ApplyArrayRule(items, rule) ==
    LET Key(i) == OrderKey(items[i], rule)
        Step(i) == IF i = 1 THEN Ok
                   ELSE IF Key(i) = Key(i - 1) THEN "unique_violation"
                   ELSE IF Key(i) < Key(i - 1) THEN "order_violation"
                   ELSE Ok
    IN  IF rule = NoRule THEN Ok
        ELSE FirstFailure(Step, [i \in DOMAIN items |-> i])

\* validate_schema_identity: the value of the scheme has a fixed form, known
\* here by its name and length.
IdentityForm(scheme) ==
    CASE scheme = "rep2011-rihs" -> {<<"RIHS01_hex", 71>>}
      [] scheme = "rclweb-schema-v1" -> {<<"hex", 64>>}
      [] OTHER -> {}

AsIdentity(v) ==
    IF ~Is(v, "map") THEN "wrong_type"
    ELSE IF ~(Keys(v) \subseteq {1, 2}) THEN "unknown_key"
    ELSE IF Keys(v) # {1, 2} THEN "missing_key"
    ELSE IF ~(Is(Field(v, 1), "text") /\ Is(Field(v, 2), "text")) THEN "wrong_type"
    ELSE LET value == Field(v, 2).text
         IN  IF <<value.name, value.len>> \in IdentityForm(Field(v, 1).text.name)
             THEN Ok ELSE "schema_identity"

RECURSIVE Validate(_, _)

\* validate_map: unknown keys first, then the fields in schema order.
ValidateMap(v, fields) ==
    LET known == {fields[i][1] : i \in DOMAIN fields}
        Check(f) == IF f[1] \in Keys(v) THEN Validate(Field(v, f[1]), f[3])
                    ELSE IF f[2] THEN "missing_key" ELSE Ok
    IN  IF ~Is(v, "map") THEN "wrong_type"
        ELSE IF ~(Keys(v) \subseteq known) THEN "unknown_key"
        ELSE FirstFailure(Check, fields)

\* validate_qos, validate_effective_qos, validate_effective_service_qos
ValidateByHistory(v, s) ==
    LET history == IF ~Is(v, "map") THEN "wrong_type"
                   ELSE IF 3 \notin Keys(v) THEN "missing_key"
                   ELSE AsInteger(Field(v, 3), 0, 2)
    IN  IF history # Ok THEN history
        ELSE LET h == Number(Field(v, 3))
             IN  IF h = 1 THEN Validate(v, s.keepLast)
                 ELSE IF h \in s.histories THEN Validate(v, s.others)
                 ELSE "enum_violation"

Validate(v, s) ==
    CASE s.is = "bool" -> IF Is(v, "bool") THEN Ok ELSE "wrong_type"
      [] s.is = "const" -> AsConst(v, s.value)
      [] s.is = "uint" -> AsUint(v, s.min, s.max)
      [] s.is = "int64" -> AsInteger(v, Int64Min, Int64Max)
      [] s.is = "text" -> AsText(v, s)
      [] s.is = "bytes" -> AsBytes(v, s)
      [] s.is = "array" ->
            IF ~Is(v, "array") THEN "wrong_type"
            ELSE IF Len(v.array) \notin s.min .. s.max THEN "array_bound"
            ELSE LET items == FirstFailure(LAMBDA x : Validate(x, s.items), v.array)
                 IN  IF items # Ok THEN items ELSE ApplyArrayRule(v.array, s.rule)
      [] s.is = "map" -> ValidateMap(v, s.fields)
      [] s.is = "union" ->
            LET verdicts == [i \in DOMAIN s.variants |-> Validate(v, s.variants[i])]
            IN  IF \E i \in DOMAIN verdicts : verdicts[i] = Ok
                THEN Ok ELSE verdicts[Len(verdicts)]
      [] s.is = "identity" -> AsIdentity(v)
      [] s.is = "qos" -> ValidateByHistory(v, s)

-----------------------------------------------------------------------------
(* The shapes that control kinds share. *)

Uint32 == U(0, U32Max)
Uint64 == U(0, U64Max)
AppChannelId == U(1, U32Max)
DomainId == U(0, DomainIdMax)
WireErrorCode == U(1, 28)
PriorityId == U(0, 4)
PayloadEncodingCdr == U(1, 2)
OneOf(numbers) == Union([i \in DOMAIN numbers |-> ConstU64(numbers[i])])
Text4k == TextIn(0, Utf8TextMax, AnyText)
TextNonempty == TextIn(1, Utf8TextMax, AnyText)
Bytes16 == BytesOf(16, 16)
Bytes32 == BytesOf(32, 32)
BytesCred == BytesOf(1, 65535)
SupportRowId ==
    TextIn(1, Utf8TextMax, {"H-FT", "H-CY", "H-ZN", "J-FT", "J-CY", "J-ZN"})
RosDistro == TextIn(1, Utf8TextMax, {"humble", "jazzy"})
RmwIdentifier ==
    TextIn(1, Utf8TextMax,
           {"rmw_fastrtps_cpp", "rmw_cyclonedds_cpp", "rmw_zenoh_cpp"})

\* A QoS profile: reliability, durability, history, depth (KEEP_LAST only),
\* deadline, lifespan, liveliness and lease.
QosShape(reliability, durability, history, depth, liveliness) ==
    MapOf(<<Req(1, reliability), Req(2, durability), Req(3, history)>> \o depth
          \o <<Opt(5, Uint64), Opt(6, Uint64), liveliness, Opt(8, Uint64)>>)

Depth == <<Req(4, U(1, U32Max))>>
Concrete == OneOf(<<1, 2>>)

Qos ==
    LET Shape(history, depth) ==
            QosShape(U(0, 2), U(0, 2), history, depth, Opt(7, U(0, 2)))
    IN  ByHistory(Shape(ConstU64(1), Depth), Shape(OneOf(<<0, 2>>), <<>>), {0, 2})

EffectiveQos ==
    LET Shape(history, depth) ==
            QosShape(Concrete, Concrete, ConstU64(history), depth, Req(7, Concrete))
    IN  ByHistory(Shape(1, Depth), Shape(2, <<>>), {2})

EffectiveServiceQos ==
    LET Shape(history, depth) ==
            QosShape(ConstU64(1), ConstU64(2), ConstU64(history), depth,
                     Req(7, Concrete))
    IN  ByHistory(Shape(1, Depth), Shape(2, <<>>), {2})

ActionQos == MapOf([k \in 1 .. 5 |-> Req(k, Qos)])

EffectiveActionQos ==
    MapOf([k \in 1 .. 5 |->
              Req(k, IF k <= 3 THEN EffectiveServiceQos ELSE EffectiveQos)])

Budgets ==
    MapOf(<<Opt(1, Uint32), Opt(2, Uint64), Opt(3, Uint32), Opt(4, Uint64),
            Opt(5, Uint32), Opt(6, Uint64)>>)

ErrorTail == <<Opt(50, U(0, 3)), Opt(51, Text4k), Opt(52, Text4k)>>

ErrorBody(scope) ==
    MapOf(<<Req(48, WireErrorCode), Req(49, ConstU64(scope))>> \o ErrorTail)

TransportCaps == MapOf(<<Req(1, BoolOf), Req(2, BoolOf), Opt(3, Uint32)>>)
BufferCaps == MapOf(<<Req(1, BoolOf), Req(2, BoolOf)>>)
CapabilityIdList == ArrayOf(0, 64, U(1, 65535), "ascending")
NegotiatedCaps ==
    MapOf(<<Req(1, TransportCaps), Req(2, BufferCaps), Req(3, CapabilityIdList)>>)

SourceBundleEntry ==
    MapOf(<<Req(1, TextNonempty), Req(2, U(1, 5)), Req(3, BytesOf(0, 1048576))>>)

GraphNode ==
    MapOf(<<Req(55, Bytes16), Req(1, TextNonempty), Opt(2, Text4k),
            Req(9, DomainId)>>)

GraphEndpoint ==
    LET Shape(class, qos) ==
            MapOf(<<Req(56, Bytes16), Req(55, Bytes16), Req(1, TextNonempty),
                    Req(2, class), Req(3, TextNonempty), Req(4, Identity),
                    Req(5, PayloadEncodingCdr), Req(6, Uint64), qos,
                    Req(9, DomainId), Opt(8, SupportRowId)>>)
    IN  Union(<<Shape(U(0, 3), Req(7, Qos)),
                Shape(OneOf(<<4, 5>>), Req(58, ActionQos))>>)

GraphDeltaOp ==
    Union(<<MapOf(<<Req(1, ConstU64(0)), Req(2, GraphNode)>>),
            MapOf(<<Req(1, ConstU64(1)), Req(55, Bytes16)>>),
            MapOf(<<Req(1, ConstU64(2)), Req(3, GraphEndpoint)>>),
            MapOf(<<Req(1, ConstU64(3)), Req(56, Bytes16)>>)>>)

ChannelAck == MapOf(<<Req(1, AppChannelId), Req(2, Uint64)>>)

ChannelResumeResult ==
    LET Shape(status, rest) ==
            MapOf(<<Req(1, AppChannelId), Req(2, ConstU64(status))>> \o rest)
    IN  Union(<<Shape(0, <<Req(3, Uint64)>>), Shape(1, <<Req(3, ConstU64(0))>>),
                Shape(1, <<>>), Shape(2, <<>>),
                Shape(3, <<Req(15, ErrorBody(1))>>)>>)

-----------------------------------------------------------------------------
(* kind_schema *)

\* Every message has its kind and a 16-byte correlation id.
Kinded(kind, fields) ==
    MapOf(<<Req(1, ConstU64(kind)), Req(2, Bytes16)>> \o fields)

AuthenticateShape == Kinded(1, <<Req(16, TextNonempty), Req(17, BytesCred)>>)

SessionReadyShape ==
    Kinded(2, <<Req(7, TextNonempty), Req(8, SupportRowId),
                Req(10, ArrayOf(1, 233, DomainId, "ascending")),
                Req(13, TextNonempty), Req(12, Budgets), Req(18, RosDistro),
                Req(19, RmwIdentifier), Req(20, TextNonempty),
                Req(21, TextNonempty), Req(53, Bytes32), Req(54, NegotiatedCaps)>>)

GraphSnapshotShape ==
    Kinded(3, <<Req(14, Uint64), Req(7, TextNonempty), Req(8, SupportRowId),
                Req(22, ArrayOf(0, GraphMax, GraphNode, "nodes")),
                Req(23, ArrayOf(0, GraphMax, GraphEndpoint, "endpoints"))>>)

GraphDeltaShape ==
    Kinded(4, <<Req(14, Uint64), Req(24, Uint64), Req(7, TextNonempty),
                Req(8, SupportRowId),
                Req(25, ArrayOf(1, 1024, GraphDeltaOp, NoRule))>>)

SchemaRequestShape == Kinded(5, <<Req(4, TextNonempty), Req(3, Identity)>>)

SchemaDescription(kind) ==
    Kinded(kind, <<Req(4, TextNonempty), Req(3, Identity),
                   Req(5, PayloadEncodingCdr), Req(6, Uint64),
                   Req(26, BytesOf(1, 1048576)),
                   Opt(27, ArrayOf(0, 4096, SourceBundleEntry, NoRule)),
                   Opt(28, Uint64), Opt(8, SupportRowId)>>)

SchemaResponseShape ==
    Union(<<SchemaDescription(7),
            Kinded(7, <<Req(4, TextNonempty), Req(3, Identity),
                        Req(15, ErrorBody(0))>>)>>)

\* The OpenChannel shape of a channel class: topic 0 and 1, service 2 and 3,
\* action 4 and 5, media 6, recording 7, asset 8.
OpenChannelShape(class) ==
    LET Shape(classes, rest) ==
            Kinded(8, <<Req(29, AppChannelId), Req(30, classes),
                        Req(31, TextNonempty)>> \o rest)
        place == <<Req(32, PriorityId), Req(12, Budgets)>>
        ros(qos) == <<Req(4, TextNonempty), Req(3, Identity),
                      Req(5, PayloadEncodingCdr), Req(6, Uint64), qos>>
                    \o place \o <<Req(9, DomainId), Req(8, SupportRowId)>>
    IN  CASE class \in {0, 1} -> Shape(OneOf(<<0, 1>>), ros(Req(11, Qos)))
          [] class \in {2, 3} -> Shape(OneOf(<<2, 3>>), ros(Req(11, Qos)))
          [] class \in {4, 5} -> Shape(OneOf(<<4, 5>>), ros(Req(58, ActionQos)))
          [] class = 6 -> Shape(ConstU64(6), <<Req(5, OneOf(<<3, 4>>))>> \o place
                                   \o <<Opt(9, DomainId), Opt(8, SupportRowId)>>)
          [] class = 7 -> Shape(ConstU64(7), <<Req(5, OneOf(<<5, 6>>))>> \o place)
          [] class = 8 -> Shape(ConstU64(8), <<Req(5, ConstU64(6))>> \o place)

ChannelReadyShape ==
    LET Shape(results, rest) ==
            Kinded(9, <<Req(29, AppChannelId), Req(33, OneOf(results))>> \o rest)
        Success(qos) ==
            Shape(<<0, 2>>, <<Req(12, Budgets), Req(59, PriorityId)>> \o qos
                            \o <<Opt(6, Uint64), Opt(14, Uint64),
                                 Opt(9, DomainId), Opt(8, SupportRowId)>>)
    IN  Union(<<Success(<<Req(57, EffectiveQos)>>),
                Success(<<Req(60, EffectiveServiceQos)>>),
                Success(<<Req(58, EffectiveActionQos)>>), Success(<<>>),
                Shape(<<1, 3>>, <<Req(15, ErrorBody(1))>>)>>)

CloseChannelShape ==
    Kinded(10, <<Req(29, AppChannelId), Req(34, U(1, 6)), Opt(35, Uint64)>>)

ClockSyncShape ==
    Kinded(11, <<Req(36, U(0, 4)), Req(37, Int64), Opt(38, Uint64),
                 Opt(39, Int64)>>)

HeartbeatShape ==
    Kinded(12, <<Req(40, Uint64),
                 Opt(41, ArrayOf(0, 65535, AppChannelId, "ascending"))>>)

SessionResumeShape ==
    Kinded(13, <<Req(42, Bytes32), Req(43, ConstU64(0)), Req(44, NegotiatedCaps),
                 Req(7, TextNonempty), Req(8, SupportRowId), Req(14, Uint64),
                 Req(6, Uint64), Req(13, TextNonempty),
                 Req(45, ArrayOf(0, 65535, ChannelAck, "channelId")),
                 Req(16, TextNonempty), Req(17, BytesCred)>>)

SessionResumeResultShape ==
    Union(<<Kinded(14, <<Req(46, ConstBool(TRUE)),
                         Req(47, ArrayOf(0, 65535, ChannelResumeResult,
                                         "channelId"))>>),
            Kinded(14, <<Req(46, ConstBool(FALSE)), Req(15, ErrorBody(0))>>)>>)

ErrorShape ==
    LET Shape(scope, channel) ==
            Kinded(15, <<Req(48, WireErrorCode), Req(49, ConstU64(scope))>>
                       \o channel \o ErrorTail)
        channel == <<Req(29, AppChannelId)>>
    IN  Union(<<Shape(0, <<>>), Shape(1, channel), Shape(2, channel),
                Shape(3, <<>>)>>)

OpenChannelShapes == [class \in 0 .. 8 |-> OpenChannelShape(class)]

\* kind_schema: OpenChannel is chosen by its class, below.
KindSchema ==
    [kind \in (1 .. 15) \ {8} |->
        CASE kind = 1 -> AuthenticateShape
          [] kind = 2 -> SessionReadyShape
          [] kind = 3 -> GraphSnapshotShape
          [] kind = 4 -> GraphDeltaShape
          [] kind = 5 -> SchemaRequestShape
          [] kind = 6 -> SchemaDescription(6)
          [] kind = 7 -> SchemaResponseShape
          [] kind = 9 -> ChannelReadyShape
          [] kind = 10 -> CloseChannelShape
          [] kind = 11 -> ClockSyncShape
          [] kind = 12 -> HeartbeatShape
          [] kind = 13 -> SessionResumeShape
          [] kind = 14 -> SessionResumeResultShape
          [] kind = 15 -> ErrorShape]

-----------------------------------------------------------------------------
(* validate_control_message, decode_control_message *)

SupportRowTriple(row) ==
    LET distro == [r \in {"H-FT", "H-CY", "H-ZN"} |-> "humble"]
        rmw == [r \in {"H-FT", "J-FT"} |-> "rmw_fastrtps_cpp"]
               @@ [r \in {"H-CY", "J-CY"} |-> "rmw_cyclonedds_cpp"]
               @@ [r \in {"H-ZN", "J-ZN"} |-> "rmw_zenoh_cpp"]
    IN  <<IF row \in DOMAIN distro THEN "humble" ELSE "jazzy", rmw[row]>>

\* assert_session_ready_triple
SessionReadyTriple(v) ==
    IF SupportRowTriple(Field(v, 8).text.name)
         = <<Field(v, 18).text.name, Field(v, 19).text.name>>
    THEN Ok ELSE "support_row_mismatch"

ValidateOpenChannel(v) ==
    IF 30 \notin Keys(v) THEN "missing_key"
    ELSE LET class == AsInteger(Field(v, 30), 0, 8)
         IN  IF class # Ok THEN class
             ELSE With(OpenChannelShapes[Number(Field(v, 30))],
                       LAMBDA shape : Validate(v, shape))

ValidateControlMessage(v) ==
    IF ~Is(v, "map") THEN "wrong_type"
    ELSE IF 1 \notin Keys(v) THEN "missing_key"
    ELSE IF AsInteger(Field(v, 1), 0, 255) # Ok THEN AsInteger(Field(v, 1), 0, 255)
    ELSE LET kind == Number(Field(v, 1))
         IN  IF kind \notin 1 .. 15 THEN "unassigned_kind"
             ELSE IF kind = 8 THEN ValidateOpenChannel(v)
             ELSE LET verdict == With(KindSchema[kind], LAMBDA s : Validate(v, s))
                  IN  IF verdict = Ok /\ kind = 2 THEN SessionReadyTriple(v)
                      ELSE verdict

\* [val |-> message] or [err |-> reason].
DecodeControlMessage(tokens) ==
    IF Size(tokens) > ControlPayloadMaxBytes THEN Err("payload_too_large")
    ELSE With(DecodeCbor(tokens),
              LAMBDA decoded :
                IF Failed(decoded) THEN Err("cbor_profile")
                ELSE With(ValidateControlMessage(decoded.val),
                          LAMBDA verdict :
                            IF verdict = Ok THEN [val |-> decoded.val]
                            ELSE Err(verdict)))
=============================================================================
