---------------------------- MODULE R2wpBuilders -----------------------------
(***************************************************************************)
(* The messages the two programs build: the client engine                  *)
(* (rclweb/src/engine/control.rs) and the gateway (rclwebd/src/control.rs, *)
(* qos.rs, budgets.rs, config.rs).  Each builder gives the CBOR value that *)
(* the encoders of R2wpFrame write.                                        *)
(***************************************************************************)
EXTENDS R2wpFrame, FiniteSetsExt

\* The all-zero correlation id, and the one a client chose.
ZeroCorrelation == Bytes(Content("zero", 0, 16))

Message(kind, correlation, fields) ==
    Map(<< <<1, Unsigned(kind)>>, <<2, correlation>> >> \o fields)

-----------------------------------------------------------------------------
(* config.rs: the support rows and the schema scheme of a row *)

SupportRow(id) ==
    [id |-> Word(id), ros_distro |-> Word(SupportRowTriple(id)[1]),
     rmw_identifier |-> Word(SupportRowTriple(id)[2])]

HumbleRow(id) == id \in {"H-FT", "H-CY", "H-ZN"}

SchemaScheme(id) == IF HumbleRow(id) THEN "rclweb-schema-v1" ELSE "rep2011-rihs"

\* resolve_open_schema_identity, demo_schema_identity: registered or demo, the
\* value has the form of the row's scheme.
SchemaIdentity(row) ==
    Map(<< <<1, Word(SchemaScheme(row))>>,
           <<2, Text(IF HumbleRow(row) THEN Content("hex", 0, 64)
                     ELSE Content("RIHS01_hex", 0, 71))>> >>)

-----------------------------------------------------------------------------
(* The client: engine/control.rs *)

Authenticate(correlation, scheme, token) ==
    Message(1, correlation, << <<16, scheme>>, <<17, token>> >>)

DefaultQosDepth == 5

KeepLastQos(reliability, depth) ==
    Map(<< <<1, Unsigned(reliability)>>, <<2, Unsigned(0)>>, <<3, Unsigned(1)>>,
           <<4, Unsigned(depth)>> >>)

OpenChannel(correlation, channel, kind, name, typeName, qos, domain, row) ==
    Message(8, correlation,
            << <<29, Unsigned(channel)>>, <<30, Unsigned(kind)>>, <<31, name>>,
               <<4, typeName>>, <<3, SchemaIdentity(row)>>, <<5, Unsigned(1)>>,
               <<6, Unsigned(0)>>, qos, <<32, Unsigned(2)>>, <<12, Map(<<>>)>>,
               <<9, Unsigned(domain)>>, <<8, Word(row)>> >>)

OpenTopic(correlation, channel, kind, name, typeName, reliable, depth, domain, row) ==
    OpenChannel(correlation, channel, kind, name, typeName,
                <<11, KeepLastQos(reliable, Max({depth, 1}))>>, domain, row)

OpenService(correlation, channel, client, name, typeName, domain, row) ==
    OpenTopic(correlation, channel, IF client THEN 2 ELSE 3, name, typeName, 1,
              DefaultQosDepth, domain, row)

OpenAction(correlation, channel, client, name, typeName, domain, row) ==
    OpenChannel(correlation, channel, IF client THEN 4 ELSE 5, name, typeName,
                <<58, Map([k \in 1 .. 5 |->
                              <<k, KeepLastQos(1, DefaultQosDepth)>>])>>,
                domain, row)

CloseChannel(correlation, channel) ==
    Message(10, correlation,
            << <<29, Unsigned(channel)>>, <<34, Unsigned(1)>> >>)

\* Both peers.
Heartbeat(counter) == Message(12, ZeroCorrelation, << <<40, Unsigned(counter)>> >>)

-----------------------------------------------------------------------------
(* The hellos: encode.rs and negotiate_server_hello.  An optional field is *)
(* a sequence of at most one value.                                        *)

Entry(key, optional) == IF optional = <<>> THEN <<>> ELSE << <<key, optional[1]>> >>

TransportValue(caps) ==
    Map(<< <<1, Bool(caps.webtransport)>>, <<2, Bool(caps.wss)>> >>
        \o Entry(3, caps.datagram))

BufferValue(caps) ==
    Map(<< <<1, Bool(caps.transferable)>>, <<2, Bool(caps.shared)>> >>)

CapabilityListValue(ids) == Array([i \in DOMAIN ids |-> Unsigned(ids[i])])

\* limits: the four limits, each optional.
LimitsValue(limits) ==
    Map(Entry(1, limits[1]) \o Entry(2, limits[2]) \o Entry(3, limits[3])
        \o Entry(4, limits[4]))

HelloValue(first, hello) ==
    Map(<< <<1, first>>, <<2, TransportValue(hello.transport)>>,
           <<3, BufferValue(hello.buffer)>>, <<4, LimitsValue(hello.limits)>>,
           <<6, CapabilityListValue(hello.capabilities)>> >>)

ClientHelloValue(hello) == HelloValue(CapabilityListValue(hello.versions), hello)
ServerHelloValue(hello) == HelloValue(Unsigned(0), hello)

BootstrapErrorValue(code, message) ==
    Map(<< <<1, Unsigned(code)>>, <<2, message>> >>)

\* encode_client_hello, encode_server_hello, encode_bootstrap_error
EncodeClientHello(hello) == EncodeBootstrap(1, ClientHelloValue(hello))
EncodeServerHello(hello) == EncodeBootstrap(2, ServerHelloValue(hello))
EncodeBootstrapError(code, message) ==
    EncodeBootstrap(3, BootstrapErrorValue(code, message))

Ceiling == <<65535, EffectiveMaxSessionBytes, 67108864, 1048576>>

EffectiveLimit(requested, hard, ceiling) ==
    Min({IF requested = <<>> THEN hard ELSE requested[1].uint, hard, ceiling})

\* The error code of a hello that cannot be served, or 0.
HelloVerdict(hello, config, active) ==
    IF ~ \E i \in DOMAIN hello.versions : hello.versions[i] = 0 THEN 2
    ELSE IF active = "BinaryWebSocket" /\ ~hello.transport.wss THEN 25
    ELSE IF /\ active = "WebTransportHttp3"
            /\ ~(hello.transport.webtransport /\ config.offerWebtransport) THEN 25
    ELSE 0

NegotiateServerHello(hello, config) ==
    [transport |-> [webtransport |-> hello.transport.webtransport
                                       /\ config.offerWebtransport,
                    wss |-> hello.transport.wss, datagram |-> <<>>],
     buffer |-> [transferable |-> hello.buffer.transferable, shared |-> FALSE],
     limits |-> [i \in 1 .. 4 |->
                    <<Unsigned(EffectiveLimit(hello.limits[i], config.limits[i],
                                              Ceiling[i]))>>],
     capabilities |-> <<>>]

-----------------------------------------------------------------------------
(* qos.rs, budgets.rs *)

\* A value of the request, or its default.
Requested(qos, key, default) ==
    IF key \in Keys(qos) THEN Field(qos, key).uint ELSE default

\* resolve_effective of the QoS that OpenChannel carries.
ResolveEffective(qos) ==
    LET keepAll == Requested(qos, 3, 0) = 2
    IN  [reliable |-> Requested(qos, 1, 0) # 2,
         transientLocal |-> Requested(qos, 2, 0) = 1,
         keepAll |-> keepAll,
         depth |-> IF keepAll THEN 0 ELSE Max({Requested(qos, 4, 10), 1}),
         manualByTopic |-> Requested(qos, 7, 0) = 2]

\* Fault: the depth is written for every history.
ToWireAnyDepth(q) ==
    LET Choice(first) == Unsigned(IF first THEN 1 ELSE 2)
    IN  Map(<< <<1, Choice(q.reliable)>>, <<2, Choice(q.transientLocal)>>,
               <<3, Choice(~q.keepAll)>>, <<4, Unsigned(q.depth)>>,
               <<7, Choice(~q.manualByTopic)>> >>)

ToWire(q) ==
    LET Choice(first) == Unsigned(IF first THEN 1 ELSE 2)
    IN  Map(<< <<1, Choice(q.reliable)>>, <<2, Choice(q.transientLocal)>>,
               <<3, Choice(~q.keepAll)>> >>
            \o (IF q.keepAll THEN <<>> ELSE << <<4, Unsigned(q.depth)>> >>)
            \o << <<7, Choice(~q.manualByTopic)>> >>)

EffectiveBudgetsMap(samples, bytes, message) ==
    Map(<< <<1, Unsigned(samples)>>, <<2, Unsigned(bytes)>>,
           <<3, Unsigned(message)>> >>)

-----------------------------------------------------------------------------
(* The gateway: rclwebd/src/control.rs *)

SessionReady(config, hello, correlation, identity) ==
    LET row == SupportRow(config.row)
    IN  Message(2, correlation,
                << <<7, config.instance>>, <<8, row.id>>,
                   <<10, Array(<<Unsigned(config.domain)>>)>>,
                   <<12, EffectiveBudgetsMap(config.limits[1], config.limits[2],
                                             config.limits[3])>>,
                   <<13, Word("r1-dev")>>, <<18, row.ros_distro>>,
                   <<19, row.rmw_identifier>>, <<20, Word("1.0")>>,
                   <<21, identity>>, <<53, Bytes(Content("session", 0, 32))>>,
                   <<54, Map(<< <<1, TransportValue(hello.transport)>>,
                                <<2, BufferValue(hello.buffer)>>,
                                <<3, CapabilityListValue(hello.capabilities)>> >>)>> >>)

\* channel_ready_allow, channel_ready_service_allow, channel_ready_action_allow
ChannelReadyAllow(config, correlation, channel, priority, qos) ==
    Message(9, correlation,
            << <<29, Unsigned(channel)>>, <<33, Unsigned(0)>>,
               <<12, EffectiveBudgetsMap(config.queueDepth, config.queueBytes,
                                         config.limits[3])>>,
               <<59, Unsigned(priority)>>, qos, <<9, Unsigned(config.domain)>>,
               <<8, Word(config.row)>> >>)

ChannelReadyError(correlation, channel, code, message) ==
    Message(9, correlation,
            << <<29, Unsigned(channel)>>, <<33, Unsigned(3)>>,
               <<15, Map(<< <<48, Unsigned(code)>>, <<49, Unsigned(1)>>,
                            <<51, message>> >>)>> >>)

\* effective_service_qos_wire, advertised_topic_qos_wire
ServiceQosWire ==
    Map(<< <<1, Unsigned(1)>>, <<2, Unsigned(2)>>, <<3, Unsigned(1)>>,
           <<4, Unsigned(5)>>, <<7, Unsigned(1)>> >>)

\* effective_action_qos_wire, advertised_action_qos_wire
ActionQosWire == Map([k \in 1 .. 5 |-> <<k, ServiceQosWire>>])

\* pad_id16: the last 16 bytes; an id is known here by its place in their order.
PadId16(id) == Bytes(Content("id", id, 16))

GraphNodeValue(node) ==
    Map(<< <<55, PadId16(node.id)>>, <<1, node.name>> >>
        \o Entry(2, node.namespace) \o << <<9, Unsigned(node.domain)>> >>)

GraphEndpointValue(e, row) ==
    Map(<< <<56, PadId16(e.id)>>, <<55, PadId16(e.node)>>, <<1, e.name>>,
           <<2, Unsigned(e.kind)>>, <<3, e.typeName>>, <<4, SchemaIdentity(row)>>,
           <<5, Unsigned(1)>>, <<6, Unsigned(0)>>,
           IF e.kind <= 3 THEN <<7, ServiceQosWire>> ELSE <<58, ActionQosWire>>,
           <<9, Unsigned(e.domain)>>, <<8, Word(row)>> >>)

ById(infos) == SortSeq(infos, LAMBDA a, b : a.id < b.id)

GraphSnapshot(config, generation, view) ==
    Message(3, ZeroCorrelation,
            << <<14, Unsigned(generation)>>, <<7, config.instance>>,
               <<8, Word(config.row)>>,
               <<22, Array([i \in DOMAIN view.nodes |->
                               GraphNodeValue(ById(view.nodes)[i])])>>,
               <<23, Array([i \in DOMAIN view.endpoints |->
                               GraphEndpointValue(ById(view.endpoints)[i],
                                                  config.row)])>> >>)

\* graph_delta with graph_delta_add_endpoint
GraphDelta(config, base, generation, endpoint) ==
    Message(4, ZeroCorrelation,
            << <<14, Unsigned(generation)>>, <<24, Unsigned(base)>>,
               <<7, config.instance>>, <<8, Word(config.row)>>,
               <<25, Array(<<Map(<< <<1, Unsigned(2)>>,
                                    <<3, GraphEndpointValue(endpoint,
                                                            config.row)>> >>)>>)>> >>)

\* session_error, session_error_with_correlation
SessionError(correlation, code, message) ==
    Message(15, correlation,
            << <<48, Unsigned(code)>>, <<49, Unsigned(0)>>, <<51, message>> >>)

ChannelError(channel, code, message) ==
    Message(15, ZeroCorrelation,
            << <<48, Unsigned(code)>>, <<49, Unsigned(1)>>,
               <<29, Unsigned(channel)>>, <<51, message>> >>)

-----------------------------------------------------------------------------
(* push_app_frame, send_operation: a service or action frame carries its   *)
(* operation id in a critical extension; a sample carries none.            *)

AppFrame(header, opid, payload) ==
    LET area == IF opid = <<>> THEN NoArea
                ELSE EncodeExtensionArea(<<Tlv(OperationId, TRUE, 16, opid[1])>>)
    IN  IF Failed(area) THEN area ELSE EncodeFrame(header, area, payload)
=============================================================================
