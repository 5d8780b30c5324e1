---------------------------- MODULE MCSessionWire ----------------------------
(***************************************************************************)
(* TLC instance of SessionWire: one usable channel id and the reserved 0,  *)
(* generations 0 and 1, and the packets below.  Built packets take each    *)
(* input of a builder through the values around its bound while the others *)
(* stay ordinary; foreign packets are one message of every kind, these     *)
(* with a field missing or added, and the ways to write a payload or a     *)
(* header wrongly.                                                         *)
(***************************************************************************)
EXTENDS SessionWire

TextOf(n) == Text(Content("text", 0, n))
Ordinary == TextOf(7)
Correlation == Bytes(Content("correlation", 0, 16))
TextSizes == {0, 1, 4096, 4097}
Rows == {"H-FT", "H-CY", "H-ZN", "J-FT", "J-CY", "J-ZN"}
ErrorCodes == {1, 20, 25, 28, 29}

Nonempty(text) == text.text.len \in 1 .. 4096
Short(text) == text.text.len <= 4096
IsErrorCode(code) == code \in (1 .. 28) \ {20}

\* A packet a program built, with what it means and whether its inputs fit.
Built(message, fits, packet) ==
    [packet |-> packet, meant |-> <<[message |-> message, fits |-> fits]>>]

BuiltControl(message, fits, value) ==
    Built(message, fits, EncodeControlFrame(value))

-----------------------------------------------------------------------------
(* The client. *)

Authenticates ==
    {BuiltControl([type |-> "Authenticate"],
                  Nonempty(scheme) /\ token \in 1 .. 65535,
                  Authenticate(Correlation, scheme, Bytes(Content("token", 0, token)))) :
        scheme \in {TextOf(n) : n \in TextSizes}, token \in {0, 1, 65535, 65536, 1048576}}

\* Where an open goes: channel, name, domain and row, one of them unusual.
Places ==
    [ch : ChannelIds, name : {Ordinary}, domain : {0}, row : {"J-FT"}]
      \cup [ch : {1}, name : {TextOf(n) : n \in TextSizes}, domain : {0}, row : {"J-FT"}]
      \cup [ch : {1}, name : {Ordinary}, domain : {232, 233, 255}, row : {"J-FT"}]
      \cup [ch : {1}, name : {Ordinary}, domain : {0}, row : Rows]

Open(place, class, value) ==
    BuiltControl([type |-> "OpenChannel", ch |-> place.ch, class |-> class],
                 place.ch # 0 /\ Nonempty(place.name) /\ place.domain <= 232, value)

Opens ==
    {Open(p, kind, OpenTopic(Correlation, p.ch, kind, p.name, Ordinary, reliability,
                             depth, p.domain, p.row)) :
        p \in Places, kind \in {0, 1}, reliability \in {1, 2}, depth \in {0, 5}}
      \cup {Open(p, IF client THEN 2 ELSE 3,
                 OpenService(Correlation, p.ch, client, p.name, Ordinary, p.domain,
                             p.row)) : p \in Places, client \in BOOLEAN}
      \cup {Open(p, IF client THEN 4 ELSE 5,
                 OpenAction(Correlation, p.ch, client, p.name, Ordinary, p.domain,
                            p.row)) : p \in Places, client \in BOOLEAN}

Closes ==
    {BuiltControl([type |-> "CloseChannel", ch |-> c], c # 0,
                  CloseChannel(Correlation, c)) : c \in ChannelIds}

Heartbeats ==
    {BuiltControl([type |-> "Heartbeat"], TRUE, Heartbeat(n)) :
        n \in {0, 23, 24, 65536, U64Max}}

-----------------------------------------------------------------------------
(* Bootstrap. *)

Transport(wt, wss) == [webtransport |-> wt, wss |-> wss, datagram |-> <<>>]
Limits(n) == [i \in 1 .. 4 |-> IF n = 0 THEN <<>> ELSE <<Unsigned(n)>>]

Hellos ==
    [versions : {<<0>>, <<1>>, <<1, 0>>},
     transport : {Transport(wt, wss) : wt, wss \in BOOLEAN},
     buffer : {[transferable |-> TRUE, shared |-> TRUE]},
     limits : {Limits(n) : n \in {0, 1, 65536, U32Max}},
     capabilities : {<<>>, <<1, 2>>}]

BaseConfig ==
    [instance |-> Ordinary, row |-> "J-FT", domain |-> 0, limits |-> Ceiling,
     queueDepth |-> 256, queueBytes |-> 4194304, offerWebtransport |-> FALSE]

Configs ==
    {[BaseConfig EXCEPT !.row = r] : r \in Rows}
      \cup {[BaseConfig EXCEPT !.domain = d] : d \in {232, 233}}
      \cup {[BaseConfig EXCEPT !.instance = TextOf(n)] : n \in TextSizes}
      \cup {[BaseConfig EXCEPT !.offerWebtransport = TRUE,
                               !.limits = [i \in 1 .. 4 |-> U32Max]]}

ConfigFits(config) == Nonempty(config.instance) /\ config.domain <= 232

ClientHellos ==
    {Built([type |-> "ClientHello"], TRUE, EncodeClientHello(hello)) : hello \in Hellos}

\* The gateway's answers to a hello.
HelloAnswers ==
    {LET verdict == HelloVerdict(hello, config, active)
     IN  IF verdict = 0
         THEN Built([type |-> "ServerHello"], TRUE,
                    EncodeServerHello(NegotiateServerHello(hello, config)))
         ELSE Built([type |-> "BootstrapError"], TRUE,
                    EncodeBootstrapError(verdict, Word("hello_negotiation_failed"))) :
        hello \in Hellos, active \in {"BinaryWebSocket", "WebTransportHttp3"},
        config \in {c \in Configs : c.row = "J-FT" /\ c.domain = 0
                                      /\ c.instance = Ordinary}}

-----------------------------------------------------------------------------
(* The gateway. *)

Accepted == NegotiateServerHello(CHOOSE h \in Hellos : h.transport.wss, BaseConfig)

SessionReadies ==
    {BuiltControl([type |-> "SessionReady"], ConfigFits(config) /\ Nonempty(identity),
                  SessionReady(config, Accepted, Correlation, identity)) :
        config \in Configs, identity \in {TextOf(n) : n \in TextSizes}}

Number3 == {Unsigned(n) : n \in 0 .. 2}

\* The QoS profiles an OpenChannel may carry.
AskedQos ==
    {Map(<< <<1, r>>, <<2, d>>, <<3, Unsigned(h)>> >> \o depth \o liveliness) :
        r \in Number3, d \in Number3, h \in {0, 2}, depth \in {<<>>},
        liveliness \in {<<>>} \cup {<< <<7, n>> >> : n \in Number3}}
      \cup {Map(<< <<1, r>>, <<2, d>>, <<3, Unsigned(1)>> >> \o depth \o liveliness) :
        r \in Number3, d \in Number3, depth \in {<< <<4, Unsigned(n)>> >> : n \in {1, 3}},
        liveliness \in {<<>>} \cup {<< <<7, n>> >> : n \in Number3}}

Ready(config, c, qos) ==
    BuiltControl([type |-> "ChannelReady", ch |-> c, result |-> "Allow"],
                 c # 0 /\ config.domain <= 232,
                 ChannelReadyAllow(config, Correlation, c, 2, qos))

ChannelReadies ==
    {Ready(BaseConfig, 1, <<57, ToWire(ResolveEffective(qos))>>) : qos \in AskedQos}
      \cup {Ready(config, c, qos) : config \in Configs, c \in ChannelIds,
                qos \in {<<60, ServiceQosWire>>, <<58, ActionQosWire>>}}

Errors ==
    {BuiltControl([type |-> "Error", scope |-> "session", ch |-> NoChannel],
                  IsErrorCode(code) /\ Short(text),
                  SessionError(correlation, code, text)) :
        correlation \in {ZeroCorrelation, Correlation}, code \in ErrorCodes,
        text \in {TextOf(n) : n \in TextSizes}}
      \cup {BuiltControl([type |-> "Error", scope |-> "channel", ch |-> c],
                         c # 0 /\ IsErrorCode(code) /\ Short(text),
                         ChannelError(c, code, text)) :
        c \in ChannelIds, code \in ErrorCodes, text \in {TextOf(n) : n \in TextSizes}}
      \cup {BuiltControl([type |-> "ChannelReady", ch |-> c, result |-> "Error"],
                         c # 0 /\ IsErrorCode(code) /\ Short(text),
                         ChannelReadyError(Correlation, c, code, text)) :
        c \in ChannelIds, code \in ErrorCodes, text \in {TextOf(n) : n \in TextSizes}}

Node(id) == [id |-> id, name |-> Ordinary, namespace |-> <<>>, domain |-> 0]
Endpoint(id, kind) ==
    [id |-> id, node |-> 1, name |-> Ordinary, kind |-> kind,
     typeName |-> Ordinary, domain |-> 0]

Views ==
    {[nodes |-> ns, endpoints |-> es] :
        ns \in {<<Node(1)>>, <<Node(2), Node(1)>>, <<Node(1), Node(1)>>},
        es \in {<<>>, <<Endpoint(2, 0), Endpoint(1, 2)>>, <<Endpoint(1, 4)>>,
                <<Endpoint(3, 0), Endpoint(1, 2), Endpoint(3, 0)>>}}

DistinctIds(infos) == \A i, j \in DOMAIN infos : infos[i].id = infos[j].id => i = j

Graphs ==
    {BuiltControl([type |-> "GraphSnapshot", gen |-> g],
                  ConfigFits(config) /\ DistinctIds(view.nodes)
                    /\ DistinctIds(view.endpoints),
                  GraphSnapshot(config, g, view)) :
        config \in {BaseConfig, [BaseConfig EXCEPT !.row = "H-FT"]},
        g \in 0 .. MaxGeneration, view \in Views}
      \cup {BuiltControl([type |-> "GraphDelta", base |-> b, gen |-> g],
                         ConfigFits(BaseConfig),
                         GraphDelta(BaseConfig, b, g, Endpoint(1, kind))) :
        b \in 0 .. MaxGeneration, g \in 0 .. MaxGeneration, kind \in {0, 4}}

-----------------------------------------------------------------------------
(* Data frames of both programs. *)

Payload(n) == <<Token(2, 0, 0, <<Content("cdr", 0, n)>>)>>

DataHeader(opcode, flags) ==
    [version |-> 0, opcode |-> opcode, flags |-> flags, channel |-> 1, time |-> 0,
     priority |-> 2, clock |-> 0]

DataFrames ==
    {Built([type |-> "Data", opcode |-> OpcodeName[opcode], ch |-> 1,
            reliable |-> flags # {}, opid |-> IF id = <<>> THEN "none" ELSE id[1]],
           TRUE, AppFrame(DataHeader(opcode, flags), id, Payload(8))) :
        opcode \in 2 .. 9, flags \in {{}, {"ROS_RELIABLE"}},
        id \in {<<>>, <<"zero">>, <<"goal">>}}

BuiltPackets ==
    UNION {Authenticates, Opens, Closes, Heartbeats, ClientHellos, HelloAnswers,
           SessionReadies, ChannelReadies, Errors, Graphs, DataFrames}

-----------------------------------------------------------------------------
(* Foreign packets. *)

Foreign(packet) == [packet |-> packet, meant |-> <<>>]

IdentityJ == SchemaIdentity("J-FT")
AnyBytes(n) == Bytes(Content("bytes", 0, n))
NegotiatedCapsValue ==
    Map(<< <<1, TransportValue(Accepted.transport)>>,
           <<2, BufferValue(Accepted.buffer)>>, <<3, CapabilityListValue(<<1, 2>>)>> >>)
ErrorBodyValue(scope) == Map(<< <<48, Unsigned(1)>>, <<49, Unsigned(scope)>> >>)
OtherOpen(class, encoding) ==
    Message(8, Correlation,
            << <<5, Unsigned(encoding)>>, <<12, Map(<<>>)>>, <<29, Unsigned(1)>>,
               <<30, Unsigned(class)>>, <<31, Ordinary>>, <<32, Unsigned(2)>> >>)

\* One message of every kind and variant that the programs do not build.
Unbuilt ==
    {Message(5, Correlation, << <<3, IdentityJ>>, <<4, Ordinary>> >>),
     Message(6, Correlation, << <<3, IdentityJ>>, <<4, Ordinary>>, <<5, Unsigned(1)>>,
                                <<6, Unsigned(0)>>, <<26, AnyBytes(1)>>,
                                <<27, Array(<<Map(<< <<1, Ordinary>>, <<2, Unsigned(5)>>,
                                                     <<3, AnyBytes(0)>> >>)>>)>> >>),
     Message(7, Correlation, << <<3, IdentityJ>>, <<4, Ordinary>>, <<5, Unsigned(1)>>,
                                <<6, Unsigned(0)>>, <<26, AnyBytes(1)>> >>),
     Message(7, Correlation, << <<3, IdentityJ>>, <<4, Ordinary>>,
                                <<15, ErrorBodyValue(0)>> >>),
     OtherOpen(6, 3), OtherOpen(7, 5), OtherOpen(8, 6), OtherOpen(8, 5),
     Message(9, Correlation, << <<12, Map(<<>>)>>, <<29, Unsigned(1)>>,
                                <<33, Unsigned(2)>>, <<59, Unsigned(4)>> >>),
     Message(9, Correlation, << <<15, ErrorBodyValue(1)>>, <<29, Unsigned(1)>>,
                                <<33, Unsigned(1)>> >>),
     Message(11, Correlation, << <<36, Unsigned(1)>>, <<37, Negative(-5)>> >>),
     Message(12, Correlation, << <<40, Unsigned(0)>>,
                                 <<41, CapabilityListValue(<<1, 3>>)>> >>),
     Message(12, Correlation, << <<40, Unsigned(0)>>,
                                 <<41, CapabilityListValue(<<3, 1>>)>> >>),
     Message(13, Correlation,
             << <<6, Unsigned(0)>>, <<7, Ordinary>>, <<8, Word("H-FT")>>,
                <<13, Ordinary>>, <<14, Unsigned(0)>>, <<16, Ordinary>>,
                <<17, AnyBytes(2)>>, <<42, AnyBytes(32)>>, <<43, Unsigned(0)>>,
                <<44, NegotiatedCapsValue>>,
                <<45, Array(<<Map(<< <<1, Unsigned(1)>>, <<2, Unsigned(0)>> >>)>>)>> >>),
     Message(14, Correlation,
             << <<46, Bool(TRUE)>>,
                <<47, Array(<<Map(<< <<1, Unsigned(1)>>, <<2, Unsigned(2)>> >>)>>)>> >>),
     Message(14, Correlation, << <<15, ErrorBodyValue(0)>>, <<46, Bool(FALSE)>> >>),
     Message(15, Correlation, << <<29, Unsigned(1)>>, <<48, Unsigned(1)>>,
                                 <<49, Unsigned(2)>> >>),
     Message(15, Correlation, << <<48, Unsigned(1)>>, <<49, Unsigned(3)>> >>),
     Message(16, Correlation, <<>>),
     Map(<< <<2, Correlation>> >>), Array(<<>>), Null}

\* With one field missing, one added, one of another type.
Misshapen(v) ==
    IF Is(v, "map")
    THEN {Map(RemoveAt(v.map, i)) : i \in DOMAIN v.map}
           \cup {Map(v.map \o << <<99, Bool(TRUE)>> >>)}
           \cup {Map([v.map EXCEPT ![i][2] = Bool(TRUE)]) : i \in DOMAIN v.map}
    ELSE {}

SmallMessages ==
    {CloseChannel(Correlation, 1), Heartbeat(24), SessionError(Correlation, 25, Ordinary)}

ShapePackets ==
    {EncodeControlFrame(v) : v \in Unbuilt}
      \cup {EncodeControlFrame(w) : w \in UNION {Misshapen(v) : v \in Unbuilt \cup SmallMessages}}

\* A frame around any payload.
Around(payload) == FrameBytes(ControlHeader, NoArea, payload)

Longer(info) == IF info < 24 THEN 24 ELSE IF info < 27 THEN info + 1 ELSE 27

\* The payload of a message, one token of it written wrongly.
Miswritten(t) ==
    {[t EXCEPT ![i].info = Longer(t[i].info)] : i \in DOMAIN t}
      \cup {[t EXCEPT ![i].info = n] : i \in DOMAIN t, n \in {28, 31}}
      \cup {[t EXCEPT ![i].major = n] : i \in DOMAIN t, n \in {6, 7}}
      \cup {[t EXCEPT ![i].info = 25, ![i].argument = NoArgument] : i \in DOMAIN t}
      \cup {SubSeq(t, 1, n) : n \in 0 .. Len(t) - 1}
      \cup {Append(t, Token(7, 22, 22, <<>>))}
      \cup {[t EXCEPT ![i] = t[i + 2], ![i + 2] = t[i]] :
                i \in {j \in DOMAIN t : j > 1 /\ j + 2 \in DOMAIN t}}

RECURSIVE Nested(_)
Nested(n) == IF n = 0 THEN Array(<<>>) ELSE Array(<<Nested(n - 1)>>)

PayloadPackets ==
    {Around(p) : p \in UNION {Miswritten(EncodeValue(v)) : v \in SmallMessages}}
      \cup {Around(EncodeValue(Nested(n))) : n \in {15, 16}}
      \cup {Around(<<Token(3, 8, 8, <<Content("not_utf8", 0, 8)>>)>>)}

\* Headers and extension areas, on a heartbeat and on a sample.
WrongHeader(f) ==
    {[f EXCEPT !.version = 1], [f EXCEPT !.opcode = 13], [f EXCEPT !.opcode = 128],
     [f EXCEPT !.channel = 1 - f.channel], [f EXCEPT !.priority = 5],
     [f EXCEPT !.priority = 1], [f EXCEPT !.clock = 5], [f EXCEPT !.time = 1],
     [f EXCEPT !.clock = 1, !.time = 1], [f EXCEPT !.total = f.total - 1],
     [f EXCEPT !.total = f.total + 1], [f EXCEPT !.total = 31],
     [f EXCEPT !.payloadLen = FramePayloadMaxBytes + 1],
     [f EXCEPT !.payloadLen = ControlPayloadMaxBytes + 1],
     [f EXCEPT !.extLen = 4100], [f EXCEPT !.total = HeaderLength + f.extLen]}
      \cup {[f EXCEPT !.flags = {flag}] :
                flag \in {"ROS_RELIABLE", "KEYFRAME", "TRACE_PRESENT", "RETAINED",
                          "FRAGMENT", "unknown"}}

Areas ==
    LET id == Tlv(OperationId, TRUE, 16, "goal")
        trace == Tlv(TraceContext, FALSE, 32, "trace")
        other == Tlv(128, FALSE, 5, "other")
        Area(tlvs, cut) == [tlvs |-> tlvs, cut |-> cut]
    IN  {Area(<<trace>>, 0), Area(<<trace, id>>, 0), Area(<<id, trace>>, 0),
         Area(<<id, id>>, 0), Area(<<other>>, 0), Area(<<other>>, 3),
         Area(<<other>>, 4), Area(<<other>>, 8),
         Area(<<[other EXCEPT !.critical = TRUE]>>, 0),
         Area(<<[other EXCEPT !.padded = FALSE]>>, 0),
         Area(<<[other EXCEPT !.clean = FALSE]>>, 0),
         Area(<<[other EXCEPT !.len = 4096]>>, 0),
         Area(<<[id EXCEPT !.len = 12]>>, 0),
         Area(<<[trace EXCEPT !.value = "reserved"]>>, 0)}

Sample == AppFrame(DataHeader(RosSample, {}), <<>>, Payload(8))

HeaderPackets ==
    WrongHeader(EncodeControlFrame(Heartbeat(1))) \cup WrongHeader(Sample)
      \cup {FrameBytes([ControlHeader EXCEPT !.flags = flags], area,
                       EncodeValue(Heartbeat(1))) :
                area \in Areas, flags \in {{}, {"TRACE_PRESENT"}}}
      \cup {EncodeFrame(DataHeader(opcode, {}), NoArea, Payload(8)) :
                opcode \in 10 .. 12}

PrefixPackets ==
    LET b == EncodeClientHello(CHOOSE h \in Hellos : TRUE)
    IN  {[b EXCEPT !.magic = "other"], [b EXCEPT !.version = 1],
         [b EXCEPT !.flags = {"unknown"}], [b EXCEPT !.kind = 4],
         [b EXCEPT !.payloadLen = BootstrapPayloadMaxBytes + 1],
         [b EXCEPT !.total = b.total + 1], [b EXCEPT !.total = 11]}
        \cup {EncodeBootstrap(kind, w) : kind \in 1 .. 3,
                w \in Misshapen(ClientHelloValue(CHOOSE h \in Hellos : TRUE))}
        \cup {EncodeBootstrap(3, BootstrapErrorValue(code, Ordinary)) : code \in 0 .. 5}

ForeignPackets ==
    {Foreign(p) : p \in UNION {ShapePackets, PayloadPackets, HeaderPackets,
                               PrefixPackets}}

StudiedPackets == BuiltPackets \cup ForeignPackets
=============================================================================
