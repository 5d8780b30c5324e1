------------------------------ MODULE R2wpFrame ------------------------------
(***************************************************************************)
(* The two outer formats of R2WP: bootstrap records (protocol/bootstrap.rs) *)
(* and selected-version frames with their extension area                   *)
(* (protocol/frame.rs, protocol/extension.rs), and the encoders of both    *)
(* (protocol/encode.rs).  A packet is a record of its header fields and    *)
(* its content; total is the number of bytes received.  Encoders and       *)
(* parsers give [err |-> reason] or what was written or read.              *)
(***************************************************************************)
EXTENDS R2wpControl

Align4(n) == ((n + 3) \div 4) * 4

-----------------------------------------------------------------------------
(* Extension TLVs.  len is the declared value length; padded says that the *)
(* padding is zero, clean that the reserved flag bits are zero, and value  *)
(* is the operation id, or for a trace context "reserved" when its reserved *)
(* bytes are not zero.  The area is cut short by cut bytes of its last TLV. *)

TraceContext == 1
OperationId == 2

Tlv(type, critical, len, value) ==
    [type |-> type, critical |-> critical, len |-> len, value |-> value,
     clean |-> TRUE, padded |-> TRUE]

NoArea == [tlvs |-> <<>>, cut |-> 0]

PaddedLen(tlv) == Align4(4 + tlv.len)

AreaSize(area) ==
    FoldSeq(LAMBDA tlv, n : n + PaddedLen(tlv), 0, area.tlvs) - area.cut

FixedValueLen(type) ==
    CASE type = TraceContext -> {32} [] type = OperationId -> {16}
      [] OTHER -> 0 .. 65535

\* One TLV: its header, length, padding, reserved bytes and place.
CheckTlv(area, i) ==
    LET tlv == area.tlvs[i]
        remaining == AreaSize([area EXCEPT !.tlvs = SubSeq(@, i, Len(@))])
    IN  IF remaining < 4 THEN "truncated_header"
        ELSE IF ~tlv.clean THEN "reserved_flag_bits"
        ELSE IF tlv.len \notin FixedValueLen(tlv.type) THEN "fixed_length_mismatch"
        ELSE IF remaining < 4 + tlv.len THEN "truncated_value"
        ELSE IF remaining < PaddedLen(tlv) THEN "truncated_padding"
        ELSE IF ~tlv.padded THEN "nonzero_padding"
        ELSE IF tlv.type = TraceContext /\ tlv.value = "reserved"
             THEN "reserved_nonzero"
        ELSE IF i > 1 /\ tlv.type = area.tlvs[i - 1].type THEN "duplicate_type"
        ELSE IF i > 1 /\ tlv.type < area.tlvs[i - 1].type THEN "order_violation"
        ELSE Ok

\* decode_extension_area: the whole structure first, then unknown critical
\* types; unknown types that are not critical are dropped.
DecodeExtensionArea(area) ==
    LET structure == FirstFailure(LAMBDA i : CheckTlv(area, i),
                                  [i \in DOMAIN area.tlvs |-> i])
        Assigned(tlv) == tlv.type \in {TraceContext, OperationId}
    IN  IF AreaSize(area) > 4096 THEN Err("area_too_large")
        ELSE IF AreaSize(area) % 4 # 0 THEN Err("area_alignment")
        ELSE IF structure # Ok THEN Err(structure)
        ELSE IF \E i \in DOMAIN area.tlvs :
                    ~Assigned(area.tlvs[i]) /\ area.tlvs[i].critical
             THEN Err("unknown_critical")
        ELSE [val |-> SelectSeq(area.tlvs, Assigned)]

\* encode_extension_area
EncodeExtensionArea(tlvs) ==
    LET area == [tlvs |-> tlvs, cut |-> 0]
    IN  IF /\ \A i \in DOMAIN tlvs : tlvs[i].len <= 65535
           /\ \A i \in 2 .. Len(tlvs) : tlvs[i - 1].type < tlvs[i].type
           /\ AreaSize(area) <= 4096
        THEN area ELSE Err("extension_area")

-----------------------------------------------------------------------------
(* Frames. *)

HeaderLength == 32
FramePayloadMaxBytes == 67108864

ControlCbor == 1
RosSample == 2
MediaChunk == 10
AssignedOpcode == 1 .. 12
ExperimentalOpcode == 128 .. 255
ReliableOpcode == 2 .. 9
HostRetainOpcode == 2 .. 12

\* FrameOptions::default, the options both peers use.
SelectedVersion == 0
ExperimentalOpcodesEnabled == FALSE
AvailableClockIds == 0 .. 4

\* write_frame_header and what follows it.
FrameBytes(header, area, payload) ==
    [plane |-> "frame", version |-> header.version, opcode |-> header.opcode,
     flags |-> header.flags, channel |-> header.channel,
     time |-> header.time, priority |-> header.priority, clock |-> header.clock,
     payloadLen |-> Size(payload), extLen |-> AreaSize(area),
     area |-> area, payload |-> payload,
     total |-> HeaderLength + AreaSize(area) + Size(payload)]

\* encode_frame
EncodeFrame(header, area, payload) ==
    IF /\ AreaSize(area) % 4 = 0 /\ AreaSize(area) <= 4096
       /\ Size(payload) <= FramePayloadMaxBytes
       /\ header.opcode = ControlCbor => Size(payload) <= ControlPayloadMaxBytes
    THEN FrameBytes(header, area, payload) ELSE Err("frame")

ControlHeader ==
    [version |-> 0, opcode |-> ControlCbor, flags |-> {}, channel |-> 0,
     time |-> 0, priority |-> 0, clock |-> 0]

\* encode_control_frame
EncodeControlFrame(message) ==
    IF Encodable(message, 0)
    THEN EncodeFrame(ControlHeader, NoArea, EncodeValue(message))
    ELSE Err("value")

\* frame_declared_total, retain_declared_len: a host that keeps the payload
\* passes the header and the extensions alone.
DeclaredTotal(f) == HeaderLength + f.extLen + f.payloadLen

RetainDeclaredLen(f) ==
    IF f.total >= HeaderLength /\ f.total = HeaderLength + f.extLen
    THEN DeclaredTotal(f) ELSE f.total

\* The payload stayed with the host.
HostRetainPrefix(f) ==
    /\ f.total = HeaderLength + f.extLen
    /\ f.payloadLen > 0
    /\ f.opcode \in HostRetainOpcode

\* Steps 1 to 12, in order: each is a check of the header and the reason of
\* the refusal.
HeaderChecks(f, declared) ==
    LET control == f.opcode = ControlCbor
    IN  << <<f.total >= HeaderLength, "truncated_header">>,
           <<f.version = SelectedVersion, "unsupported_version">>,
           <<f.extLen <= 4096, "extension_too_large">>,
           <<f.payloadLen <= FramePayloadMaxBytes, "payload_too_large">>,
           <<control => f.payloadLen <= ControlPayloadMaxBytes,
             "control_payload_too_large">>,
           <<declared = DeclaredTotal(f)
               /\ (f.total = DeclaredTotal(f) \/ HostRetainPrefix(f)),
             "exact_total_mismatch">>,
           <<f.opcode \in AssignedOpcode
               \/ (ExperimentalOpcodesEnabled /\ f.opcode \in ExperimentalOpcode),
             "unsupported_opcode">>,
           <<"unknown" \notin f.flags, "unknown_flag_bits">>,
           <<"FRAGMENT" \notin f.flags, "fragment_prohibited">>,
           <<"KEYFRAME" \in f.flags => f.opcode = MediaChunk, "keyframe_opcode">>,
           <<"RETAINED" \in f.flags => f.opcode = RosSample, "ros_flag_opcode">>,
           <<"ROS_RELIABLE" \in f.flags => f.opcode \in ReliableOpcode,
             "ros_flag_opcode">>,
           <<control <=> f.channel = 0, "channel_class">>,
           <<f.priority <= 4, "unassigned_priority">>,
           <<control => f.priority = 0, "control_priority">>,
           <<f.clock <= 4, "unassigned_clock">>,
           <<f.clock = 0 => f.time = 0, "none_requires_zero_time">>,
           <<f.clock # 0 => f.clock \in AvailableClockIds, "clock_unavailable">> >>

\* parse_frame_declared
ParseFrameDeclared(f, declared) ==
    LET header == FirstFailure(LAMBDA c : IF c[1] THEN Ok ELSE c[2],
                               HeaderChecks(f, declared))
        area == DecodeExtensionArea(f.area)
        trace == \E i \in DOMAIN area.val : area.val[i].type = TraceContext
    IN  IF header # Ok THEN Err(header)
        ELSE IF Failed(area) THEN area
        ELSE IF ("TRACE_PRESENT" \in f.flags) # trace THEN Err("trace_consistency")
        ELSE IF f.opcode # ControlCbor
             THEN [val |-> Null, extensions |-> area.val]
        ELSE With(DecodeControlMessage(f.payload),
                  LAMBDA message :
                    IF Failed(message) THEN Err("invalid_control")
                    ELSE [val |-> message.val, extensions |-> area.val])

\* parse_frame, and the engine's handle_frame on a retained buffer.
ParseFrame(f, retained) ==
    ParseFrameDeclared(f, IF retained THEN RetainDeclaredLen(f) ELSE f.total)

-----------------------------------------------------------------------------
(* Bootstrap records. *)

PrefixLength == 12
BootstrapPayloadMaxBytes == 65535
EffectiveMaxSessionBytes == U32Max + 1

RequestedLimits ==
    MapOf(<<Opt(1, Uint32), Opt(2, Uint64), Opt(3, Uint32), Opt(4, Uint32)>>)

EffectiveLimits ==
    MapOf(<<Req(1, U(0, 65535)), Req(2, U(0, EffectiveMaxSessionBytes)),
            Req(3, U(0, 67108864)), Req(4, U(0, 1048576))>>)

ClientHelloShape ==
    MapOf(<<Req(1, ArrayOf(1, 16, U(0, 255), NoRule)), Req(2, TransportCaps),
            Req(3, BufferCaps), Req(4, RequestedLimits),
            Req(6, CapabilityIdList)>>)

ServerHelloShape ==
    MapOf(<<Req(1, ConstU64(0)), Req(2, TransportCaps), Req(3, BufferCaps),
            Req(4, EffectiveLimits), Req(6, CapabilityIdList)>>)

BootstrapErrorShape ==
    MapOf(<<Req(1, OneOf(<<1, 2, 4, 16, 24, 25>>)), Opt(2, Text4k),
            Opt(3, Text4k)>>)

\* decode_payload_by_kind; the reason of a step 9 refusal is left out.
BootstrapShapeOk(kind, v) ==
    CASE kind = 1 ->
            /\ Validate(v, ClientHelloShape) = Ok
            /\ LET versions == Field(v, 1).array
               IN  \A i, j \in DOMAIN versions : i # j => versions[i] # versions[j]
      [] kind = 2 -> Validate(v, ServerHelloShape) = Ok
      [] kind = 3 -> Validate(v, BootstrapErrorShape) = Ok

\* bootstrap_record
EncodeBootstrap(kind, message) ==
    LET payload == EncodeValue(message)
    IN  IF Encodable(message, 0) /\ Size(payload) <= BootstrapPayloadMaxBytes
        THEN [plane |-> "bootstrap", magic |-> "R2WP", version |-> 0,
              kind |-> kind, flags |-> {}, payloadLen |-> Size(payload),
              payload |-> payload, total |-> PrefixLength + Size(payload)]
        ELSE Err("bootstrap_payload")

\* Steps 1 to 7.
PrefixChecks(b) ==
    << <<b.total >= PrefixLength, "truncated_prefix">>,
       <<b.magic = "R2WP", "bad_magic">>,
       <<b.version = 0, "unsupported_bootstrap_version">>,
       <<b.flags = {}, "nonzero_flags">>,
       <<b.kind \in {1, 2, 3}, "unassigned_kind">>,
       <<b.payloadLen <= BootstrapPayloadMaxBytes, "payload_too_large">>,
       <<b.total = PrefixLength + b.payloadLen, "exact_total_mismatch">> >>

\* parse_bootstrap
ParseBootstrap(b) ==
    LET prefix == FirstFailure(LAMBDA c : IF c[1] THEN Ok ELSE c[2],
                               PrefixChecks(b))
    IN  IF prefix # Ok THEN Err(prefix)
        ELSE With(DecodeCbor(b.payload),
                  LAMBDA decoded :
                    IF Failed(decoded) THEN Err("cbor_profile")
                    ELSE IF ~BootstrapShapeOk(b.kind, decoded.val) THEN Err("shape")
                    ELSE [val |-> decoded.val])

\* A packet of the other plane is refused for its magic, its version or its
\* length; what no encoder wrote does not arrive.
Parse(plane, packet, retained) ==
    IF Failed(packet) THEN packet
    ELSE IF plane # packet.plane THEN Err("other_plane")
    ELSE IF plane = "bootstrap" THEN ParseBootstrap(packet)
    ELSE ParseFrame(packet, retained)
=============================================================================
