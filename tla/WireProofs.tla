----------------------------- MODULE WireProofs -----------------------------
(***************************************************************************)
(* More proofs about R2wpWire, on top of WireAgreement and as general: why *)
(* either side ends a session, in which order samples arrive, how many     *)
(* heartbeats are in flight, and how often an operation is answered.       *)
(***************************************************************************)
EXTENDS WireAgreement, FiniteSetTheorems

-----------------------------------------------------------------------------
(* Nothing on its way is refused. *)

\* The tables of the connection agree with its session.
GatewayTables ==
    gLoop = "running" =>
        /\ gGeneration = gSession.generation
        /\ \A c \in ChannelIds :
              /\ gSession.chan[c].state # "Unused" => gSession.phase = "Ready"
              /\ gRuntime[c] # NoRuntime => gRuntime[c].kind = gSession.chan[c].kind

\* Every packet on its way is one the other side will accept.
OutFits == gLoop = "running" => \A i \in DOMAIN c2g : FitsOut(gSession, c2g, i)
InFits == ~cClosed => \A i \in DOMAIN g2c : FitsIn(cSession, g2c, i)

\* The two sides agree on whether channel c is reliable.
FlagsOf(c) ==
    /\ Connected =>
          /\ \A i \in DOMAIN g2c :
                About(g2c[i], "ChannelReady", c) /\ IsSuccess(g2c[i].msg.result) =>
                    g2c[i].msg.reliable = gRuntime[c].reliable
          /\ cSession.chan[c].state = "Active" =>
                cActive[c].reliable = gRuntime[c].reliable
    /\ gLoop = "running" => \A i \in DOMAIN c2g :
          IsSample(c2g[i], c) => c2g[i].msg.reliable = gRuntime[c].reliable

\* The samples published on channel c arrive numbered as the gateway counts.
PublishedOf(c) ==
    /\ gLoop = "running" /\ gRuntime[c] # NoRuntime =>
          Stepwise(c2g, c, gRuntime[c].seqIn)
    /\ Connected /\ cActive[c].kind = "TopicPublish" =>
          UpTo(c2g, c, gRuntime[c].seqIn, cActive[c].next)
    /\ Connected /\ cSession.chan[c].state = "Pending" /\ gRuntime[c] # NoRuntime =>
          UpTo(c2g, c, gRuntime[c].seqIn, 0)

Flags == \A c \in ChannelIds : FlagsOf(c)
Published == \A c \in ChannelIds : PublishedOf(c)

\* What is added to WireInv: nothing on its way will be refused.
FitInv == GatewayTables /\ OutFits /\ InFits /\ Flags /\ Published

-----------------------------------------------------------------------------
\* What the loop sends when a handler is done.
LEMMA FinishedPlain ==
    ASSUME WireInv, up, NEW s \in Shape, Finish(Outcome(s))
    PROVE  gSession' = s /\ g2c' = g2c /\ gLoop' = "running"
<1>1. g2c \o Outcome(s).out = g2c /\ Outcome(s).session = s /\ Outcome(s).close = FALSE
  BY SendingOutcome
<1> QED  BY <1>1 DEF Finish, Sent

\* One control message is sent;
LEMMA FinishedOne ==
    ASSUME WireInv, up, NEW s \in Shape, NEW m \in ServerControl,
           AcceptsControl(s, m, Server), NEW o, o = PushControl(Outcome(s), m)
    PROVE  /\ o \in Outbox /\ o.session = AfterControl(s, m) /\ o.close = FALSE
           /\ o.seq = gSeqOut + 1 /\ gSeqOut \in Nat
           /\ g2c \o o.out = Append(g2c, Control(m, gSeqOut))
           /\ Control(m, gSeqOut) \in ServerPacket
           /\ Finish(o) => /\ gSession' = AfterControl(s, m) /\ gLoop' = "running"
                           /\ g2c' = Append(g2c, Control(m, gSeqOut))
<1>1. /\ Outcome(s) \in Outbox /\ g2c \o Outcome(s).out = g2c
      /\ Outcome(s).session = s /\ Outcome(s).close = FALSE /\ Outcome(s).seq = gSeqOut
  BY SendingOutcome DEF Sending, Outcome
<1>2. g2c \in Seq(ServerPacket) /\ Outcome(s).out \in Seq(ServerPacket) /\ gSeqOut \in Nat
  BY <1>1 DEF WireInv, LinkTypes, Outbox, GatewayInv, ConnectionTypes
<1>3. o = [session |-> AfterControl(s, m), seq |-> gSeqOut + 1,
           out |-> Append(Outcome(s).out, Control(m, gSeqOut)), close |-> FALSE]
  BY <1>1, PushedControl
<1>4. Control(m, gSeqOut) \in ServerPacket
  BY <1>2, ControlPacket
<1>5. g2c \o Append(Outcome(s).out, Control(m, gSeqOut)) = Append(g2c, Control(m, gSeqOut))
  BY <1>1, <1>2, <1>4, ConcatAppend
<1>6. Append(Outcome(s).out, Control(m, gSeqOut)) \in Seq(ServerPacket)
  BY <1>2, <1>4, Queued
<1>7. AfterControl(s, m) \in Shape
  BY ShapeKept
<1>8. /\ o \in Outbox /\ o.session = AfterControl(s, m) /\ o.close = FALSE
      /\ o.out = Append(Outcome(s).out, Control(m, gSeqOut)) /\ o.seq = gSeqOut + 1
  BY <1>2, <1>3, <1>6, <1>7 DEF Outbox
<1> QED  BY <1>2, <1>4, <1>5, <1>8 DEF Finish, Sent

\* two are;
LEMMA FinishedTwo ==
    ASSUME WireInv, up, NEW s \in Shape, NEW m \in ServerControl, NEW n \in ServerControl,
           AcceptsControl(s, m, Server), AcceptsControl(AfterControl(s, m), n, Server),
           NEW o, o = PushControl(PushControl(Outcome(s), m), n)
    PROVE  /\ o \in Outbox /\ o.session = AfterControl(AfterControl(s, m), n)
           /\ o.close = FALSE
           /\ g2c \o o.out = Append(Append(g2c, Control(m, gSeqOut)), Control(n, gSeqOut + 1))
           /\ Control(n, gSeqOut + 1) \in ServerPacket
           /\ Finish(o) => /\ gSession' = AfterControl(AfterControl(s, m), n)
                           /\ gLoop' = "running"
                           /\ g2c' = Append(Append(g2c, Control(m, gSeqOut)),
                                            Control(n, gSeqOut + 1))
<1> DEFINE q == PushControl(Outcome(s), m)
           x == Control(n, gSeqOut + 1)
<1>1. /\ q \in Outbox /\ q.session = AfterControl(s, m) /\ q.close = FALSE
      /\ q.seq = gSeqOut + 1 /\ gSeqOut \in Nat
      /\ g2c \o q.out = Append(g2c, Control(m, gSeqOut))
  BY FinishedOne
<1> HIDE DEF q
<1>2. o = [session |-> AfterControl(AfterControl(s, m), n), seq |-> q.seq + 1,
           out |-> Append(q.out, Control(n, q.seq)), close |-> q.close]
  <2>1. o = PushControl(q, n)
    BY DEF q
  <2> QED  BY <1>1, <2>1, PushedControl
<1>3. Control(n, gSeqOut + 1) \in ServerPacket
  BY <1>1, ControlPacket
<1>4. g2c \in Seq(ServerPacket) /\ q.out \in Seq(ServerPacket)
  BY <1>1 DEF WireInv, LinkTypes, Outbox
<1>5. g2c \o Append(q.out, x) = Append(g2c \o q.out, x)
  BY <1>3, <1>4, ConcatAppend
<1>6. Append(q.out, x) \in Seq(ServerPacket)
  BY <1>3, <1>4, Queued
<1>7. AfterControl(AfterControl(s, m), n) \in Shape
  BY ShapeKept
<1>8. /\ o \in Outbox /\ o.session = AfterControl(AfterControl(s, m), n)
      /\ o.close = FALSE /\ o.out = Append(q.out, x)
  BY <1>1, <1>2, <1>6, <1>7 DEF Outbox
<1> QED  BY <1>1, <1>3, <1>5, <1>8 DEF Finish, Sent

\* a data frame is;
LEMMA FinishedFrame ==
    ASSUME WireInv, up, NEW s \in Shape, NEW f \in Frame, NEW n \in Nat,
           AcceptsData(s, f, Server), Finish(PushFrame(Outcome(s), f, n))
    PROVE  /\ gSession' = s /\ gLoop' = "running"
           /\ g2c' = Append(g2c, Data(f, n)) /\ Data(f, n) \in ServerPacket
<1>1. /\ Outcome(s) \in Outbox /\ g2c \o Outcome(s).out = g2c
      /\ Outcome(s).session = s /\ Outcome(s).close = FALSE
  BY SendingOutcome DEF Sending
<1>2. Data(f, n) \in ServerPacket
  BY DataPacket
<1>3. g2c \in Seq(ServerPacket) /\ Outcome(s).out \in Seq(ServerPacket)
  BY <1>1 DEF WireInv, LinkTypes, Outbox
<1>4. g2c \o Append(Outcome(s).out, Data(f, n)) = Append(g2c, Data(f, n))
  BY <1>1, <1>2, <1>3, ConcatAppend
<1> DEFINE o == PushFrame(Outcome(s), f, n)
<1>5. /\ o.session = s /\ o.close = FALSE /\ o.out = Append(Outcome(s).out, Data(f, n))
  BY <1>1 DEF PushFrame, Outbox
<1> HIDE DEF o
<1>6. Finish(o)
  BY DEF o
<1> QED  BY <1>2, <1>4, <1>5, <1>6 DEF Finish, Sent

\* or the loop is left.
LEMMA FinishedClosing ==
    ASSUME WireInv, up, NEW o \in Outbox, Finish(Closing(o))
    PROVE  gLoop' = "closing" /\ g2c' = g2c \o o.out
<1>1. Closing(o).close = TRUE /\ Closing(o).out = o.out
  BY DEF Closing, Outbox
<1> QED  BY <1>1 DEF Finish, Sent

-----------------------------------------------------------------------------
(* What a step of the loop comes to: the packet p taken from the client,   *)
(* by what the gateway does about it.                                      *)

\* An operation frame whose number is not the next of its operation.
Cause(p) ==
    /\ p.plane = "data" /\ p.msg.opcode \in ServiceActionOpcode
    /\ p.seq # gRuntime[p.msg.ch].opIn[p.msg.opid]

\* The answer to an accepted Authenticate.
SessionReady == [type |-> "SessionReady"]

\* The connection leaves its loop, telling the engine why.
Ended(p) ==
    /\ gLoop' = "closing" /\ UNCHANGED <<gRuntime, sinkVars, backendVars>>
    /\ gSession.phase = "Ready" => Cause(p)
    /\ \/ /\ gSession.phase = "AwaitClientHello"
          /\ g2c' = Append(g2c, Bootstrap("BootstrapError"))
       \/ g2c' = Append(g2c, Control(SessionError, gSeqOut))
       \/ /\ IsControl(p, "Authenticate")
          /\ gSession.phase = "SelectedAwaitAuthenticate"
          /\ g2c' = Append(Append(g2c, Control(SessionReady, gSeqOut)),
                           Control(SessionError, gSeqOut + 1))

\* The bootstrap is accepted.
Greeted(p) ==
    /\ p.plane = "bootstrap" /\ gSession.phase = "AwaitClientHello"
    /\ gLoop' = "running" /\ UNCHANGED <<gRuntime, gGeneration, sinkVars, backendVars>>
    /\ Rephased(gSession, gSession', "SelectedAwaitAuthenticate")
    /\ g2c' = Append(g2c, Bootstrap("ServerHello"))

\* The session is accepted, with a snapshot of the graph.
Admitted(p) ==
    /\ IsControl(p, "Authenticate") /\ gSession.phase = "SelectedAwaitAuthenticate"
    /\ gLoop' = "running" /\ gGeneration' = 1
    /\ UNCHANGED <<gRuntime, sinkVars, backendVars>>
    /\ gSession'.phase = "Ready" /\ gSession'.chan = gSession.chan
    /\ gSession'.generation = 1
    /\ g2c' = Append(Append(g2c, Control(SessionReady, gSeqOut)),
                     Control([type |-> "GraphSnapshot", gen |-> 1], gSeqOut + 1))

\* The answer to an OpenChannel.
ReadyMessage(c, result, reliable) ==
    [type |-> "ChannelReady", ch |-> c, result |-> result, reliable |-> reliable]

\* A change of the graph.
DeltaMessage(base, gen) == [type |-> "GraphDelta", base |-> base, gen |-> gen]

\* The gateway's channel c has come to this state, and nothing else of its
\* session has changed but the generation.
Turned(c, state, kind) ==
    /\ gSession'.phase = gSession.phase /\ gSession'.generation = gGeneration'
    /\ gSession'.chan[c].state = state /\ gSession'.chan[c].kind = kind
    /\ \A d \in ChannelIds : d # c => gSession'.chan[d] = gSession.chan[d]

\* An open is refused.
Refused(p, c) ==
    /\ About(p, "OpenChannel", c) /\ gSession.phase = "Ready"
    /\ gSession.chan[c].state = "Unused"
    /\ gLoop' = "running" /\ UNCHANGED <<gRuntime, gGeneration, sinkVars, backendVars>>
    /\ Turned(c, "Failed", p.msg.kind)
    /\ g2c' = Append(g2c, Control(ReadyMessage(c, "Error", FALSE), gSeqOut))

\* An open is granted, with or without a change of the graph.
Opened(p, c, reliable) ==
    LET x == Control(ReadyMessage(c, "Allow", reliable), gSeqOut)
        y == Control(DeltaMessage(gGeneration, gGeneration'), gSeqOut + 1)
    IN  /\ About(p, "OpenChannel", c) /\ gSession.phase = "Ready"
        /\ gSession.chan[c].state = "Unused" /\ p.msg.kind \in OperationKind
        /\ gLoop' = "running" /\ UNCHANGED sinkVars
        /\ gRuntime' = [gRuntime EXCEPT ![c] =
                           NewRuntime(p.msg.kind, bCreated + 1, reliable)]
        /\ bCreated' = bCreated + 1
        /\ bLive' = bLive \cup {[id |-> bCreated + 1, ch |-> c, kind |-> p.msg.kind]}
        /\ Turned(c, "Active", p.msg.kind)
        /\ \/ gGeneration' = gGeneration /\ g2c' = Append(g2c, x)
           \/ /\ gGeneration # NoGeneration /\ gGeneration' = SaturatingSucc(gGeneration)
              /\ g2c' = Append(Append(g2c, x), y)

\* A channel is closed.
Released(p, c) ==
    /\ About(p, "CloseChannel", c) /\ gSession.phase = "Ready"
    /\ gSession.chan[c].state = "Active"
    /\ gLoop' = "running" /\ UNCHANGED <<gGeneration, sinkVars, bCreated>>
    /\ gRuntime' = [gRuntime EXCEPT ![c] = NoRuntime]
    /\ bLive' \subseteq bLive
    /\ Turned(c, "Closed", gSession.chan[c].kind)
    /\ g2c' = g2c

\* A heartbeat is answered.
Echoed(p) ==
    /\ IsControl(p, "Heartbeat") /\ gSession.phase = "Ready"
    /\ gLoop' = "running"
    /\ UNCHANGED <<gSession, gRuntime, gGeneration, sinkVars, backendVars>>
    /\ g2c' = Append(g2c, Control(Heartbeat, gSeqOut))

\* Of the runtime of channel d, at most the operation counters changed.
SameRuntime(d) ==
    /\ gRuntime'[d] = NoRuntime <=> gRuntime[d] = NoRuntime
    /\ gRuntime'[d].kind = gRuntime[d].kind
    /\ gRuntime'[d].entity = gRuntime[d].entity
    /\ gRuntime'[d].reliable = gRuntime[d].reliable
    /\ gRuntime'[d].seqIn = gRuntime[d].seqIn
    /\ gRuntime'[d].seqOut = gRuntime[d].seqOut

\* The gateway sends nothing, or that its backend refused.
Reported(c) ==
    \/ g2c' = g2c
    \/ g2c' = Append(g2c, Control(ChannelError(c), gSeqOut))

\* A frame of an open channel is taken.
TookData(p) ==
    /\ p.plane = "data" /\ AcceptsData(gSession, p.msg, Client)
    /\ gRuntime[p.msg.ch] # NoRuntime
    /\ gLoop' = "running" /\ UNCHANGED <<gSession, gGeneration, sinkVars, backendVars>>

\* A published sample is taken.
TookSample(p) ==
    /\ TookData(p) /\ p.msg.opcode = "ROS_SAMPLE"
    /\ p.seq = gRuntime[p.msg.ch].seqIn
    /\ gRuntime' = [gRuntime EXCEPT ![p.msg.ch].seqIn = p.seq + 1]
    /\ Reported(p.msg.ch)

\* What the gateway itself answers when the backend cannot.
Answers ==
    {<<"SERVICE_REQUEST", "SERVICE_RESPONSE">>, <<"ACTION_GOAL", "ACTION_RESULT">>}

\* A frame of an operation is taken.
TookOperation(p) ==
    /\ TookData(p) /\ p.msg.opcode \in ServiceActionOpcode
    /\ \A d \in ChannelIds : SameRuntime(d)
    /\ \/ Reported(p.msg.ch)
       \/ \E answer \in {"SERVICE_RESPONSE", "ACTION_RESULT"} : \E n \in Nat :
             LET f == Operation(answer, p.msg.ch, p.msg.opid, TRUE)
             IN  /\ <<p.msg.opcode, answer>> \in Answers
                 /\ f \in Frame /\ AcceptsData(gSession, f, Server)
                 /\ g2c' = Append(g2c, Data(f, n))

\* The packet p is taken in one of these ways, and in no other.
Taking(p) ==
    \/ Ended(p) \/ Greeted(p) \/ Admitted(p)
    \/ \E c \in ChannelIds : Refused(p, c) \/ Released(p, c)
    \/ \E c \in ChannelIds, reliable \in BOOLEAN : Opened(p, c, reliable)
    \/ Echoed(p) \/ TookSample(p) \/ TookOperation(p)

\* The packet the loop takes fits: it is of the plane and the kind that the
\* gateway's session expects next.
LEMMA HeadFits ==
    ASSUME WireInv, OutFits, NEW p, Inbound(p)
    PROVE  /\ p.plane = "bootstrap" => gSession.phase = "AwaitClientHello"
           /\ p.plane = "control" => AcceptsControl(gSession, p.msg, Client)
           /\ p.plane = "data" => AcceptsData(gSession, p.msg, Client)
           /\ p.plane \in {"bootstrap", "control", "data"}
<1>1. /\ gLoop = "running" /\ c2g # <<>> /\ p = Head(c2g) /\ p \in ClientPacket
      /\ c2g \in Seq(ClientPacket)
  BY GatewayTakes
<1>2. p = c2g[1] /\ 1 \in DOMAIN c2g
  BY <1>1, Taken
<1>3. FitsOut(gSession, c2g, 1)
  BY <1>1, <1>2 DEF OutFits
<1> QED  BY <1>1, <1>2, <1>3, ClientPacketTypes DEF FitsOut

\* fail_session with nothing queued yet.
LEMMA FailedAtOnce ==
    ASSUME WireInv, up, NEW s \in Shape, InSelectedPlane(s.phase), ~IsTerminal(s.phase),
           Finish(Closing(PushControl(Outcome(s), SessionError)))
    PROVE  gLoop' = "closing" /\ g2c' = Append(g2c, Control(SessionError, gSeqOut))
<1>1. SessionError \in ServerControl /\ SessionError.type = "Error"
      /\ SessionError.scope = "session"
  BY DEF ServerControl, SessionError
<1>2. AcceptsControl(s, SessionError, Server)
  BY <1>1 DEF AcceptsControl, ControlSenders, Role, Server, AcceptsError, CancelsOperation,
     ReadyRequired
<1>3. /\ PushControl(Outcome(s), SessionError) \in Outbox
      /\ g2c \o PushControl(Outcome(s), SessionError).out
            = Append(g2c, Control(SessionError, gSeqOut))
  BY <1>1, <1>2, FinishedOne
<1> QED  BY <1>3, FinishedClosing

\* The bootstrap handler greets or ends.
LEMMA BootstrapTaken ==
    ASSUME WireInv, FitInv, NEW p, Inbound(p), NEW negotiated \in BOOLEAN,
           GatewayBootstrap(p, negotiated)
    PROVE  Ended(p) \/ Greeted(p)
<1>1. /\ p.plane = "bootstrap" => gSession.phase = "AwaitClientHello"
      /\ p.plane = "control" => AcceptsControl(gSession, p.msg, Client)
      /\ p.plane = "data" => AcceptsData(gSession, p.msg, Client)
      /\ p.plane \in {"bootstrap", "control", "data"}
  BY HeadFits DEF FitInv
<1>2. /\ ~InSelectedPlane(gSession.phase) /\ UNCHANGED <<gRuntime, gGeneration, sinkVars,
                                                          backendVars>>
  BY DEF GatewayBootstrap
<1>3. p.plane = "bootstrap" /\ gSession.phase = "AwaitClientHello"
  BY <1>1, <1>2 DEF AcceptsControl, AcceptsData, InSelectedPlane
<1>4. p \in ClientPacket /\ gSession \in Shape /\ up /\ g2c \in Seq(ServerPacket)
  BY GatewayTakes
<1>5. p.msg.type = "ClientHello"
  BY <1>3, <1>4, ClientPacketTypes
<1>6. AcceptsBootstrap(gSession, p.msg, Client)
  BY <1>2, <1>3, <1>5 DEF AcceptsBootstrap, IsTerminal, BootstrapSenders, Client
<1> DEFINE hello == AfterBootstrap(gSession, p.msg)
           t == AfterBootstrap(hello, [type |-> "ServerHello"])
           x == Bootstrap("BootstrapError")
           y == Bootstrap("ServerHello")
<1>7. /\ negotiated => Finish([Outcome(t) EXCEPT !.out = <<y>>])
      /\ ~negotiated => Finish(PushBootstrapError(Outcome(hello)))
  BY <1>3, <1>6 DEF GatewayBootstrap
<1>8. hello = [gSession EXCEPT !.phase = "AwaitServerHello"]
  BY <1>5 DEF AfterBootstrap
<1>9. Rephased(gSession, hello, "AwaitServerHello")
  BY <1>4, <1>8, AfterPhase DEF Phase
<1>10. x \in ServerPacket /\ y \in ServerPacket
  BY DEF Bootstrap, ServerPacket
<1> HIDE DEF hello, x, y
<1>11. CASE ~negotiated
  <2> DEFINE o == Outcome(hello)
             r == [o EXCEPT !.out = Append(@, x)]
  <2>1. o \in Outbox /\ g2c \o o.out = g2c
    BY <1>9, SendingOutcome DEF Sending, Rephased
  <2>2. o.out \in Seq(ServerPacket)
    BY <2>1 DEF Outbox
  <2>3. g2c \o Append(o.out, x) = Append(g2c, x)
    BY <1>4, <1>10, <2>1, <2>2, ConcatAppend
  <2>4. PushBootstrapError(o) = Closing(r)
    BY DEF PushBootstrapError, x
  <2> HIDE DEF o
  <2>5. r \in Outbox /\ r.out = Append(o.out, x)
    BY <1>10, <2>1, <2>2, Queued DEF Outbox
  <2>6. Finish(Closing(r))
    BY <1>7, <1>11, <2>4 DEF o
  <2> HIDE DEF r
  <2>7. gLoop' = "closing" /\ g2c' = Append(g2c, x)
    BY <1>4, <2>3, <2>5, <2>6, FinishedClosing
  <2> QED  BY <1>2, <1>3, <2>7 DEF Ended, x
<1>12. CASE negotiated
  <2>1. t = [hello EXCEPT !.phase = "SelectedAwaitAuthenticate"] /\ hello \in Shape
    BY <1>9 DEF AfterBootstrap, Rephased
  <2>2. Rephased(hello, t, "SelectedAwaitAuthenticate")
    BY <2>1, AfterPhase DEF Phase
  <2> HIDE DEF t
  <2>3. Rephased(gSession, t, "SelectedAwaitAuthenticate")
    BY <1>9, <2>2 DEF Rephased
  <2> DEFINE o == [Outcome(t) EXCEPT !.out = <<y>>]
  <2>4. o.session = t /\ o.out = <<y>> /\ o.close = FALSE
    BY DEF Outcome
  <2>5. Finish(o)
    BY <1>7, <1>12
  <2> HIDE DEF o
  <2>6. g2c \o <<y>> = Append(g2c, y)
    BY <1>4, <1>10, SentOne
  <2>7. gSession' = t /\ gLoop' = "running" /\ g2c' = Append(g2c, y)
    BY <1>4, <2>4, <2>5, <2>6 DEF Finish, Sent
  <2> QED  BY <1>2, <1>3, <2>3, <2>7 DEF Greeted, y
<1> QED  BY <1>11, <1>12

\* There is nothing the gateway refuses out of hand.
LEMMA RefusesNothing ==
    ASSUME WireInv, FitInv, NEW p, Inbound(p), GatewayRefuses(p)
    PROVE  FALSE
<1>1. /\ p.plane = "bootstrap" => gSession.phase = "AwaitClientHello"
      /\ p.plane = "control" => AcceptsControl(gSession, p.msg, Client)
      /\ p.plane = "data" => AcceptsData(gSession, p.msg, Client)
  BY HeadFits DEF FitInv
<1>2. p.plane = "control" => p.seq = gSeqIn
  BY GatewayTakes
<1> QED  BY <1>1, <1>2 DEF GatewayRefuses, InSelectedPlane

\* The session is admitted or ended.
LEMMA AuthenticateTaken ==
    ASSUME WireInv, FitInv, NEW p, Inbound(p), NEW allowed \in BOOLEAN, NEW graph \in BOOLEAN,
           GatewayAuthenticate(p, allowed, graph)
    PROVE  Ended(p) \/ Admitted(p)
<1> DEFINE m == [type |-> "Authenticate"]
           g == [type |-> "GraphSnapshot", gen |-> 1]
           s == AfterControl(gSession, m)
           ready == PushControl(Outcome(s), SessionReady)
<1>1. /\ GatewayControl(p, m) /\ UNCHANGED <<gRuntime, sinkVars, backendVars>>
      /\ gGeneration' = IF allowed /\ graph THEN 1 ELSE gGeneration
      /\ ~allowed => Finish(Closing(PushControl(Outcome(s), SessionError)))
      /\ allowed /\ ~graph => Finish(Closing(PushControl(ready, SessionError)))
      /\ allowed /\ graph => Finish(PushControl(ready, g))
  BY DEF GatewayAuthenticate, Ingested, SessionReady
<1>2. m.type = "Authenticate" /\ g.type = "GraphSnapshot" /\ g.gen = 1 /\ g.gen \in Int
      /\ g \in ServerControl
  BY DEF ServerControl
<1> HIDE DEF m, g
<1>3. /\ SessionReady \in ServerControl /\ SessionReady.type = "SessionReady"
      /\ SessionError \in ServerControl /\ SessionError.type = "Error"
      /\ SessionError.scope = "session"
  BY DEF ServerControl, SessionReady, SessionError
<1>4. /\ p.plane = "control" /\ p.msg = m /\ AcceptsControl(gSession, m, Client)
      /\ gSession \in Shape /\ s \in Shape
  BY <1>1, GatewayIngests
<1>5. up /\ IsControl(p, "Authenticate")
  BY <1>2, <1>4, GatewayTakes DEF IsControl
<1>6. /\ gSession.phase = "SelectedAwaitAuthenticate"
      /\ Rephased(gSession, s, "SelectedAwaitSessionReady")
  BY <1>2, <1>4, AfterAuthentication
<1> HIDE DEF s
<1>7. AcceptsControl(s, SessionReady, Server)
  BY <1>3, <1>6 DEF Rephased, AcceptsControl, IsTerminal, InSelectedPlane, ControlSenders,
     Server, ReadyRequired
<1> DEFINE r == AfterControl(s, SessionReady)
<1>8. Rephased(s, r, "Ready")
  BY <1>3, <1>4, <1>7, AfterSessionReady
<1> HIDE DEF r
<1>9. AcceptsControl(r, SessionError, Server) /\ AcceptsControl(r, g, Server)
  BY <1>2, <1>3, <1>8 DEF Rephased, AcceptsControl, IsTerminal, InSelectedPlane,
     ControlSenders, Role, Server, AcceptsError, CancelsOperation, ReadyRequired
<1>10. CASE ~allowed
  <2>1. gLoop' = "closing" /\ g2c' = Append(g2c, Control(SessionError, gSeqOut))
    BY <1>1, <1>4, <1>5, <1>6, <1>10, FailedAtOnce DEF Rephased, InSelectedPlane, IsTerminal
  <2> QED  BY <1>1, <1>6, <2>1 DEF Ended
<1>11. CASE allowed /\ ~graph
  <2> DEFINE o == PushControl(ready, SessionError)
  <2>1. /\ o \in Outbox
        /\ g2c \o o.out = Append(Append(g2c, Control(SessionReady, gSeqOut)),
                                 Control(SessionError, gSeqOut + 1))
    BY <1>3, <1>4, <1>5, <1>7, <1>9, FinishedTwo DEF r
  <2>2. Finish(Closing(o))
    BY <1>1, <1>11
  <2> HIDE DEF o
  <2>3. gLoop' = "closing" /\ g2c' = g2c \o o.out
    BY <1>5, <2>1, <2>2, FinishedClosing
  <2> QED  BY <1>1, <1>5, <1>6, <2>1, <2>3 DEF Ended
<1>12. CASE allowed /\ graph
  <2>1. /\ gSession' = AfterControl(r, g) /\ gLoop' = "running"
        /\ g2c' = Append(Append(g2c, Control(SessionReady, gSeqOut)), Control(g, gSeqOut + 1))
    BY <1>1, <1>2, <1>3, <1>4, <1>5, <1>7, <1>9, <1>12, FinishedTwo DEF r
  <2>2. Dated(r, AfterControl(r, g), 1)
    BY <1>2, <1>8, <1>9, AfterGraphMessage DEF Rephased
  <2> QED  BY <1>1, <1>5, <1>6, <1>8, <1>12, <2>1, <2>2 DEF Admitted, Rephased, Dated, g
<1> QED  BY <1>10, <1>11, <1>12

\* The answer to an open is accepted by the session that took the open.
LEMMA OpenTaken ==
    ASSUME WireInv, FitInv, NEW p, Inbound(p), NEW m, m.type = "OpenChannel",
           GatewayControl(p, m), NEW result \in {"Allow", "Error"}, NEW reliable \in BOOLEAN,
           NEW s, s = AfterControl(gSession, m),
           NEW r, r = ReadyMessage(m.ch, result, reliable)
    PROVE  /\ m = p.msg /\ m.ch \in ChannelIds /\ m.kind \in OperationKind
           /\ About(p, "OpenChannel", m.ch) /\ gSession.phase = "Ready"
           /\ gSession.chan[m.ch].state = "Unused"
           /\ s \in Shape /\ r \in ServerControl
           /\ AcceptsControl(s, r, Server)
           /\ Moved(gSession, AfterControl(s, r), m.ch, ResultState(result), m.kind)
<1>1. /\ p.plane = "control" /\ p.msg = m /\ m \in ClientControl
      /\ AcceptsControl(gSession, m, Client) /\ gSession \in Shape /\ s \in Shape
  BY GatewayIngests
<1>2. m.ch \in ChannelIds /\ m.kind \in OperationKind
  BY <1>1, ClientControlTypes
<1>3. /\ r \in ServerControl /\ r.type = "ChannelReady" /\ r.ch = m.ch
      /\ r.result = result
  BY <1>2 DEF ServerControl, ReadyMessage
<1>4. /\ gSession.phase = "Ready" /\ gSession.chan[m.ch].state = "Unused"
      /\ Moved(gSession, s, m.ch, "Pending", m.kind)
  BY <1>1, <1>2, AfterOpen
<1>5. AcceptsControl(s, r, Server)
  BY <1>3, <1>4 DEF Moved, AcceptsControl, IsTerminal, InSelectedPlane, ControlSenders,
     Server, AcceptsChannelReady
<1>6. Moved(s, AfterControl(s, r), m.ch, ResultState(result), s.chan[m.ch].kind)
  BY <1>1, <1>2, <1>3, <1>5, AfterReady
<1>7. Moved(gSession, AfterControl(s, r), m.ch, ResultState(result), m.kind)
  BY <1>4, <1>6 DEF Moved
<1> QED  BY <1>1, <1>2, <1>3, <1>4, <1>5, <1>7 DEF About

\* handle_open_channel, when the policy, the kind or the backend says no;
LEMMA RefuseTaken ==
    ASSUME WireInv, FitInv, NEW p, Inbound(p), GatewayRefuseOpen(p)
    PROVE  \E c \in ChannelIds : Refused(p, c)
<1> DEFINE m == p.msg
           s == AfterControl(gSession, m)
           r == ReadyMessage(m.ch, "Error", FALSE)
<1>1. /\ m.type = "OpenChannel" /\ GatewayControl(p, m)
      /\ Finish(PushControl(Outcome(s), r))
      /\ UNCHANGED <<gRuntime, gGeneration, sinkVars, backendVars>>
  BY DEF GatewayRefuseOpen, Ingested, ReadyMessage
<1>2. /\ m.ch \in ChannelIds /\ About(p, "OpenChannel", m.ch) /\ gSession.phase = "Ready"
      /\ gSession.chan[m.ch].state = "Unused" /\ s \in Shape /\ r \in ServerControl
      /\ AcceptsControl(s, r, Server)
      /\ Moved(gSession, AfterControl(s, r), m.ch, ResultState("Error"), m.kind)
  BY <1>1, OpenTaken
<1>3. up /\ gLoop = "running"
  BY GatewayTakes
<1> HIDE DEF s, r
<1>4. /\ gSession' = AfterControl(s, r) /\ gLoop' = "running"
      /\ g2c' = Append(g2c, Control(r, gSeqOut))
  BY <1>1, <1>2, <1>3, FinishedOne
<1>5. ResultState("Error") = "Failed" /\ gGeneration = gSession.generation
  BY <1>3 DEF ResultState, IsSuccess, FitInv, GatewayTables
<1>6. Turned(m.ch, "Failed", m.kind)
  BY <1>1, <1>2, <1>4, <1>5 DEF Moved, Turned
<1>7. Refused(p, m.ch)
  BY <1>1, <1>2, <1>4, <1>6 DEF Refused, r
<1> QED  BY <1>2, <1>7

\* and when the entity exists.
LEMMA AllowTaken ==
    ASSUME WireInv, FitInv, NEW p, Inbound(p), NEW reliable \in BOOLEAN, NEW shown \in BOOLEAN,
           GatewayOpen(p, reliable, shown)
    PROVE  \E c \in ChannelIds, flag \in BOOLEAN : Opened(p, c, flag)
<1> DEFINE m == p.msg
           s == AfterControl(gSession, m)
           flag == reliable \/ IsService(m.kind) \/ IsAction(m.kind)
           r == ReadyMessage(m.ch, "Allow", flag)
           t == AfterControl(s, r)
           gen == SaturatingSucc(gGeneration)
           d == DeltaMessage(gGeneration, gen)
           told == shown /\ gGeneration # NoGeneration
           ready == PushControl(Outcome(s), r)
<1>1. /\ m.type = "OpenChannel" /\ GatewayControl(p, m)
      /\ gRuntime' = [gRuntime EXCEPT ![m.ch] = NewRuntime(m.kind, bCreated + 1, flag)]
      /\ bCreated' = bCreated + 1
      /\ bLive' = bLive \cup {[id |-> bCreated + 1, ch |-> m.ch, kind |-> m.kind]}
      /\ gGeneration' = IF told THEN gen ELSE gGeneration
      /\ UNCHANGED sinkVars
  BY DEF GatewayOpen
<1>2. told => Finish(PushControl(ready, d))
  BY DEF GatewayOpen, Ingested, ReadyMessage, DeltaMessage
<1>3. ~told => Finish(ready)
  BY DEF GatewayOpen, Ingested, ReadyMessage
<1>4. flag \in BOOLEAN
  BY DEF IsService, IsAction
<1> HIDE DEF flag
<1>5. /\ m.ch \in ChannelIds /\ About(p, "OpenChannel", m.ch) /\ gSession.phase = "Ready"
      /\ gSession.chan[m.ch].state = "Unused" /\ s \in Shape /\ r \in ServerControl
      /\ AcceptsControl(s, r, Server) /\ m.kind \in OperationKind
      /\ Moved(gSession, t, m.ch, ResultState("Allow"), m.kind)
  BY <1>1, <1>4, OpenTaken
<1>6. up /\ gLoop = "running"
  BY GatewayTakes
<1>7. ResultState("Allow") = "Active" /\ gGeneration = gSession.generation
  BY <1>6 DEF ResultState, IsSuccess, FitInv, GatewayTables
<1>8. gGeneration \in Int /\ gen \in Int
  BY MaxGenerationAssumption DEF WireInv, GatewayInv, ConnectionTypes, SaturatingSucc
<1>9. /\ d \in ServerControl /\ d.type = "GraphDelta" /\ d.gen = gen
      /\ d.base = gGeneration
  BY <1>8 DEF ServerControl, DeltaMessage
<1>10. t \in Shape /\ t.phase = "Ready" /\ t.generation = gGeneration
  BY <1>5, <1>7 DEF Moved
<1> HIDE DEF s, r, t, d
<1>11. CASE ~told
  <2>1. gSession' = t /\ gLoop' = "running" /\ g2c' = Append(g2c, Control(r, gSeqOut))
    BY <1>3, <1>5, <1>6, <1>11, FinishedOne DEF t
  <2>2. Turned(m.ch, "Active", m.kind) /\ gGeneration' = gGeneration
    BY <1>1, <1>5, <1>7, <1>10, <1>11, <2>1 DEF Moved, Turned
  <2>3. Opened(p, m.ch, flag)
    BY <1>1, <1>5, <2>1, <2>2 DEF Opened, r
  <2> QED  BY <1>4, <1>5, <2>3
<1>12. CASE told
  <2>1. AcceptsControl(t, d, Server)
    BY <1>9, <1>10, <1>12 DEF AcceptsControl, IsTerminal, InSelectedPlane, ControlSenders,
       Server, AcceptsGraphDelta, gen
  <2>2. Dated(t, AfterControl(t, d), gen)
    BY <1>8, <1>9, <1>10, <2>1, AfterGraphMessage
  <2>3. /\ gSession' = AfterControl(t, d) /\ gLoop' = "running"
        /\ g2c' = Append(Append(g2c, Control(r, gSeqOut)), Control(d, gSeqOut + 1))
    BY <1>2, <1>5, <1>6, <1>9, <1>12, <2>1, FinishedTwo DEF t
  <2>4. Turned(m.ch, "Active", m.kind) /\ gGeneration' = gen /\ gGeneration # NoGeneration
    BY <1>1, <1>5, <1>7, <1>10, <1>12, <2>2, <2>3 DEF Moved, Turned, Dated
  <2>5. /\ d = DeltaMessage(gGeneration, gGeneration')
        /\ gGeneration' = SaturatingSucc(gGeneration)
    BY <2>4 DEF d, gen
  <2>6. Opened(p, m.ch, flag)
    BY <1>1, <1>5, <2>3, <2>4, <2>5 DEF Opened, r
  <2> QED  BY <1>4, <1>5, <2>6
<1> QED  BY <1>11, <1>12

\* handle_close_channel.
LEMMA CloseTaken ==
    ASSUME WireInv, FitInv, NEW p, Inbound(p), GatewayClose(p)
    PROVE  \E c \in ChannelIds : Released(p, c)
<1> DEFINE m == p.msg
           s == AfterControl(gSession, m)
<1>1. /\ m.type = "CloseChannel" /\ GatewayControl(p, m) /\ Finish(Outcome(s))
      /\ gRuntime' = [gRuntime EXCEPT ![m.ch] = NoRuntime]
      /\ bLive' \subseteq bLive
      /\ UNCHANGED <<gGeneration, sinkVars, bCreated>>
  BY DEF GatewayClose, Ingested
<1>2. /\ p.plane = "control" /\ m \in ClientControl
      /\ AcceptsControl(gSession, m, Client) /\ gSession \in Shape /\ s \in Shape
  BY <1>1, GatewayIngests
<1>3. m.ch \in ChannelIds /\ About(p, "CloseChannel", m.ch)
  BY <1>1, <1>2, ClientControlTypes DEF About
<1>4. /\ gSession.phase = "Ready" /\ gSession.chan[m.ch].state = "Active"
      /\ Moved(gSession, s, m.ch, "Closed", gSession.chan[m.ch].kind)
  BY <1>1, <1>2, <1>3, AfterClose
<1>5. up /\ gLoop = "running"
  BY GatewayTakes
<1>6. gSession' = s /\ g2c' = g2c /\ gLoop' = "running"
  BY <1>1, <1>2, <1>5, FinishedPlain
<1> HIDE DEF s
<1>7. Turned(m.ch, "Closed", gSession.chan[m.ch].kind)
  BY <1>1, <1>4, <1>5, <1>6 DEF Moved, Turned, FitInv, GatewayTables
<1>8. Released(p, m.ch)
  BY <1>1, <1>3, <1>4, <1>6, <1>7 DEF Released
<1> QED  BY <1>3, <1>8

\* The heartbeat is echoed.
LEMMA HeartbeatTaken ==
    ASSUME WireInv, FitInv, NEW p, Inbound(p), GatewayHeartbeat(p)
    PROVE  Echoed(p)
<1> DEFINE s == AfterControl(gSession, Heartbeat)
<1>1. /\ GatewayControl(p, Heartbeat) /\ Finish(PushControl(Outcome(s), Heartbeat))
      /\ UNCHANGED <<gRuntime, gGeneration, sinkVars, backendVars>>
  BY DEF GatewayHeartbeat, Ingested
<1>2. Heartbeat \in ServerControl /\ Heartbeat.type = "Heartbeat"
  BY DEF ServerControl, Heartbeat
<1>3. /\ p.plane = "control" /\ p.msg = Heartbeat /\ AcceptsControl(gSession, Heartbeat, Client)
      /\ gSession \in Shape
  BY <1>1, GatewayIngests
<1>4. gSession.phase = "Ready" /\ s = gSession /\ up
  BY <1>2, <1>3, AfterHeartbeat, GatewayTakes
<1>5. AcceptsControl(gSession, Heartbeat, Server)
  BY <1>4, HeartbeatAccepted DEF Role
<1> HIDE DEF s
<1>6. /\ gSession' = gSession /\ gLoop' = "running"
      /\ g2c' = Append(g2c, Control(Heartbeat, gSeqOut))
  BY <1>1, <1>2, <1>3, <1>4, <1>5, FinishedOne DEF s
<1> QED  BY <1>1, <1>2, <1>3, <1>4, <1>6 DEF Echoed, IsControl

\* A report is accepted, and changes nothing of the gateway's session.
LEMMA ReportTaken ==
    ASSUME WireInv, up, gSession.phase = "Ready", NEW c \in ChannelIds,
           gSession.chan[c].state = "Active", NEW ok \in BOOLEAN,
           Finish(Report(Outcome(gSession), c, ok))
    PROVE  gSession' = gSession /\ gLoop' = "running" /\ Reported(c)
<1>1. gSession \in Shape
  BY DEF WireInv, GatewayInv, ConnectionTypes
<1>2. CASE ok
  BY <1>1, <1>2, FinishedPlain DEF Report, Reported
<1>3. CASE ~ok
  <2> DEFINE m == ChannelError(c)
  <2>1. m \in ServerControl /\ m.type = "Error" /\ m.scope = "channel" /\ m.ch = c
    BY DEF ServerControl, ChannelError
  <2>2. Finish(PushControl(Outcome(gSession), m))
    BY <1>3 DEF Report
  <2> HIDE DEF m
  <2>3. AcceptsControl(gSession, m, Server)
    BY <2>1 DEF AcceptsControl, IsTerminal, InSelectedPlane, ControlSenders, Role, Server,
       AcceptsError, CancelsOperation
  <2>4. ~FailsPendingChannel(gSession, m)
    BY <2>1 DEF FailsPendingChannel
  <2>5. AfterControl(gSession, m) = gSession
    BY <1>1, <2>1, <2>4, AfterErrorMessage
  <2> QED  BY <1>1, <2>1, <2>2, <2>3, <2>5, FinishedOne DEF Reported, m
<1> QED  BY <1>2, <1>3

\* A sample is taken.
LEMMA PublishTaken ==
    ASSUME WireInv, FitInv, NEW p, Inbound(p), NEW ok \in BOOLEAN, GatewayPublish(p, ok)
    PROVE  TookSample(p)
<1> DEFINE c == p.msg.ch
           rt == gRuntime[c]
<1>1. GatewayData(p) /\ p.msg.opcode = "ROS_SAMPLE"
  BY DEF GatewayPublish
<1>2. /\ p.plane = "data" /\ AcceptsData(gSession, p.msg, Client)
      /\ UNCHANGED <<gGeneration, sinkVars, backendVars>>
  BY <1>1 DEF GatewayData
<1>3. /\ c \in ChannelIds /\ gSession.phase = "Ready" /\ gSession.chan[c].state = "Active"
      /\ rt # NoRuntime /\ rt \in Runtime /\ p.seq \in Nat
  BY <1>1, GatewayReads
<1>4. /\ gLoop = "running" /\ up /\ c2g # <<>> /\ p = Head(c2g)
      /\ c2g \in Seq(ClientPacket)
  BY GatewayTakes
<1>5. p = c2g[1] /\ 1 \in DOMAIN c2g /\ 1 .. 1 - 1 = {}
  BY <1>4, Taken
<1>6. IsSample(c2g[1], c)
  BY <1>1, <1>2, <1>5 DEF IsSample
<1>7. p.msg.reliable = rt.reliable
  BY <1>3, <1>4, <1>5, <1>6 DEF FitInv, Flags, FlagsOf
<1>8. p.seq = rt.seqIn
  BY <1>3, <1>4, <1>5, <1>6 DEF FitInv, Published, PublishedOf, Stepwise
<1>9. /\ Finish(Report(Outcome(gSession), c, ok))
      /\ gRuntime' = [gRuntime EXCEPT ![c].seqIn = p.seq + 1]
  <2> DEFINE flagsOk == p.msg.reliable = rt.reliable
             inOrder == IF rt.reliable THEN p.seq = rt.seqIn ELSE p.seq >= rt.seqIn
             o == Outcome(gSession)
  <2>1. flagsOk /\ inOrder
    BY <1>3, <1>7, <1>8
  <2>2. (CASE ~flagsOk \/ (rt.reliable /\ ~inOrder) ->
                Finish(FailSession(o)) /\ UNCHANGED gRuntime
          [] flagsOk /\ ~rt.reliable /\ ~inOrder ->
                Finish(o) /\ UNCHANGED gRuntime
          [] flagsOk /\ inOrder ->
                /\ Finish(Report(o, c, ok))
                /\ gRuntime' = [gRuntime EXCEPT ![c].seqIn = p.seq + 1])
    BY DEF GatewayPublish
  <2> HIDE DEF flagsOk, inOrder
  <2> QED  BY <2>1, <2>2
<1>10. gSession' = gSession /\ gLoop' = "running" /\ Reported(c)
  BY <1>3, <1>4, <1>9, ReportTaken
<1> QED  BY <1>1, <1>2, <1>3, <1>8, <1>9, <1>10 DEF TookSample, TookData

\* Only the operation counters of one channel changed.
LEMMA OperationsCounted ==
    ASSUME WireInv, NEW c \in ChannelIds, gRuntime[c] # NoRuntime, NEW in, NEW out,
           \/ gRuntime' = [gRuntime EXCEPT ![c] = [gRuntime[c] EXCEPT !.opIn = in]]
           \/ gRuntime' = [gRuntime EXCEPT ![c] = [gRuntime[c] EXCEPT !.opOut = out]]
           \/ gRuntime' = [gRuntime EXCEPT ![c] = [gRuntime[c] EXCEPT !.opIn = in,
                                                                      !.opOut = out]]
    PROVE  \A d \in ChannelIds : SameRuntime(d)
<1>1. gRuntime \in [ChannelIds -> Runtime \cup {NoRuntime}]
  BY DEF WireInv, GatewayInv, BackendTypes
<1> DEFINE rt == gRuntime[c]
           r == gRuntime'[c]
<1>2. rt \in Runtime
  BY <1>1
<1>3. /\ r = [rt EXCEPT !.opIn = in] \/ r = [rt EXCEPT !.opOut = out]
         \/ r = [rt EXCEPT !.opIn = in, !.opOut = out]
      /\ \A d \in ChannelIds : d # c => gRuntime'[d] = gRuntime[d]
  BY <1>1
<1>4. /\ r.kind = rt.kind /\ r.entity = rt.entity /\ r.reliable = rt.reliable
      /\ r.seqIn = rt.seqIn /\ r.seqOut = rt.seqOut
  BY <1>2, <1>3 DEF Runtime
<1>5. r # NoRuntime
  <2>1. rt.kind # NoKind /\ NoRuntime.kind = NoKind
    BY <1>2 DEF Runtime, OperationKind, NoKind, NoRuntime
  <2> QED  BY <1>4, <2>1
<1>6. ASSUME NEW d \in ChannelIds PROVE SameRuntime(d)
  <2>1. CASE d = c
    BY <1>4, <1>5, <2>1 DEF SameRuntime
  <2>2. CASE d # c
    BY <1>3, <2>2 DEF SameRuntime
  <2> QED  BY <2>1, <2>2
<1> QED  BY <1>6

\* A frame of an operation is taken, or its number ends the session.
LEMMA OperationTaken ==
    ASSUME WireInv, FitInv, NEW p, Inbound(p), NEW ok \in BOOLEAN, GatewayOperation(p, ok)
    PROVE  Ended(p) \/ TookOperation(p)
<1> DEFINE f == p.msg
           c == f.ch
           op == f.opid
           rt == gRuntime[c]
           o == Outcome(gSession)
           in == [rt.opIn EXCEPT ![op] = @ + 1]
           out == [rt.opOut EXCEPT ![op] = @ + 1]
           r == [rt EXCEPT !.opIn = in]
           q == [rt EXCEPT !.opIn = in, !.opOut = out]
           answer == CASE f.opcode = "SERVICE_REQUEST" -> "SERVICE_RESPONSE"
                       [] f.opcode = "ACTION_GOAL" -> "ACTION_RESULT"
                       [] OTHER -> "none"
           frame == Operation(answer, c, op, TRUE)
<1>1. GatewayData(p) /\ f.opcode \in ServiceActionOpcode
  BY DEF GatewayOperation
<1>2. /\ p.plane = "data" /\ AcceptsData(gSession, f, Client)
      /\ UNCHANGED <<gGeneration, sinkVars, backendVars>>
  BY <1>1 DEF GatewayData
<1>3. /\ f \in Frame /\ c \in ChannelIds /\ gSession.phase = "Ready"
      /\ gSession.chan[c].state = "Active" /\ rt \in Runtime /\ rt # NoRuntime
      /\ gSession \in Shape
  BY <1>1, GatewayReads
<1>4. gRuntime \in [ChannelIds -> Runtime \cup {NoRuntime}] /\ up
  BY GatewayTakes DEF WireInv, GatewayInv, BackendTypes
<1>5. op \in OpIds
  BY <1>1, <1>3, OperationFrame
<1>6. rt.opOut[op] \in Nat
  BY <1>3, <1>5, OperationCounted
<1>7. \/ /\ p.seq # rt.opIn[op] /\ Finish(FailSession(o)) /\ UNCHANGED gRuntime
      \/ /\ answer # "none" /\ Finish(PushFrame(o, frame, rt.opOut[op]))
         /\ gRuntime' = [gRuntime EXCEPT ![c] = q]
      \/ Finish(Report(o, c, ok)) /\ gRuntime' = [gRuntime EXCEPT ![c] = r]
  <2>1. [gRuntime EXCEPT ![c].opIn[op] = @ + 1] = [gRuntime EXCEPT ![c] = r]
    BY <1>3, <1>4
  <2>2. [gRuntime EXCEPT ![c].opIn[op] = @ + 1, ![c].opOut[op] = @ + 1]
           = [gRuntime EXCEPT ![c] = q]
    BY <1>3, <1>4 DEF Runtime
  <2> QED  BY <2>1, <2>2 DEF GatewayOperation
<1> HIDE DEF in, out
<1>8. CASE p.seq # rt.opIn[op] /\ Finish(FailSession(o)) /\ UNCHANGED gRuntime
  <2>1. Finish(Closing(PushControl(o, SessionError)))
    <3>1. o.session = gSession /\ InSelectedPlane(gSession.phase)
      BY <1>3 DEF InSelectedPlane, Outcome
    <3> HIDE DEF o
    <3> QED  BY <1>8, <3>1 DEF FailSession
  <2>2. gLoop' = "closing" /\ g2c' = Append(g2c, Control(SessionError, gSeqOut))
    BY <1>3, <1>4, <2>1, FailedAtOnce DEF InSelectedPlane, IsTerminal
  <2> QED  BY <1>1, <1>2, <1>8, <2>2 DEF Ended, Cause
<1>9. CASE /\ answer # "none" /\ Finish(PushFrame(o, frame, rt.opOut[op]))
           /\ gRuntime' = [gRuntime EXCEPT ![c] = q]
  <2>1. \A d \in ChannelIds : SameRuntime(d)
    BY <1>3, <1>9, OperationsCounted
  <2>2. <<f.opcode, answer>> \in Answers /\ answer \in {"SERVICE_RESPONSE", "ACTION_RESULT"}
    BY <1>9 DEF Answers
  <2>3. /\ frame \in Frame /\ frame.opcode = answer /\ frame.ch = c /\ frame.opid = op
        /\ frame.reliable
    BY <1>3, <1>5, <2>2 DEF Frame, Operation, ServiceActionOpcode
  <2> DEFINE kind == gSession.chan[c].kind
  <2>4. kind \in OperationKind
    BY <1>3 DEF Shape, Entry, UnusedEntry
  <2>5. Client \in OpcodeSenders(kind, f.opcode)
    BY <1>2 DEF AcceptsData
  <2>6. Server \in OpcodeSenders(kind, answer)
    BY <2>2, <2>4, <2>5 DEF OpcodeSenders, OperationKind, Answers, Role, Client, Server
  <2>7. op # "none" /\ op # "zero"
    BY <1>5, WireAssumption
  <2> HIDE DEF answer, frame
  <2>8. AcceptsData(gSession, frame, Server)
    BY <1>3, <2>3, <2>6, <2>7 DEF AcceptsData
  <2>9. /\ gSession' = gSession /\ gLoop' = "running"
        /\ g2c' = Append(g2c, Data(frame, rt.opOut[op]))
    BY <1>3, <1>4, <1>6, <1>9, <2>3, <2>8, FinishedFrame
  <2>10. \E n \in Nat : g2c' = Append(g2c, Data(frame, n))
    BY <1>6, <2>9
  <2> QED  BY <1>1, <1>2, <1>3, <2>1, <2>2, <2>3, <2>8, <2>9, <2>10
           DEF TookOperation, TookData, frame
<1>10. CASE Finish(Report(o, c, ok)) /\ gRuntime' = [gRuntime EXCEPT ![c] = r]
  <2>1. \A d \in ChannelIds : SameRuntime(d)
    BY <1>3, <1>10, OperationsCounted
  <2>2. gSession' = gSession /\ gLoop' = "running" /\ Reported(c)
    BY <1>3, <1>4, <1>10, ReportTaken
  <2> QED  BY <1>1, <1>2, <1>3, <2>1, <2>2 DEF TookOperation, TookData
<1> QED  BY <1>7, <1>8, <1>9, <1>10

\* Every packet of the client is taken in one of these ways.
LEMMA PacketTaken ==
    ASSUME WireInv, FitInv, NEW p, Inbound(p), GatewayHandle(p)
    PROVE  Taking(p)
<1>1. Outcomes \subseteq BOOLEAN
  BY DEF Outcomes
<1>2. CASE \E negotiated \in Outcomes : GatewayBootstrap(p, negotiated)
  BY <1>1, <1>2, BootstrapTaken DEF Taking
<1>3. CASE GatewayRefuses(p)
  BY <1>3, RefusesNothing
<1>4. CASE \E allowed, graph \in Outcomes : GatewayAuthenticate(p, allowed, graph)
  BY <1>1, <1>4, AuthenticateTaken DEF Taking
<1>5. CASE GatewayRefuseOpen(p)
  BY <1>5, RefuseTaken DEF Taking
<1>6. CASE \E reliable, shown \in BOOLEAN : GatewayOpen(p, reliable, shown)
  BY <1>6, AllowTaken DEF Taking
<1>7. CASE GatewayClose(p)
  BY <1>7, CloseTaken DEF Taking
<1>8. CASE GatewayHeartbeat(p)
  BY <1>8, HeartbeatTaken DEF Taking
<1>9. CASE \E ok \in Outcomes : GatewayPublish(p, ok) \/ GatewayOperation(p, ok)
  BY <1>1, <1>9, PublishTaken, OperationTaken DEF Taking
<1> QED  BY <1>2, <1>3, <1>4, <1>5, <1>6, <1>7, <1>8, <1>9 DEF GatewayHandle

-----------------------------------------------------------------------------
(* Packets that fit what is before them, step by step. *)

\* Nothing is on its way.
LEMMA FitInitially == Init => FitInv
<1> SUFFICES ASSUME Init PROVE FitInv
  OBVIOUS
<1>1. /\ c2g = <<>> /\ g2c = <<>> /\ gSession = NewSession /\ cSession = NewSession
      /\ gRuntime = [c \in ChannelIds |-> NoRuntime] /\ gGeneration = NoGeneration
      /\ cActive = [c \in ChannelIds |-> Inactive]
  BY DEF Init, LinkInit, ClientInit, GatewayInit
<1>2. /\ NewSession.generation = NoGeneration
      /\ \A c \in ChannelIds : NewSession.chan[c].state = "Unused"
  BY DEF NewSession, UnusedEntry
<1>3. DOMAIN c2g = {} /\ DOMAIN g2c = {}
  BY <1>1
<1>4. GatewayTables
  BY <1>1, <1>2 DEF GatewayTables
<1>5. OutFits /\ InFits
  BY <1>3 DEF OutFits, InFits
<1>6. ASSUME NEW c \in ChannelIds PROVE FlagsOf(c) /\ PublishedOf(c)
  <2>1. cActive[c].kind # "TopicPublish" /\ cSession.chan[c].state = "Unused"
        /\ gRuntime[c] = NoRuntime
    BY <1>1, <1>2 DEF Inactive, NoKind
  <2> QED  BY <1>3, <2>1 DEF FlagsOf, PublishedOf
<1> QED  BY <1>4, <1>5, <1>6 DEF FitInv, Flags, Published

\* A step that touches none of it.
LEMMA FitSame ==
    ASSUME FitInv, UNCHANGED <<c2g, g2c, up, cSession, cClosed, cActive, gSession, gLoop,
                               gRuntime, gGeneration>>
    PROVE  FitInv'
  BY DEF FitInv, GatewayTables, OutFits, InFits, Flags, FlagsOf, Published, PublishedOf,
     Connected

\* Once the loop is left, only what is on its way to the engine matters;
LEMMA FitEnded ==
    ASSUME gLoop' # "running", InFits'
    PROVE  FitInv'
  BY DEF FitInv, GatewayTables, OutFits, Flags, FlagsOf, Published, PublishedOf, Connected

\* once the engine is closed, only what is on its way to the gateway,
LEMMA FitStopped ==
    ASSUME FitInv, cClosed', UNCHANGED <<c2g, gSession, gLoop, gRuntime, gGeneration>>
    PROVE  FitInv'
  BY DEF FitInv, GatewayTables, OutFits, InFits, Flags, FlagsOf, Published, PublishedOf,
     Connected

\* and nothing once the transport is gone.
LEMMA FitLost ==
    ASSUME FitInv, ~up', c2g' = <<>>, g2c' = <<>>,
           UNCHANGED <<gSession, gLoop, gRuntime, gGeneration>>
    PROVE  FitInv'
<1>1. DOMAIN c2g' = {} /\ DOMAIN g2c' = {} /\ ~Connected'
  BY DEF Connected
<1>2. GatewayTables'
  BY DEF FitInv, GatewayTables
<1>3. \A c \in ChannelIds : Stepwise(c2g', c, gRuntime'[c].seqIn)
  BY <1>1 DEF Stepwise
<1> QED  BY <1>1, <1>2, <1>3 DEF FitInv, OutFits, InFits, Flags, FlagsOf, Published,
            PublishedOf

-----------------------------------------------------------------------------
(* The engine sends. *)

\* x goes out, or is refused or lost: the channels of the engine change as a
\* command changes them.
Sends(x) ==
    /\ ~cClosed /\ UNCHANGED <<cClosed, g2c, up, gatewayVars>>
    /\ \/ /\ up /\ c2g' = Append(c2g, x) /\ x \in ClientPacket
          /\ Connected => FitsOut(gSession, Append(c2g, x), Len(c2g) + 1)
       \/ c2g' = c2g /\ (up => x.plane # "data")
    /\ \/ cSession'.phase = cSession.phase
       \/ cSession.phase = "AwaitClientHello" /\ cSession'.phase = "AwaitServerHello"
       \/ /\ cSession.phase = "SelectedAwaitAuthenticate"
          /\ cSession'.phase = "SelectedAwaitSessionReady"
    /\ cSession'.generation = cSession.generation

\* What it comes to for channel c.
Numbers(x, c) ==
    /\ IsSample(x, c) /\ cSession'.chan[c] = cSession.chan[c]
    /\ cSession.chan[c].state = "Active" /\ cActive[c].kind = "TopicPublish"
    /\ x.seq = cActive[c].next /\ x.msg.reliable = cActive[c].reliable
    /\ cActive'[c].reliable = cActive[c].reliable
    /\ cActive'[c].next = cActive[c].next + 1

\* What it comes to for a channel the packet is not a sample of.
Leaves(x, c) ==
    /\ ~IsSample(x, c)
    /\ cActive'[c].kind = "TopicPublish" => cActive'[c] = cActive[c]
    /\ \/ /\ cSession'.chan[c] = cSession.chan[c]
          /\ cActive'[c].reliable = cActive[c].reliable
       \/ /\ cSession.chan[c].state = "Unused" /\ cSession'.chan[c].state = "Pending"
       \/ /\ cSession.chan[c].state = "Active" /\ cSession'.chan[c].state = "Closed"
          /\ cSession'.chan[c].kind = cSession.chan[c].kind

\* What the engine sends fits what the gateway will expect when it arrives.
LEMMA FitSends ==
    ASSUME WireInv, FitInv, NEW x, Sends(x),
           \A c \in ChannelIds : Numbers(x, c) \/ Leaves(x, c)
    PROVE  FitInv'
<1>1. /\ ~cClosed /\ UNCHANGED <<cClosed, g2c, up, gatewayVars>>
      /\ UNCHANGED <<gSession, gLoop, gRuntime, gGeneration>>
      /\ Connected' = Connected
  BY DEF Sends, gatewayVars, Connected
<1>2. \/ up /\ c2g' = Append(c2g, x) /\ x \in ClientPacket
      \/ c2g' = c2g /\ (up => x.plane # "data")
  BY DEF Sends
<1>3. c2g \in Seq(ClientPacket) /\ (~up => c2g = <<>>)
  BY DEF WireInv, LinkTypes, Streams
<1>4. GatewayTables'
  BY <1>1 DEF FitInv, GatewayTables
<1>5. OutFits'
  <2>1. CASE c2g' = c2g
    BY <1>1, <2>1 DEF FitInv, OutFits
  <2>2. CASE up /\ c2g' = Append(c2g, x) /\ x \in ClientPacket /\ gLoop = "running"
    <3>1. FitsOut(gSession, Append(c2g, x), Len(c2g) + 1)
      BY <1>1, <1>3, <2>2, Queued DEF Sends, Connected
    <3>2. \A i \in DOMAIN c2g : FitsOut(gSession, c2g, i)
      BY <2>2 DEF FitInv, OutFits
    <3>3. \A i \in DOMAIN Append(c2g, x) : FitsOut(gSession, Append(c2g, x), i)
      BY <1>3, <2>2, <3>1, <3>2, FitsOutQueued
    <3> QED  BY <1>1, <2>2, <3>3 DEF OutFits
  <2> QED  BY <1>1, <1>2, <2>1, <2>2 DEF OutFits
<1>6. InFits'
  <2>1. \A c \in ChannelIds :
           \/ cSession'.chan[c] = cSession.chan[c]
           \/ cSession.chan[c].state = "Unused"
           \/ /\ cSession.chan[c].state = "Active" /\ cSession'.chan[c].state = "Closed"
              /\ cSession'.chan[c].kind = cSession.chan[c].kind
    BY DEF Numbers, Leaves
  <2>2. \A i \in DOMAIN g2c : FitsIn(cSession, g2c, i)
    BY <1>1 DEF FitInv, InFits
  <2>3. \/ cSession'.phase = cSession.phase
        \/ cSession.phase = "AwaitClientHello" /\ cSession'.phase = "AwaitServerHello"
        \/ /\ cSession.phase = "SelectedAwaitAuthenticate"
           /\ cSession'.phase = "SelectedAwaitSessionReady"
    BY DEF Sends
  <2>4. cSession'.generation = cSession.generation
    BY DEF Sends
  <2>5. \A i \in DOMAIN g2c : FitsIn(cSession', g2c, i)
    BY <2>1, <2>2, <2>3, <2>4, FitsInSent
  <2> QED  BY <1>1, <2>5 DEF InFits
<1>7. ASSUME NEW c \in ChannelIds PROVE FlagsOf(c)' /\ PublishedOf(c)'
  <2>1. FlagsOf(c) /\ PublishedOf(c)
    BY DEF FitInv, Flags, Published
  <2>2. ASSUME c2g' # c2g
        PROVE  /\ up /\ c2g' = Append(c2g, x) /\ x \in ClientPacket
               /\ DOMAIN c2g' = 1 .. Len(c2g) + 1 /\ DOMAIN c2g = 1 .. Len(c2g)
               /\ \A i \in 1 .. Len(c2g) : c2g'[i] = c2g[i]
               /\ c2g'[Len(c2g) + 1] = x /\ Len(c2g) \in Nat
    BY <1>2, <1>3, <2>2, Queued
  <2>3. CASE Numbers(x, c)
    <3>1. x.plane = "data" /\ x.msg.reliable = cActive[c].reliable
      BY <2>3 DEF Numbers, IsSample
    <3>2. CASE ~up
      <4>1. c2g' = <<>> /\ DOMAIN c2g' = {} /\ ~Connected'
        BY <1>1, <1>2, <1>3, <3>2 DEF Connected
      <4>2. Stepwise(c2g', c, gRuntime'[c].seqIn)
        BY <4>1 DEF Stepwise
      <4> QED  BY <4>1, <4>2 DEF FlagsOf, PublishedOf
    <3>3. CASE up
      <4>1. c2g' = Append(c2g, x) /\ x \in ClientPacket
        BY <1>2, <3>1, <3>3
      <4>2. \A i \in DOMAIN c2g' : (i \in DOMAIN c2g /\ c2g'[i] = c2g[i]) \/ c2g'[i] = x
        <5>1. /\ DOMAIN c2g' = 1 .. Len(c2g) + 1 /\ DOMAIN c2g = 1 .. Len(c2g)
              /\ \A i \in 1 .. Len(c2g) : c2g'[i] = c2g[i]
              /\ c2g'[Len(c2g) + 1] = x /\ Len(c2g) \in Nat
          BY <1>3, <4>1, Queued
        <5> QED  BY <5>1
      <4>3. FlagsOf(c)'
        <5>1. gLoop = "running" => Connected
          BY <1>1, <3>3 DEF Connected
        <5> QED  BY <1>1, <2>1, <2>3, <3>1, <4>2, <5>1 DEF FlagsOf, Numbers
      <4> DEFINE lo == gRuntime[c].seqIn
                 hi == cActive[c].next
      <4>4. Connected => UpTo(c2g, c, lo, hi)
        BY <2>1, <2>3 DEF PublishedOf, Numbers
      <4>5. IsSample(x, c) /\ x.seq = hi /\ cActive'[c].next = hi + 1
            /\ cSession'.chan[c].state = "Active"
        BY <2>3 DEF Numbers
      <4> HIDE DEF lo, hi
      <4>6. UpTo(c2g', c, lo, hi + 1)
        BY <1>3, <4>1, <4>5, SamplesQueue
      <4>7. Stepwise(c2g, c, lo) /\ UpTo(c2g, c, lo, hi) => Stepwise(c2g', c, lo)
        BY <1>3, <4>1, <4>5, SamplesQueue
      <4>8. gLoop = "running" => Connected
        BY <1>1, <3>3 DEF Connected
      <4>9. PublishedOf(c)'
        <5>1. gLoop = "running" /\ gRuntime[c] # NoRuntime => Stepwise(c2g', c, lo)
          BY <2>1, <4>4, <4>7, <4>8 DEF PublishedOf, lo
        <5> QED  BY <1>1, <4>5, <4>6, <5>1 DEF PublishedOf, lo
      <4> QED  BY <4>3, <4>9
    <3> QED  BY <3>2, <3>3
  <2>4. CASE Leaves(x, c)
    <3>1. \A i \in DOMAIN c2g' : IsSample(c2g'[i], c) => i \in DOMAIN c2g /\ c2g'[i] = c2g[i]
      BY <2>2, <2>4 DEF Leaves
    <3>2. FlagsOf(c)'
      <4>1. cSession'.chan[c].state = "Active" =>
               /\ cSession.chan[c].state = "Active"
               /\ cActive'[c].reliable = cActive[c].reliable
        BY <2>4 DEF Leaves
      <4> QED  BY <1>1, <2>1, <3>1, <4>1 DEF FlagsOf
    <3>3. \A lo : Stepwise(c2g, c, lo) => Stepwise(c2g', c, lo)
      BY <1>2, <1>3, <2>4, SamplesQueue DEF Leaves
    <3>4. \A lo, hi : UpTo(c2g, c, lo, hi) => UpTo(c2g', c, lo, hi)
      BY <1>2, <1>3, <2>4, SamplesQueue DEF Leaves
    <3>5. ASSUME Connected, cSession'.chan[c].state = "Pending", gRuntime[c] # NoRuntime
          PROVE  cSession.chan[c].state = "Pending"
      <4>1. gSession.chan[c].state = "Active"
        BY <3>5 DEF WireInv, GatewayInv, EntitiesOwned, Connected
      <4>2. cSession.chan[c].state # "Unused"
        BY <3>5, <4>1 DEF WireInv, Agreeing, Joint, View, ViewPairs
      <4> QED  BY <2>4, <3>5, <4>2 DEF Leaves
    <3>6. PublishedOf(c)'
      <4>1. cActive'[c].kind = "TopicPublish" => cActive'[c] = cActive[c]
        BY <2>4 DEF Leaves
      <4> QED  BY <1>1, <2>1, <3>3, <3>4, <3>5, <4>1 DEF PublishedOf
    <3> QED  BY <3>2, <3>6
  <2> QED  BY <2>3, <2>4
<1> QED  BY <1>4, <1>5, <1>6, <1>7 DEF FitInv, Flags, Published

\* A control message the engine's session accepts goes out.
LEMMA ControlSends ==
    ASSUME WireInv, NEW m \in ClientControl, ~cClosed,
           AcceptsControl(cSession, m, Client), ClientPushControl(m),
           UNCHANGED <<cClosed, g2c, up, gatewayVars>>,
           \/ cSession'.phase = cSession.phase
           \/ /\ cSession.phase = "SelectedAwaitAuthenticate"
              /\ cSession'.phase = "SelectedAwaitSessionReady",
           cSession'.generation = cSession.generation
    PROVE  /\ Sends(Control(m, cSeqOut))
           /\ \A c : ~IsSample(Control(m, cSeqOut), c)
<1> DEFINE x == Control(m, cSeqOut)
<1>1. cSession \in Shape /\ cSeqOut \in Nat /\ c2g \in Seq(ClientPacket)
  BY DEF WireInv, EngineInv, EngineTypes, LinkTypes
<1>2. x \in ClientPacket /\ x.plane = "control" /\ x.msg = m
  BY <1>1, ControlPacket
<1> HIDE DEF x
<1>3. c2g' = IF up THEN Append(c2g, x) ELSE c2g
  BY <1>1, <1>2, SentOne DEF ClientPushControl, Sent, x
<1>4. ASSUME Connected PROVE FitsOut(gSession, Append(c2g, x), Len(c2g) + 1)
  <2>1. Joint(cSession, gSession, c2g, g2c)
    BY <1>4 DEF WireInv, Agreeing
  <2> QED  BY <1>1, <1>2, <2>1, ControlFits
<1>5. Sends(x)
  BY <1>2, <1>3, <1>4 DEF Sends
<1>6. \A c : ~IsSample(x, c)
  BY <1>2 DEF IsSample
<1> QED  BY <1>5, <1>6 DEF x

\* A refused command ends the engine.
LEMMA FitRefused ==
    ASSUME FitInv, NEW m, NEW pending, NEW active, ClientCommand(m, pending, active),
           ~AcceptsControl(cSession, m, Client), UNCHANGED gatewayVars
    PROVE  FitInv'
<1>1. cClosed' /\ UNCHANGED <<c2g, gSession, gLoop, gRuntime, gGeneration>>
  BY DEF ClientCommand, ClientFail, gatewayVars, linkVars
<1> QED  BY <1>1, FitStopped

\* The engine's commands, one by one: the hello,
LEMMA FitStart ==
    ASSUME WireInv, FitInv, ClientStart, UNCHANGED gatewayVars
    PROVE  FitInv'
<1> DEFINE x == Bootstrap("ClientHello")
<1>1. /\ cSession \in Shape /\ cSession.phase = "AwaitClientHello"
      /\ c2g \in Seq(ClientPacket)
      /\ ~cClosed /\ UNCHANGED <<cClosed, g2c, up, cActive>>
  BY DEF WireInv, EngineInv, EngineTypes, LinkTypes, Unstarted, ClientStart, tableVars
<1>2. x \in ClientPacket /\ x.plane = "bootstrap"
  BY DEF Bootstrap, ClientPacket
<1> HIDE DEF x
<1>3. Rephased(cSession, cSession', "AwaitServerHello")
  <2>1. cSession' = [cSession EXCEPT !.phase = "AwaitServerHello"]
    BY DEF ClientStart, AfterBootstrap
  <2>2. "AwaitServerHello" \in Phase
    BY DEF Phase
  <2> QED  BY <1>1, <2>1, <2>2, AfterPhase
<1>4. c2g' = IF up THEN Append(c2g, x) ELSE c2g
  BY <1>1, <1>2, SentOne DEF ClientStart, Sent, x
<1>5. ASSUME Connected PROVE FitsOut(gSession, Append(c2g, x), Len(c2g) + 1)
  <2>1. Joint(cSession, gSession, c2g, g2c)
    BY <1>5 DEF WireInv, Agreeing
  <2> QED  BY <1>1, <1>2, <2>1, HelloFits
<1>6. Sends(x)
  BY <1>1, <1>2, <1>3, <1>4, <1>5 DEF Sends, Rephased
<1>7. \A c \in ChannelIds : Leaves(x, c)
  BY <1>1, <1>2, <1>3 DEF Leaves, IsSample, Rephased
<1> QED  BY <1>6, <1>7, FitSends

\* the credentials,
LEMMA FitAuthenticate ==
    ASSUME WireInv, FitInv, ClientAuthenticate, UNCHANGED gatewayVars
    PROVE  FitInv'
<1> DEFINE m == [type |-> "Authenticate"]
           x == Control(m, cSeqOut)
<1>0. m \in ClientControl /\ m.type = "Authenticate"
  BY DEF ClientControl
<1>1. CASE ~AcceptsControl(cSession, m, Client)
  BY <1>1, FitRefused DEF ClientAuthenticate
<1>2. CASE AcceptsControl(cSession, m, Client)
  <2>1. /\ ClientPushControl(m) /\ ~cClosed /\ UNCHANGED <<cClosed, cActive, g2c, up>>
    BY <1>2 DEF ClientAuthenticate, ClientCommand
  <2> HIDE DEF m
  <2>2. /\ cSession.phase = "SelectedAwaitAuthenticate"
        /\ Rephased(cSession, cSession', "SelectedAwaitSessionReady")
    BY <1>0, <1>2, <2>1, AfterAuthentication
    DEF WireInv, EngineInv, EngineTypes, ClientPushControl
  <2>3. Sends(x) /\ \A c : ~IsSample(x, c)
    BY <1>0, <1>2, <2>1, <2>2, ControlSends DEF Rephased
  <2>4. \A c \in ChannelIds : Leaves(x, c)
    BY <2>1, <2>2, <2>3 DEF Leaves, Rephased
  <2> QED  BY <2>3, <2>4, FitSends
<1> QED  BY <1>1, <1>2

\* a channel opened,
LEMMA FitOpen ==
    ASSUME WireInv, FitInv, NEW c \in ChannelIds, NEW kind \in OperationKind,
           ClientOpen(c, kind), UNCHANGED gatewayVars
    PROVE  FitInv'
<1> DEFINE m == [type |-> "OpenChannel", ch |-> c, kind |-> kind]
           x == Control(m, cSeqOut)
<1>0. m \in ClientControl /\ m.type = "OpenChannel" /\ m.ch = c /\ m.kind = kind
  BY DEF ClientControl
<1>1. CASE ~AcceptsControl(cSession, m, Client)
  BY <1>1, FitRefused DEF ClientOpen
<1>2. CASE AcceptsControl(cSession, m, Client)
  <2>1. /\ ClientPushControl(m) /\ ~cClosed /\ UNCHANGED <<cClosed, cActive, g2c, up>>
    BY <1>2 DEF ClientOpen, ClientCommand
  <2> HIDE DEF m
  <2>2. /\ cSession.chan[c].state = "Unused"
        /\ Moved(cSession, cSession', c, "Pending", kind)
    BY <1>0, <1>2, <2>1, AfterOpen
    DEF WireInv, EngineInv, EngineTypes, ClientPushControl
  <2>3. Sends(x) /\ \A d : ~IsSample(x, d)
    BY <1>0, <1>2, <2>1, <2>2, ControlSends DEF Moved
  <2>4. ASSUME NEW d \in ChannelIds PROVE Leaves(x, d)
    BY <2>1, <2>2, <2>3 DEF Leaves, Moved
  <2> QED  BY <2>3, <2>4, FitSends
<1> QED  BY <1>1, <1>2

\* a channel closed,
LEMMA FitUnsubscribe ==
    ASSUME WireInv, FitInv, NEW c \in ChannelIds,
           ClientUnsubscribe(c), UNCHANGED gatewayVars
    PROVE  FitInv'
<1> DEFINE m == [type |-> "CloseChannel", ch |-> c]
           x == Control(m, cSeqOut)
<1>0. m \in ClientControl /\ m.type = "CloseChannel" /\ m.ch = c
  BY DEF ClientControl
<1>1. CASE ~AcceptsControl(cSession, m, Client)
  BY <1>1, FitRefused DEF ClientUnsubscribe
<1>2. CASE AcceptsControl(cSession, m, Client)
  <2>1. /\ ClientPushControl(m) /\ ~cClosed /\ UNCHANGED <<cClosed, g2c, up>>
        /\ cActive' = [cActive EXCEPT ![c] = Inactive]
    BY <1>2 DEF ClientUnsubscribe, ClientCommand
  <2> HIDE DEF m
  <2>2. /\ cSession.chan[c].state = "Active"
        /\ Moved(cSession, cSession', c, "Closed", cSession.chan[c].kind)
    BY <1>0, <1>2, <2>1, AfterClose
    DEF WireInv, EngineInv, EngineTypes, ClientPushControl
  <2>3. Sends(x) /\ \A d : ~IsSample(x, d)
    BY <1>0, <1>2, <2>1, <2>2, ControlSends DEF Moved
  <2>4. ASSUME NEW d \in ChannelIds PROVE Leaves(x, d)
    <3>1. cActive'[d] = IF d = c THEN Inactive ELSE cActive[d]
      BY <2>1 DEF WireInv, EngineInv, EngineTypes
    <3>2. Inactive.kind # "TopicPublish"
      BY DEF Inactive, NoKind
    <3> QED  BY <2>2, <2>3, <3>1, <3>2 DEF Leaves, Moved
  <2> QED  BY <2>3, <2>4, FitSends
<1> QED  BY <1>1, <1>2

\* The counter of a channel.
LEMMA NextNumber ==
    ASSUME WireInv, NEW c \in ChannelIds, cActive' = [cActive EXCEPT ![c].next = @ + 1]
    PROVE  /\ cActive'[c].next = cActive[c].next + 1
           /\ cActive'[c].kind = cActive[c].kind
           /\ cActive'[c].reliable = cActive[c].reliable
           /\ \A d \in ChannelIds : d # c => cActive'[d] = cActive[d]
           /\ cActive[c] \in ActiveEntry
<1>1. cActive \in [ChannelIds -> ActiveEntry]
  BY DEF WireInv, EngineInv, EngineTypes
<1>2. cActive[c] \in ActiveEntry
  BY <1>1
<1> QED  BY <1>1, <1>2 DEF ActiveEntry

\* a sample,
LEMMA FitPublish ==
    ASSUME WireInv, FitInv, NEW c \in ChannelIds, ClientSendSample(c),
           UNCHANGED gatewayVars
    PROVE  FitInv'
<1> DEFINE f == Sample(c, cActive[c].reliable, 0)
           x == Data(f, cActive[c].next)
<1>1. /\ ~cClosed /\ cActive[c].kind = "TopicPublish"
      /\ AcceptsData(cSession, f, Client) /\ c2g' = Sent(c2g, <<x>>)
      /\ cActive' = [cActive EXCEPT ![c].next = @ + 1]
      /\ UNCHANGED <<cSession, cClosed, g2c, up>>
  BY DEF ClientSendSample
<1>2. /\ cActive'[c].next = cActive[c].next + 1
      /\ cActive'[c].reliable = cActive[c].reliable
      /\ \A d \in ChannelIds : d # c => cActive'[d] = cActive[d]
      /\ cActive[c] \in ActiveEntry
  BY <1>1, NextNumber
<1>3. f \in Frame /\ cActive[c].next \in Nat
  BY <1>2 DEF Sample, Frame, ActiveEntry
<1>4. x \in ClientPacket /\ x.plane = "data" /\ x.msg = f /\ x.seq = cActive[c].next
  BY <1>3, DataPacket DEF Data
<1>5. f.ch = c /\ f.opcode = "ROS_SAMPLE" /\ f.reliable = cActive[c].reliable
  BY DEF Sample
<1>6. cSession.chan[c].state = "Active"
  BY <1>1, <1>5 DEF AcceptsData
<1> HIDE DEF f, x
<1>7. c2g \in Seq(ClientPacket)
  BY DEF WireInv, LinkTypes
<1>8. c2g' = IF up THEN Append(c2g, x) ELSE c2g
  BY <1>1, <1>4, <1>7, SentOne DEF Sent
<1>9. ASSUME Connected PROVE FitsOut(gSession, Append(c2g, x), Len(c2g) + 1)
  <2>1. Joint(cSession, gSession, c2g, g2c)
    BY <1>9 DEF WireInv, Agreeing
  <2> QED  BY <1>1, <1>4, <1>7, <2>1, DataFits
<1>10. Sends(x)
  BY <1>1, <1>4, <1>8, <1>9 DEF Sends
<1>11. ASSUME NEW d \in ChannelIds PROVE Numbers(x, d) \/ Leaves(x, d)
  <2>1. CASE d = c
    BY <1>1, <1>2, <1>4, <1>5, <1>6, <2>1 DEF Numbers, IsSample
  <2>2. CASE d # c
    BY <1>1, <1>2, <1>4, <1>5, <2>2 DEF Leaves, IsSample
  <2> QED  BY <2>1, <2>2
<1> QED  BY <1>10, <1>11, FitSends

\* a frame of an operation,
LEMMA FitOperation ==
    ASSUME WireInv, FitInv, NEW c \in ChannelIds, NEW opcode \in ServiceActionOpcode,
           NEW opid \in OpIds, ClientSendOperation(c, opcode, opid),
           UNCHANGED gatewayVars
    PROVE  FitInv'
<1> DEFINE f == Operation(opcode, c, opid, opcode \in ReliableRequired)
           x == Data(f, cActive[c].next)
           accepted == AcceptsData(cSession, f, Client)
           y == IF accepted THEN x ELSE Control(Heartbeat, 0)
<1>1. /\ ~cClosed /\ (IsService(cActive[c].kind) \/ IsAction(cActive[c].kind))
      /\ c2g' = IF accepted THEN Sent(c2g, <<x>>) ELSE c2g
      /\ cActive' = [cActive EXCEPT ![c].next = @ + 1]
      /\ ~cClosed /\ UNCHANGED <<cSession, cClosed, g2c, up>>
  BY DEF ClientSendOperation
<1>2. /\ cActive'[c].kind = cActive[c].kind /\ cActive'[c].kind # "TopicPublish"
      /\ cActive'[c].reliable = cActive[c].reliable
      /\ \A d \in ChannelIds : d # c => cActive'[d] = cActive[d]
      /\ cActive[c] \in ActiveEntry
  BY <1>1, NextNumber DEF IsService, IsAction
<1>3. f \in Frame /\ cActive[c].next \in Nat
  BY <1>2 DEF Operation, Frame, ActiveEntry
<1>4. x \in ClientPacket /\ x.plane = "data" /\ x.msg = f
  BY <1>3, DataPacket DEF Data
<1>5. f.opcode # "ROS_SAMPLE"
  BY DEF Operation, ServiceActionOpcode
<1>6. c2g \in Seq(ClientPacket)
  BY DEF WireInv, LinkTypes
<1>7. ~accepted => y.plane = "control"
  BY DEF Control
<1> HIDE DEF f, x
<1>8. accepted => y = x /\ c2g' = IF up THEN Append(c2g, x) ELSE c2g
  BY <1>1, <1>4, <1>6, SentOne DEF Sent
<1>9. ASSUME Connected, accepted PROVE FitsOut(gSession, Append(c2g, x), Len(c2g) + 1)
  <2>1. Joint(cSession, gSession, c2g, g2c)
    BY <1>9 DEF WireInv, Agreeing
  <2> QED  BY <1>4, <1>6, <1>9, <2>1, DataFits
<1> HIDE DEF y, accepted
<1>10. Sends(y)
  BY <1>1, <1>4, <1>7, <1>8, <1>9 DEF Sends
<1>11. ASSUME NEW d \in ChannelIds PROVE Leaves(y, d)
  <2>1. ~IsSample(y, d)
    BY <1>4, <1>5, <1>7, <1>8 DEF IsSample
  <2> QED  BY <1>1, <1>2, <2>1 DEF Leaves
<1> QED  BY <1>10, <1>11, FitSends

\* and a heartbeat.
LEMMA FitTick ==
    ASSUME WireInv, FitInv, ClientHeartbeat, UNCHANGED gatewayVars
    PROVE  FitInv'
<1>1. /\ ClientPushControl(Heartbeat) /\ ~cClosed /\ cSession.phase = "Ready"
      /\ UNCHANGED <<cClosed, cActive, g2c, up>>
  BY DEF ClientHeartbeat, tableVars
<1>2. Heartbeat \in ClientControl /\ Heartbeat.type = "Heartbeat" /\ Client \in Role
  BY DEF ClientControl, Heartbeat, Role
<1>3. AcceptsControl(cSession, Heartbeat, Client)
  BY <1>1, <1>2, HeartbeatAccepted
<1>4. cSession' = cSession
  BY <1>1, <1>2, AfterHeartbeat DEF WireInv, EngineInv, EngineTypes, ClientPushControl
<1> DEFINE x == Control(Heartbeat, cSeqOut)
<1>5. Sends(x) /\ \A d : ~IsSample(x, d)
  BY <1>1, <1>2, <1>3, <1>4, ControlSends
<1>6. \A c \in ChannelIds : Leaves(x, c)
  BY <1>1, <1>4, <1>5 DEF Leaves
<1> QED  BY <1>5, <1>6, FitSends

\* Whatever the application commands.
LEMMA FitApp ==
    ASSUME WireInv, FitInv, App
    PROVE  FitInv'
<1>1. Kinds \subseteq OperationKind
  BY WireAssumption
<1>2. CASE AppStart \/ AppAuthenticate \/ AppTick
  BY <1>2, FitStart, FitAuthenticate, FitTick DEF AppStart, AppAuthenticate, AppTick
<1>3. CASE AppClose
  <2>1. cClosed' /\ UNCHANGED <<c2g, gSession, gLoop, gRuntime, gGeneration>>
    BY <1>3 DEF AppClose, ClientClose, linkVars, gatewayVars
  <2> QED  BY <2>1, FitStopped
<1>4. ASSUME NEW c \in ChannelIds, NEW kind \in Kinds, AppOpen(c, kind)
      PROVE  FitInv'
  BY <1>1, <1>4, FitOpen DEF AppOpen
<1>5. ASSUME NEW c \in ChannelIds, AppUnsubscribe(c) \/ AppPublish(c)
      PROVE  FitInv'
  BY <1>5, FitUnsubscribe, FitPublish DEF AppUnsubscribe, AppPublish
<1>6. ASSUME NEW c \in ChannelIds, NEW op \in OpIds, NEW opcode \in ServiceActionOpcode,
             ClientSendOperation(c, opcode, op), UNCHANGED gatewayVars
      PROVE  FitInv'
  BY <1>6, FitOperation
<1>7. {"SERVICE_REQUEST", "SERVICE_RESPONSE", "ACTION_GOAL", "ACTION_CANCEL",
       "ACTION_FEEDBACK", "ACTION_STATUS", "ACTION_RESULT"} \subseteq ServiceActionOpcode
  BY DEF ServiceActionOpcode
<1>8. ASSUME NEW c \in ChannelIds, NEW op \in OpIds,
             AppCall(c, op) \/ AppCancel(c, op) \/ AppReply(c, op)
      PROVE  FitInv'
  <2>1. /\ UNCHANGED gatewayVars
        /\ \E opcode \in ServiceActionOpcode : ClientSendOperation(c, opcode, op)
    BY <1>7, <1>8 DEF AppCall, AppCancel, AppReply
  <2> QED  BY <1>6, <2>1
<1>9. ASSUME NEW c \in ChannelIds, NEW opcode \in ServiceActionOpcode,
             NEW op \in OpIds, AppMisuse(c, opcode, op)
      PROVE  FitInv'
  BY <1>6, <1>9 DEF AppMisuse
<1> QED  BY <1>2, <1>3, <1>4, <1>5, <1>8, <1>9 DEF App

-----------------------------------------------------------------------------
(* The engine receives. *)

\* It takes the head, stays open, and its session moves by it.
Accepted(h) ==
    /\ ~cClosed /\ ~cClosed' /\ g2c # <<>> /\ h = Head(g2c) /\ g2c' = Tail(g2c)
    /\ UNCHANGED <<up, gatewayVars>>
    /\ \/ c2g' = c2g
       \/ /\ c2g' = Append(c2g, Control(Heartbeat, cSeqOut))
          /\ AcceptsControl(cSession, Heartbeat, Client)
    /\ h.plane = "bootstrap" => IsBootstrap(h, "ServerHello")
    /\ IsBootstrap(h, "ServerHello") => cSession'.phase = "SelectedAwaitAuthenticate"
    /\ IsControl(h, "SessionReady") => cSession'.phase = "Ready"
    /\ ~IsBootstrap(h, "ServerHello") /\ ~IsControl(h, "SessionReady") =>
          cSession'.phase = cSession.phase
    /\ cSession'.generation = IF IsGraph(h) THEN h.msg.gen ELSE cSession.generation
    /\ \A c \in ChannelIds :
          IF About(h, "ChannelReady", c)
          THEN /\ cSession'.chan[c].state = ResultState(h.msg.result)
               /\ cSession'.chan[c].kind = cSession.chan[c].kind
               /\ IsSuccess(h.msg.result) =>
                     cActive'[c].reliable = h.msg.reliable /\ cActive'[c].next = 0
               /\ ~IsSuccess(h.msg.result) => cActive'[c] = cActive[c]
          ELSE cSession'.chan[c] = cSession.chan[c] /\ cActive'[c] = cActive[c]

\* An accepted packet leaves a stream that fits.
LEMMA FitAccepted ==
    ASSUME WireInv, FitInv, NEW h, Accepted(h)
    PROVE  FitInv'
<1>1. /\ ~cClosed /\ ~cClosed' /\ g2c # <<>> /\ h = Head(g2c) /\ g2c' = Tail(g2c)
      /\ UNCHANGED <<up, gSession, gLoop, gRuntime, gGeneration>>
      /\ Connected' = Connected
  BY DEF Accepted, gatewayVars, Connected
<1>2. /\ g2c \in Seq(ServerPacket) /\ c2g \in Seq(ClientPacket) /\ up /\ cSeqOut \in Nat
      /\ Tail(g2c) \in Seq(ServerPacket)
  BY <1>1, EngineInSequence, Taken DEF WireInv, LinkTypes, EngineInv, EngineTypes
<1>3. \A i \in DOMAIN g2c : FitsIn(cSession, g2c, i)
  BY <1>1 DEF FitInv, InFits
<1> DEFINE x == Control(Heartbeat, cSeqOut)
<1>4. Heartbeat \in ClientControl /\ x \in ClientPacket /\ x.plane = "control"
      /\ x.msg = Heartbeat
  BY <1>2, ControlPacket DEF ClientControl
<1> HIDE DEF x
<1>5. GatewayTables'
  BY <1>1 DEF FitInv, GatewayTables
<1>6. InFits'
  <2>1. \A i \in DOMAIN Tail(g2c) : FitsIn(cSession', Tail(g2c), i)
    <3> DEFINE k == Head(g2c)
    <3>1. /\ k.plane = "bootstrap" => IsBootstrap(k, "ServerHello")
          /\ IsBootstrap(k, "ServerHello") => cSession'.phase = "SelectedAwaitAuthenticate"
          /\ IsControl(k, "SessionReady") => cSession'.phase = "Ready"
          /\ ~IsBootstrap(k, "ServerHello") /\ ~IsControl(k, "SessionReady") =>
                cSession'.phase = cSession.phase
          /\ cSession'.generation = IF IsGraph(k) THEN k.msg.gen ELSE cSession.generation
          /\ \A c \in ChannelIds :
                IF About(k, "ChannelReady", c)
                THEN /\ cSession'.chan[c].state = ResultState(k.msg.result)
                     /\ cSession'.chan[c].kind = cSession.chan[c].kind
                ELSE cSession'.chan[c] = cSession.chan[c]
      BY <1>1 DEF Accepted
    <3> QED  BY <1>1, <1>2, <1>3, <3>1, FitsInTaken
  <2> QED  BY <1>1, <2>1 DEF InFits
<1>7. OutFits'
  <2>1. CASE c2g' = c2g
    BY <1>1, <2>1 DEF FitInv, OutFits
  <2>2. CASE /\ c2g' = Append(c2g, x) /\ gLoop = "running"
             /\ AcceptsControl(cSession, Heartbeat, Client)
    <3>1. Joint(cSession, gSession, c2g, g2c)
      BY <1>1, <1>2, <2>2 DEF WireInv, Agreeing, Connected
    <3>2. FitsOut(gSession, Append(c2g, x), Len(c2g) + 1)
      BY <1>2, <1>4, <2>2, <3>1, ControlFits
    <3>3. \A i \in DOMAIN c2g : FitsOut(gSession, c2g, i)
      BY <2>2 DEF FitInv, OutFits
    <3>4. \A i \in DOMAIN Append(c2g, x) : FitsOut(gSession, Append(c2g, x), i)
      BY <1>2, <1>4, <3>2, <3>3, FitsOutQueued
    <3> QED  BY <1>1, <2>2, <3>4 DEF OutFits
  <2> QED  BY <1>1, <2>1, <2>2 DEF OutFits, Accepted, x
<1>8. ASSUME NEW c \in ChannelIds PROVE FlagsOf(c)' /\ PublishedOf(c)'
  <2>1. FlagsOf(c) /\ PublishedOf(c)
    BY DEF FitInv, Flags, Published
  <2>2. c2g' = c2g \/ c2g' = Append(c2g, x)
    BY DEF Accepted, x
  <2>3. ~IsSample(x, c)
    BY <1>4 DEF IsSample
  <2>4. \A i \in DOMAIN c2g' : IsSample(c2g'[i], c) => i \in DOMAIN c2g /\ c2g'[i] = c2g[i]
    <3>1. /\ DOMAIN Append(c2g, x) = 1 .. Len(c2g) + 1 /\ DOMAIN c2g = 1 .. Len(c2g)
          /\ \A i \in 1 .. Len(c2g) : Append(c2g, x)[i] = c2g[i]
          /\ Append(c2g, x)[Len(c2g) + 1] = x /\ Len(c2g) \in Nat
      BY <1>2, <1>4, Queued
    <3> QED  BY <2>2, <2>3, <3>1
  <2>5. \A i \in DOMAIN g2c' : i + 1 \in DOMAIN g2c /\ g2c'[i] = g2c[i + 1]
    BY <1>1, <1>2, Taken
  <2>6. 1 \in DOMAIN g2c /\ h = g2c[1] /\ 1 .. 1 - 1 = {}
    BY <1>1, <1>2, Taken
  <2>7. ChannelFits(cSession, g2c, 1, c)
    BY <1>3, <2>6 DEF FitsIn
  <2>8. \A lo : Stepwise(c2g, c, lo) => Stepwise(c2g', c, lo)
    BY <1>2, <1>4, <2>2, <2>3, SamplesQueue
  <2>9. \A lo, hi : UpTo(c2g, c, lo, hi) => UpTo(c2g', c, lo, hi)
    BY <1>2, <1>4, <2>2, <2>3, SamplesQueue
  <2>10. CASE ~About(h, "ChannelReady", c)
    <3>1. cSession'.chan[c] = cSession.chan[c] /\ cActive'[c] = cActive[c]
      BY <2>10 DEF Accepted
    <3>2. FlagsOf(c)'
      BY <1>1, <2>1, <2>4, <2>5, <3>1 DEF FlagsOf
    <3>3. PublishedOf(c)'
      BY <1>1, <2>1, <2>8, <2>9, <3>1 DEF PublishedOf
    <3> QED  BY <3>2, <3>3
  <2>11. CASE About(h, "ChannelReady", c)
    <3>1. /\ cSession'.chan[c].state = ResultState(h.msg.result)
          /\ IsSuccess(h.msg.result) =>
                cActive'[c].reliable = h.msg.reliable /\ cActive'[c].next = 0
          /\ ~IsSuccess(h.msg.result) => cActive'[c] = cActive[c]
      BY <2>11 DEF Accepted
    <3>2. cSession.chan[c].state = "Pending"
      BY <2>6, <2>7, <2>11 DEF ChannelFits
    <3>3. cActive[c].kind # "TopicPublish"
      BY <1>1, <3>2 DEF WireInv, EngineInv, EngineTables, NoKind
    <3>4. ResultState(h.msg.result) # "Pending"
          /\ (ResultState(h.msg.result) = "Active" => IsSuccess(h.msg.result))
      BY DEF ResultState
    <3>5. FlagsOf(c)'
      BY <1>1, <2>1, <2>4, <2>5, <2>6, <2>11, <3>1, <3>4 DEF FlagsOf
    <3>6. ASSUME Connected, IsSuccess(h.msg.result)
          PROVE  gRuntime[c] # NoRuntime
      <4>1. gSession.chan[c].state = "Active"
        <5>1. View(c, cSession.chan[c], gSession.chan[c], c2g, g2c)
          BY <3>6 DEF WireInv, Agreeing, Joint
        <5> QED  BY <2>6, <2>11, <3>2, <3>6, <5>1 DEF View, ExplainedIn, ResultState
      <4> QED  BY <3>6, <4>1 DEF WireInv, GatewayInv, EntitiesOwned, Connected
    <3>7. PublishedOf(c)'
      BY <1>1, <2>1, <2>8, <2>9, <3>1, <3>2, <3>3, <3>4, <3>6 DEF PublishedOf
    <3> QED  BY <3>5, <3>7
  <2> QED  BY <2>10, <2>11
<1> QED  BY <1>5, <1>6, <1>7, <1>8 DEF FitInv, Flags, Published

\* The packet at the head fits the engine's session.
LEMMA EngineHeadFits ==
    ASSUME WireInv, FitInv, ~cClosed, g2c # <<>>
    PROVE  /\ Head(g2c) \in ServerPacket /\ Head(g2c) = g2c[1] /\ 1 \in DOMAIN g2c
           /\ 1 .. 1 - 1 = {}
           /\ ReadyFits(cSession, g2c, 1) /\ DeltaFits(cSession, g2c, 1)
           /\ \A c \in ChannelIds : ChannelFits(cSession, g2c, 1, c)
<1>1. g2c \in Seq(ServerPacket)
  BY DEF WireInv, LinkTypes
<1>2. Head(g2c) \in ServerPacket /\ Head(g2c) = g2c[1] /\ 1 \in DOMAIN g2c
  BY <1>1, Taken
<1>3. FitsIn(cSession, g2c, 1)
  BY <1>2 DEF FitInv, InFits
<1> QED  BY <1>2, <1>3 DEF FitsIn

\* The engine accepts the answer to its hello;
LEMMA BootstrapAccepted ==
    ASSUME WireInv, FitInv, ClientReceiveBootstrap, UNCHANGED gatewayVars, ~cClosed'
    PROVE  Accepted(Head(g2c))
<1> DEFINE h == Head(g2c)
<1>1. /\ ~cClosed /\ g2c # <<>> /\ g2c' = Tail(g2c) /\ h.plane = "bootstrap"
      /\ cSession' = AfterBootstrap(cSession, h.msg)
      /\ cClosed' = (h.msg.type = "BootstrapError")
      /\ UNCHANGED <<cActive, c2g, up>>
  BY DEF ClientReceiveBootstrap, tableVars
<1>2. h \in ServerPacket /\ cSession \in Shape
  BY <1>1, EngineHeadFits DEF WireInv, EngineInv, EngineTypes
<1> HIDE DEF h
<1>3. h.msg.type = "ServerHello"
  BY <1>1, <1>2, ServerPacketTypes
<1>4. cSession' = [cSession EXCEPT !.phase = "SelectedAwaitAuthenticate"]
  BY <1>1, <1>3 DEF AfterBootstrap
<1>5. Rephased(cSession, cSession', "SelectedAwaitAuthenticate")
  BY <1>2, <1>4, AfterPhase DEF Phase
<1>6. /\ IsBootstrap(h, "ServerHello") /\ ~IsControl(h, "SessionReady") /\ ~IsGraph(h)
      /\ \A c : ~About(h, "ChannelReady", c)
  BY <1>1, <1>3 DEF IsBootstrap, IsControl, IsGraph, About
<1> QED  BY <1>1, <1>5, <1>6 DEF Accepted, Rephased, h

\* the answer to an open;
LEMMA ReadyAccepted ==
    ASSUME WireInv, FitInv, NEW m, ClientChannelReady(m), UNCHANGED gatewayVars
    PROVE  Accepted(Head(g2c))
<1> DEFINE h == Head(g2c)
           c == m.ch
           e == [kind |-> IF cPending[m.ch] = NoKind THEN "TopicSubscribe"
                                                     ELSE cPending[m.ch],
                 reliable |-> m.reliable, next |-> 0]
<1>1. /\ m.type = "ChannelReady" /\ ClientAcceptsControl(m)
      /\ cSession' = AfterControl(cSession, m)
      /\ cActive' = IF IsSuccess(m.result) THEN [cActive EXCEPT ![c] = e] ELSE cActive
      /\ UNCHANGED <<cClosed, cSeqOut, c2g>>
  BY DEF ClientChannelReady
<1>2. /\ ~cClosed /\ g2c # <<>> /\ g2c' = Tail(g2c) /\ up' = up
      /\ h.plane = "control" /\ h.msg = m
  BY <1>1 DEF ClientAcceptsControl
<1>3. m \in ServerControl /\ cSession \in Shape /\ AcceptsControl(cSession, m, Server)
  BY <1>1, EngineAccepts
<1>4. c \in ChannelIds
  BY <1>1, <1>3, ServerControlTypes
<1>5. Moved(cSession, cSession', c, ResultState(m.result), cSession.chan[c].kind)
  BY <1>1, <1>3, <1>4, AfterReady
<1>6. e.reliable = m.reliable /\ e.next = 0
  OBVIOUS
<1> HIDE DEF h, e
<1>7. /\ ~IsBootstrap(h, "ServerHello") /\ ~IsControl(h, "SessionReady") /\ ~IsGraph(h)
      /\ \A d : About(h, "ChannelReady", d) <=> d = c
  BY <1>1, <1>2 DEF IsBootstrap, IsControl, IsGraph, About
<1>8. cActive \in [ChannelIds -> ActiveEntry]
  BY DEF WireInv, EngineInv, EngineTypes
<1>9. ASSUME NEW d \in ChannelIds
      PROVE  IF d = c
             THEN /\ cSession'.chan[d].state = ResultState(m.result)
                  /\ cSession'.chan[d].kind = cSession.chan[d].kind
                  /\ IsSuccess(m.result) =>
                        cActive'[d].reliable = m.reliable /\ cActive'[d].next = 0
                  /\ ~IsSuccess(m.result) => cActive'[d] = cActive[d]
             ELSE cSession'.chan[d] = cSession.chan[d] /\ cActive'[d] = cActive[d]
  BY <1>1, <1>5, <1>6, <1>8 DEF Moved
<1>10. /\ cSession'.phase = cSession.phase /\ cSession'.generation = cSession.generation
       /\ h.plane # "bootstrap"
  BY <1>2, <1>5 DEF Moved
<1> HIDE DEF c
<1> QED  BY <1>1, <1>2, <1>7, <1>9, <1>10 DEF Accepted, h

\* a heartbeat, which it answers;
LEMMA HeartbeatAcceptedBack ==
    ASSUME WireInv, FitInv, ClientHeartbeatEcho, UNCHANGED gatewayVars
    PROVE  Accepted(Head(g2c))
<1> DEFINE h == Head(g2c)
           x == Control(Heartbeat, cSeqOut)
<1>1. /\ ~cClosed /\ g2c # <<>> /\ g2c' = Tail(g2c)
      /\ h.plane = "control" /\ h.msg = Heartbeat
      /\ AcceptsControl(cSession, Heartbeat, Server)
      /\ UNCHANGED <<up, cClosed, cActive>>
  BY DEF ClientHeartbeatEcho, ClientAcceptsControl, tableVars
<1>2. g2c \in Seq(ServerPacket) /\ c2g \in Seq(ClientPacket) /\ cSession \in Shape
      /\ cSeqOut \in Nat
  BY DEF WireInv, EngineInv, EngineTypes, LinkTypes
<1>3. Heartbeat \in ClientControl /\ Heartbeat.type = "Heartbeat" /\ Client \in Role
  BY DEF ClientControl, Heartbeat, Role
<1>4. x \in ClientPacket
  BY <1>2, <1>3, ControlPacket
<1>5. cSession' = cSession /\ cSession.phase = "Ready"
  BY <1>1, <1>2, <1>3, AfterHeartbeat DEF ClientHeartbeatEcho, ClientPushControl
<1>6. AcceptsControl(cSession, Heartbeat, Client)
  BY <1>3, <1>5, HeartbeatAccepted
<1>7. up
  BY <1>1, EngineInSequence
<1>8. c2g' = Append(c2g, x)
  BY <1>2, <1>4, <1>7, SentOne DEF ClientHeartbeatEcho, ClientPushControl, Sent
<1> HIDE DEF h
<1>9. /\ ~IsBootstrap(h, "ServerHello") /\ ~IsControl(h, "SessionReady") /\ ~IsGraph(h)
      /\ \A c : ~About(h, "ChannelReady", c)
  BY <1>1, <1>3 DEF IsBootstrap, IsControl, IsGraph, About
<1> QED  BY <1>1, <1>5, <1>6, <1>8, <1>9 DEF Accepted, h

\* An Error always ends an engine that is ready.
LEMMA ErrorEnds ==
    ASSUME WireInv, FitInv, NEW m, ClientError(m), UNCHANGED gatewayVars
    PROVE  cClosed'
<1> DEFINE h == Head(g2c)
<1>1. /\ m.type = "Error" /\ ClientAcceptsControl(m)
      /\ cSession' = AfterControl(cSession, m)
      /\ cClosed' = IsSessionError(cSession, m)
      /\ UNCHANGED <<cSeqOut, cActive, c2g>>
  BY DEF ClientError
<1>2. /\ ~cClosed /\ g2c # <<>> /\ h.plane = "control" /\ h.msg = m
  BY <1>1 DEF ClientAcceptsControl
<1>3. m \in ServerControl
  BY <1>1, EngineAccepts
<1>4. m.scope # "operation"
  BY <1>1, <1>3, ServerControlTypes
<1>5. ~FailsPendingChannel(cSession, m)
  <2> SUFFICES ASSUME m.ch \in ChannelIds, cSession.chan[m.ch].state = "Pending"
               PROVE  FALSE
    BY DEF FailsPendingChannel
  <2>1. h = g2c[1] /\ 1 .. 1 - 1 = {} /\ ChannelFits(cSession, g2c, 1, m.ch)
    BY <1>2, EngineHeadFits
  <2>2. About(h, "Error", m.ch)
    BY <1>1, <1>2 DEF About
  <2> QED  BY <2>1, <2>2 DEF ChannelFits
<1> QED  BY <1>1, <1>4, <1>5 DEF IsSessionError, CancelsOperation

\* the other control messages;
LEMMA OtherAccepted ==
    ASSUME WireInv, FitInv, NEW m, ClientOtherControl(m), UNCHANGED gatewayVars
    PROVE  Accepted(Head(g2c))
<1> DEFINE h == Head(g2c)
<1>1. /\ m.type \notin {"ChannelReady", "Heartbeat", "Error"} /\ ClientAcceptsControl(m)
      /\ cSession' = AfterControl(cSession, m)
      /\ UNCHANGED <<cClosed, cSeqOut, cActive, c2g>>
  BY DEF ClientOtherControl, tableVars
<1>2. /\ ~cClosed /\ g2c # <<>> /\ g2c' = Tail(g2c) /\ up' = up
      /\ h.plane = "control" /\ h.msg = m
  BY <1>1 DEF ClientAcceptsControl
<1>3. m \in ServerControl /\ cSession \in Shape /\ AcceptsControl(cSession, m, Server)
  BY <1>1, EngineAccepts
<1> HIDE DEF h
<1>4. /\ ~IsBootstrap(h, "ServerHello") /\ h.plane # "bootstrap"
      /\ \A d : ~About(h, "ChannelReady", d)
      /\ IsControl(h, "SessionReady") <=> m.type = "SessionReady"
      /\ IsGraph(h) <=> m.type \in {"GraphSnapshot", "GraphDelta"}
  BY <1>1, <1>2 DEF IsBootstrap, IsControl, IsGraph, About
<1>5. CASE m.type = "SessionReady"
  <2>1. Rephased(cSession, cSession', "Ready")
    BY <1>1, <1>3, <1>5, AfterSessionReady
  <2> QED  BY <1>1, <1>2, <1>4, <1>5, <2>1 DEF Accepted, Rephased, h
<1>6. CASE m.type \in {"GraphSnapshot", "GraphDelta"}
  <2>1. m.gen \in Int
    BY <1>3, <1>6, ServerControlTypes
  <2>2. Dated(cSession, cSession', m.gen)
    BY <1>1, <1>3, <1>6, <2>1, AfterGraphMessage
  <2> QED  BY <1>1, <1>2, <1>4, <1>6, <2>2 DEF Accepted, Dated, h
<1> QED  BY <1>1, <1>3, <1>5, <1>6, ServerControlTypes

\* and a data frame.
LEMMA DataAccepted ==
    ASSUME WireInv, FitInv, ClientReceiveData, UNCHANGED gatewayVars
    PROVE  Accepted(Head(g2c))
<1> DEFINE h == Head(g2c)
<1>1. /\ ~cClosed /\ g2c # <<>> /\ g2c' = Tail(g2c) /\ h.plane = "data"
      /\ UNCHANGED <<cSession, cClosed, cActive, c2g, up>>
  BY DEF ClientReceiveData, tableVars
<1> HIDE DEF h
<1>2. /\ ~IsBootstrap(h, "ServerHello") /\ ~IsControl(h, "SessionReady") /\ ~IsGraph(h)
      /\ \A c : ~About(h, "ChannelReady", c)
  BY <1>1 DEF IsBootstrap, IsControl, IsGraph, About
<1> QED  BY <1>1, <1>2 DEF Accepted, h

\* The engine takes what is at the head of its stream.
LEMMA FitReceive ==
    ASSUME WireInv, FitInv, ClientReceive, UNCHANGED gatewayVars
    PROVE  FitInv'
<1>1. CASE cClosed'
  <2>1. CASE c2g' = c2g
    BY <1>1, <2>1, FitStopped DEF gatewayVars
  <2>2. CASE ClientHeartbeatEcho
    BY <1>1, <2>2 DEF ClientHeartbeatEcho, ClientAcceptsControl
  <2> QED  BY <2>1, <2>2 DEF ClientReceive, ClientReceiveBad, ClientReceiveBootstrap,
              ClientChannelReady, ClientError, ClientOtherControl, ClientReceiveData,
              ClientDiscard
<1>2. CASE ~cClosed'
  <2>1. CASE ClientReceiveBad \/ ClientDiscard
    <3>1. CASE ClientReceiveBad
      BY <1>2, <3>1 DEF ClientReceiveBad
    <3>2. CASE ClientDiscard
      BY <1>2, <3>2 DEF ClientDiscard, clientVars
    <3> QED  BY <2>1, <3>1, <3>2
  <2>2. CASE ClientReceiveBootstrap
    BY <1>2, <2>2, BootstrapAccepted, FitAccepted
  <2>3. CASE \E m : ClientChannelReady(m)
    BY <2>3, ReadyAccepted, FitAccepted
  <2>4. CASE ClientHeartbeatEcho
    BY <2>4, HeartbeatAcceptedBack, FitAccepted
  <2>5. CASE \E m : ClientError(m)
    BY <1>2, <2>5, ErrorEnds
  <2>6. CASE \E m : ClientOtherControl(m)
    BY <2>6, OtherAccepted, FitAccepted
  <2>7. CASE ClientReceiveData
    BY <2>7, DataAccepted, FitAccepted
  <2> QED  BY <2>1, <2>2, <2>3, <2>4, <2>5, <2>6, <2>7 DEF ClientReceive
<1> QED  BY <1>1, <1>2

-----------------------------------------------------------------------------
(* The gateway takes a packet. *)

\* What the engine will find behind what is already on its way.
LEMMA OneBehind ==
    ASSUME WireInv, FitInv, NEW x \in ServerPacket, g2c' = Append(g2c, x),
           UNCHANGED clientVars,
           ~cClosed => FitsIn(cSession, Append(g2c, x), Len(g2c) + 1)
    PROVE  InFits'
<1>1. g2c \in Seq(ServerPacket) /\ cClosed' = cClosed /\ cSession' = cSession
  BY DEF WireInv, LinkTypes, clientVars
<1>2. ASSUME ~cClosed PROVE \A i \in DOMAIN Append(g2c, x) : FitsIn(cSession, Append(g2c, x), i)
  BY <1>1, <1>2, FitsInQueued DEF FitInv, InFits
<1> QED  BY <1>1, <1>2 DEF InFits

\* The same for two packets.
LEMMA TwoBehind ==
    ASSUME WireInv, FitInv, NEW x \in ServerPacket, NEW y \in ServerPacket,
           g2c' = Append(Append(g2c, x), y), UNCHANGED clientVars,
           ~cClosed => /\ FitsIn(cSession, Append(g2c, x), Len(g2c) + 1)
                       /\ FitsIn(cSession, Append(Append(g2c, x), y),
                                 Len(Append(g2c, x)) + 1)
    PROVE  InFits'
<1> DEFINE r == Append(g2c, x)
<1>1. g2c \in Seq(ServerPacket) /\ cClosed' = cClosed /\ cSession' = cSession
      /\ r \in Seq(ServerPacket)
  BY DEF WireInv, LinkTypes, clientVars
<1>2. ASSUME ~cClosed PROVE \A i \in DOMAIN r : FitsIn(cSession, r, i)
  BY <1>1, <1>2, FitsInQueued DEF FitInv, InFits
<1> HIDE DEF r
<1>3. ASSUME ~cClosed, FitsIn(cSession, Append(r, y), Len(r) + 1)
      PROVE  \A i \in DOMAIN Append(r, y) : FitsIn(cSession, Append(r, y), i)
  BY <1>1, <1>2, <1>3, FitsInQueued
<1>4. ~cClosed => FitsIn(cSession, Append(r, y), Len(r) + 1)
  BY DEF r
<1> QED  BY <1>1, <1>3, <1>4 DEF InFits, r

\* The messages a gateway sends of its own accord.
LEMMA GatewayMessages ==
    /\ SessionReady \in ServerControl /\ SessionError \in ServerControl
    /\ Heartbeat \in ServerControl
    /\ \A g \in Int : [type |-> "GraphSnapshot", gen |-> g] \in ServerControl
    /\ \A a, b \in Int : DeltaMessage(a, b) \in ServerControl
    /\ \A c \in ChannelIds : ChannelError(c) \in ServerControl
    /\ \A c \in ChannelIds, reliable \in BOOLEAN, result \in {"Allow", "Error"} :
          ReadyMessage(c, result, reliable) \in ServerControl
    /\ Bootstrap("ServerHello") \in ServerPacket
    /\ Bootstrap("BootstrapError") \in ServerPacket
<1>1. Bootstrap("ServerHello") \in ServerPacket /\ Bootstrap("BootstrapError") \in ServerPacket
  BY DEF ServerPacket, Bootstrap
<1> QED  BY <1>1 DEF ServerControl, SessionReady, DeltaMessage, ChannelError, ReadyMessage

\* What the gateway says when it leaves its loop fits.
LEMMA EndedFits ==
    ASSUME WireInv, FitInv, NEW p, Inbound(p), Ended(p), UNCHANGED clientVars
    PROVE  InFits'
<1>1. /\ gLoop = "running" /\ up /\ g2c \in Seq(ServerPacket) /\ gSeqOut \in Nat
      /\ Connected => Joint(cSession, gSession, c2g, g2c)
      /\ c2g # <<>> /\ p = Head(c2g) /\ c2g \in Seq(ClientPacket)
  BY GatewayTakes
<1>2. ~cClosed => Joint(cSession, gSession, c2g, g2c)
  BY <1>1 DEF Connected
<1>3. CASE /\ gSession.phase = "AwaitClientHello"
           /\ g2c' = Append(g2c, Bootstrap("BootstrapError"))
  <2> DEFINE x == Bootstrap("BootstrapError")
  <2>1. x \in ServerPacket /\ x.plane = "bootstrap"
    BY GatewayMessages DEF Bootstrap
  <2> HIDE DEF x
  <2>2. ASSUME ~cClosed
        PROVE  /\ ~InSelectedPlane(cSession.phase)
               /\ \A j \in DOMAIN g2c : ~IsBootstrap(g2c[j], "ServerHello")
    BY <1>2, <1>3, <2>2 DEF Joint, Phases, PhasePairs, PhasesIn, InSelectedPlane
  <2>3. ~cClosed => FitsIn(cSession, Append(g2c, x), Len(g2c) + 1)
    BY <1>1, <2>1, <2>2, PlainFits
  <2> QED  BY <1>3, <2>1, <2>3, OneBehind DEF x
<1>4. CASE g2c' = Append(g2c, Control(SessionError, gSeqOut))
  <2> DEFINE x == Control(SessionError, gSeqOut)
  <2>1. x \in ServerPacket /\ x.plane = "control" /\ x.msg = SessionError
    BY <1>1, GatewayMessages, ControlPacket
  <2> HIDE DEF x
  <2>2. FitsIn(cSession, Append(g2c, x), Len(g2c) + 1)
    BY <1>1, <2>1, PlainFits
  <2> QED  BY <1>4, <2>1, <2>2, OneBehind DEF x
<1>5. CASE /\ IsControl(p, "Authenticate") /\ gSession.phase = "SelectedAwaitAuthenticate"
           /\ g2c' = Append(Append(g2c, Control(SessionReady, gSeqOut)),
                            Control(SessionError, gSeqOut + 1))
  <2> DEFINE x == Control(SessionReady, gSeqOut)
             y == Control(SessionError, gSeqOut + 1)
  <2>1. /\ x \in ServerPacket /\ IsControl(x, "SessionReady")
        /\ y \in ServerPacket /\ y.plane = "control" /\ y.msg = SessionError
    <3>1. gSeqOut + 1 \in Nat
      BY <1>1
    <3> QED  BY <1>1, <3>1, GatewayMessages, ControlPacket DEF IsControl, SessionReady
  <2> HIDE DEF x, y
  <2>2. ASSUME ~cClosed
        PROVE  /\ cSession.phase = "SelectedAwaitSessionReady"
               /\ \A j \in DOMAIN g2c : ~IsControl(g2c[j], "SessionReady")
    <3>1. 1 \in DOMAIN c2g /\ p = c2g[1]
      BY <1>1, Taken
    <3> QED  BY <1>2, <1>5, <2>2, <3>1 DEF Joint, Phases, PhasePairs, PhasesIn, PhasesOut
  <2>3. ~cClosed => FitsIn(cSession, Append(g2c, x), Len(g2c) + 1)
    BY <1>1, <2>1, <2>2, PlainFits
  <2>4. Append(g2c, x) \in Seq(ServerPacket)
    BY <1>1, <2>1
  <2>5. FitsIn(cSession, Append(Append(g2c, x), y), Len(Append(g2c, x)) + 1)
    BY <2>1, <2>4, PlainFits
  <2> QED  BY <1>5, <2>1, <2>3, <2>5, TwoBehind DEF x, y
<1> QED  BY <1>3, <1>4, <1>5 DEF Ended

\* The hello is answered; the engine is admitted.
LEMMA GreetedFits ==
    ASSUME WireInv, FitInv, NEW p, Inbound(p), Greeted(p), UNCHANGED clientVars
    PROVE  InFits'
<1> DEFINE x == Bootstrap("ServerHello")
<1>1. /\ g2c \in Seq(ServerPacket) /\ g2c' = Append(g2c, x)
      /\ gSession.phase = "AwaitClientHello"
      /\ ~cClosed => Joint(cSession, gSession, c2g, g2c)
  BY GatewayTakes DEF Connected, Greeted
<1>2. x \in ServerPacket /\ x.plane = "bootstrap"
  BY GatewayMessages DEF Bootstrap
<1> HIDE DEF x
<1>3. ASSUME ~cClosed
      PROVE  /\ ~InSelectedPlane(cSession.phase)
             /\ \A j \in DOMAIN g2c : ~IsBootstrap(g2c[j], "ServerHello")
  BY <1>1, <1>3 DEF Joint, Phases, PhasePairs, PhasesIn, InSelectedPlane
<1>4. ~cClosed => FitsIn(cSession, Append(g2c, x), Len(g2c) + 1)
  BY <1>1, <1>2, <1>3, PlainFits
<1> QED  BY <1>1, <1>2, <1>4, OneBehind

\* The answer to the credentials fits,
LEMMA AdmittedFits ==
    ASSUME WireInv, FitInv, NEW p, Inbound(p), Admitted(p), UNCHANGED clientVars
    PROVE  InFits'
<1> DEFINE m == [type |-> "GraphSnapshot", gen |-> 1]
           x == Control(SessionReady, gSeqOut)
           y == Control(m, gSeqOut + 1)
<1>1. /\ g2c \in Seq(ServerPacket) /\ g2c' = Append(Append(g2c, x), y)
      /\ gSession.phase = "SelectedAwaitAuthenticate" /\ IsControl(p, "Authenticate")
      /\ ~cClosed => Joint(cSession, gSession, c2g, g2c)
      /\ gSeqOut \in Nat /\ c2g # <<>> /\ p = Head(c2g) /\ c2g \in Seq(ClientPacket)
  BY GatewayTakes DEF Connected, Admitted
<1>2. /\ x \in ServerPacket /\ IsControl(x, "SessionReady")
      /\ y \in ServerPacket /\ IsControl(y, "GraphSnapshot")
  <2>1. gSeqOut + 1 \in Nat /\ m \in ServerControl /\ m.type = "GraphSnapshot"
    BY <1>1, GatewayMessages
  <2> QED  BY <1>1, <2>1, GatewayMessages, ControlPacket DEF IsControl, SessionReady
<1> HIDE DEF x, y
<1>3. ASSUME ~cClosed
      PROVE  /\ cSession.phase = "SelectedAwaitSessionReady"
             /\ \A j \in DOMAIN g2c : ~IsControl(g2c[j], "SessionReady")
  <2>1. 1 \in DOMAIN c2g /\ p = c2g[1]
    BY <1>1, Taken
  <2> QED  BY <1>1, <1>3, <2>1 DEF Joint, Phases, PhasePairs, PhasesIn, PhasesOut
<1>4. ~cClosed => FitsIn(cSession, Append(g2c, x), Len(g2c) + 1)
  BY <1>1, <1>2, <1>3, PlainFits
<1>5. Append(g2c, x) \in Seq(ServerPacket)
  BY <1>1, <1>2
<1>6. ReadyAhead(cSession, Append(g2c, x))
  BY <1>1, <1>2, ReadyStaysAhead
<1>7. FitsIn(cSession, Append(Append(g2c, x), y), Len(Append(g2c, x)) + 1)
  BY <1>2, <1>5, <1>6, PlainFits
<1> QED  BY <1>1, <1>2, <1>4, <1>7, TwoBehind

\* Before the gateway takes an open, no answer to it is in flight, and the
\* engine waits for one.
LEMMA OpenUnanswered ==
    ASSUME WireInv, FitInv, NEW p, Inbound(p), ~cClosed, NEW c \in ChannelIds,
           About(p, "OpenChannel", c), gSession.chan[c].state = "Unused"
    PROVE  /\ cSession.chan[c].state = "Pending"
           /\ \A j \in DOMAIN g2c : ~About(g2c[j], "ChannelReady", c)
<1>1. /\ c2g # <<>> /\ p = Head(c2g) /\ c2g \in Seq(ClientPacket)
      /\ Joint(cSession, gSession, c2g, g2c)
  BY GatewayTakes DEF Connected
<1>2. 1 \in DOMAIN c2g /\ p = c2g[1]
  BY <1>1, Taken
<1>3. View(c, cSession.chan[c], gSession.chan[c], c2g, g2c)
  BY <1>1 DEF Joint
<1>4. cSession.chan[c].state = "Pending"
  BY <1>2, <1>3 DEF View, ViewPairs, ExplainedOut
<1>5. ResultState("Allow") # "Unused" /\ \A r : ResultState(r) # "Unused"
  BY DEF ResultState
<1> QED  BY <1>3, <1>4, <1>5 DEF View, ExplainedIn

\* so does a refused open,
LEMMA RefusedFits ==
    ASSUME WireInv, FitInv, NEW p, Inbound(p), UNCHANGED clientVars,
           NEW c \in ChannelIds, Refused(p, c)
    PROVE  InFits'
<1> DEFINE m == ReadyMessage(c, "Error", FALSE)
           x == Control(m, gSeqOut)
<1>1. /\ g2c \in Seq(ServerPacket) /\ g2c' = Append(g2c, x) /\ gSeqOut \in Nat
      /\ gSession.phase = "Ready" /\ About(p, "OpenChannel", c)
      /\ gSession.chan[c].state = "Unused"
      /\ ~cClosed => Joint(cSession, gSession, c2g, g2c)
  BY GatewayTakes DEF Connected, Refused
<1>2. x \in ServerPacket /\ About(x, "ChannelReady", c)
  <2>1. m \in ServerControl
    BY GatewayMessages
  <2>2. m.type = "ChannelReady" /\ m.ch = c
    BY DEF ReadyMessage
  <2> HIDE DEF m
  <2> QED  BY <1>1, <2>1, <2>2, ControlPacket DEF About
<1> HIDE DEF x
<1>3. ~cClosed => FitsIn(cSession, Append(g2c, x), Len(g2c) + 1)
  BY <1>1, <1>2, OpenUnanswered, ReadyToldAhead, AnswerPushed
<1> QED  BY <1>1, <1>2, <1>3, OneBehind

\* a granted one,
LEMMA OpenedFits ==
    ASSUME WireInv, FitInv, NEW p, Inbound(p), UNCHANGED clientVars,
           NEW c \in ChannelIds, NEW reliable \in BOOLEAN, Opened(p, c, reliable)
    PROVE  InFits'
<1> DEFINE m == ReadyMessage(c, "Allow", reliable)
           n == DeltaMessage(gGeneration, gGeneration')
           x == Control(m, gSeqOut)
           y == Control(n, gSeqOut + 1)
<1>1. /\ g2c \in Seq(ServerPacket) /\ gSeqOut \in Nat /\ gLoop = "running"
      /\ gSession.phase = "Ready" /\ About(p, "OpenChannel", c)
      /\ gSession.chan[c].state = "Unused"
      /\ ~cClosed => Joint(cSession, gSession, c2g, g2c)
      /\ \/ g2c' = Append(g2c, x)
         \/ /\ gGeneration # NoGeneration /\ gGeneration' = SaturatingSucc(gGeneration)
            /\ g2c' = Append(Append(g2c, x), y)
      /\ gGeneration \in Int
  BY GatewayTakes DEF Connected, Opened, WireInv, GatewayInv, ConnectionTypes
<1>2. x \in ServerPacket /\ About(x, "ChannelReady", c) /\ ~IsGraph(x)
  <2>1. m \in ServerControl
    BY GatewayMessages
  <2>2. m.type = "ChannelReady" /\ m.ch = c
    BY DEF ReadyMessage
  <2> HIDE DEF m
  <2> QED  BY <1>1, <2>1, <2>2, ControlPacket DEF About, IsGraph
<1>3. y.plane = "control" /\ y.msg = n /\ n.type = "GraphDelta" /\ n.base = gGeneration
      /\ n.gen = gGeneration'
  BY ControlPacket DEF DeltaMessage
<1> HIDE DEF x
<1>4. ~cClosed => FitsIn(cSession, Append(g2c, x), Len(g2c) + 1)
  BY <1>1, <1>2, OpenUnanswered, ReadyToldAhead, AnswerPushed
<1>5. CASE g2c' = Append(g2c, x)
  BY <1>2, <1>4, <1>5, OneBehind
<1>6. CASE /\ gGeneration # NoGeneration /\ gGeneration' = SaturatingSucc(gGeneration)
           /\ g2c' = Append(Append(g2c, x), y)
  <2>1. gGeneration' \in Int /\ gSeqOut + 1 \in Nat
    BY <1>1, <1>6, MaxGenerationAssumption DEF SaturatingSucc
  <2>2. y \in ServerPacket
    BY <1>1, <2>1, GatewayMessages, ControlPacket
  <2> HIDE DEF y, n
  <2>3. Append(g2c, x) \in Seq(ServerPacket)
    BY <1>1, <1>2
  <2>4. gGeneration = gSession.generation
    BY <1>1 DEF FitInv, GatewayTables
  <2>5. ASSUME ~cClosed
        PROVE  FitsIn(cSession, Append(Append(g2c, x), y), Len(Append(g2c, x)) + 1)
    <3>1. Generations(cSession.generation, gGeneration, Append(g2c, x))
      BY <1>1, <1>2, <2>4, <2>5, GenerationsQueue DEF Joint
    <3>2. ReadyAhead(cSession, Append(g2c, x))
      BY <1>1, <1>2, <2>5, ReadyToldAhead, ReadyStaysAhead
    <3> QED  BY <1>3, <1>6, <2>2, <2>3, <3>1, <3>2, DeltaPushed DEF IsControl
  <2> QED  BY <1>2, <1>4, <1>6, <2>2, <2>5, TwoBehind
<1> QED  BY <1>1, <1>5, <1>6

\* an answered heartbeat,
LEMMA EchoedFits ==
    ASSUME WireInv, FitInv, NEW p, Inbound(p), UNCHANGED clientVars, Echoed(p)
    PROVE  InFits'
<1> DEFINE x == Control(Heartbeat, gSeqOut)
<1>1. /\ g2c \in Seq(ServerPacket) /\ g2c' = Append(g2c, x) /\ gSeqOut \in Nat
      /\ gSession.phase = "Ready"
      /\ ~cClosed => Joint(cSession, gSession, c2g, g2c)
  BY GatewayTakes DEF Connected, Echoed
<1>2. x \in ServerPacket /\ IsControl(x, "Heartbeat")
  BY <1>1, GatewayMessages, ControlPacket DEF IsControl, Heartbeat
<1> HIDE DEF x
<1>3. ~cClosed => FitsIn(cSession, Append(g2c, x), Len(g2c) + 1)
  BY <1>1, <1>2, ReadyToldAhead, PlainFits
<1> QED  BY <1>1, <1>2, <1>3, OneBehind

\* An Error about a channel that is active at the gateway; a data frame on it.
LEMMA ReportedFits ==
    ASSUME WireInv, FitInv, up, gLoop = "running", UNCHANGED clientVars,
           NEW c \in ChannelIds, gSession.chan[c].state = "Active", Reported(c)
    PROVE  InFits'
<1>1. CASE g2c' = g2c
  BY <1>1 DEF FitInv, InFits, clientVars
<1>2. CASE g2c' = Append(g2c, Control(ChannelError(c), gSeqOut))
  <2> DEFINE x == Control(ChannelError(c), gSeqOut)
  <2>1. /\ g2c \in Seq(ServerPacket) /\ gSeqOut \in Nat
        /\ ~cClosed => Joint(cSession, gSession, c2g, g2c)
    BY DEF WireInv, LinkTypes, GatewayInv, ConnectionTypes, Agreeing, Connected
  <2>2. x \in ServerPacket /\ About(x, "Error", c)
    BY <2>1, GatewayMessages, ControlPacket DEF About, ChannelError
  <2> HIDE DEF x
  <2>3. ASSUME ~cClosed
        PROVE  /\ cSession.chan[c].state # "Unused"
               /\ cSession.chan[c].state = "Pending" =>
                     \E j \in DOMAIN g2c : About(g2c[j], "ChannelReady", c)
    BY <2>1, <2>3 DEF Joint, View, ViewPairs, UnderwayIn
  <2>4. ~cClosed => FitsIn(cSession, Append(g2c, x), Len(g2c) + 1)
    BY <2>1, <2>2, <2>3, ErrorPushed
  <2> QED  BY <1>2, <2>2, <2>4, OneBehind DEF x
<1> QED  BY <1>1, <1>2 DEF Reported

\* and an answer the gateway makes itself.
LEMMA FrameFits ==
    ASSUME WireInv, FitInv, up, gLoop = "running", UNCHANGED clientVars,
           NEW f \in Frame, NEW n \in Nat, AcceptsData(gSession, f, Server),
           g2c' = Append(g2c, Data(f, n))
    PROVE  InFits'
<1> DEFINE x == Data(f, n)
<1>1. /\ g2c \in Seq(ServerPacket)
      /\ ~cClosed => Joint(cSession, gSession, c2g, g2c)
  BY DEF WireInv, LinkTypes, Agreeing, Connected
<1>2. x \in ServerPacket /\ x.plane = "data" /\ x.msg = f
  BY DataPacket DEF Data
<1> HIDE DEF x
<1>3. ~cClosed => FitsIn(cSession, Append(g2c, x), Len(g2c) + 1)
  BY <1>1, <1>2, FramePushed
<1> QED  BY <1>2, <1>3, OneBehind DEF x

\* The channel of a frame the gateway takes is open.
LEMMA TookDataActive ==
    ASSUME NEW p, TookData(p)
    PROVE  p.msg.ch \in ChannelIds /\ gSession.chan[p.msg.ch].state = "Active"
           /\ gSession.phase = "Ready"
  BY DEF TookData, AcceptsData

\* Whatever the gateway does about a packet, what it sends fits.
LEMMA TakingFits ==
    ASSUME WireInv, FitInv, NEW p, Inbound(p), Taking(p), UNCHANGED clientVars
    PROVE  InFits'
<1>1. up /\ gLoop = "running"
  BY GatewayTakes
<1>2. CASE \E c \in ChannelIds : Released(p, c)
  BY <1>2 DEF FitInv, InFits, Released, clientVars
<1>3. CASE TookSample(p)
  BY <1>1, <1>3, TookDataActive, ReportedFits DEF TookSample
<1>4. CASE TookOperation(p)
  BY <1>1, <1>4, TookDataActive, ReportedFits, FrameFits DEF TookOperation
<1> QED  BY <1>2, <1>3, <1>4, EndedFits, GreetedFits, AdmittedFits, RefusedFits, OpenedFits,
            EchoedFits DEF Taking

\* A step of the gateway that takes packet p and leaves channel d as it was:
\* no new answer to an open is on its way, and of the runtime only the
\* number expected next may have changed, past a sample taken.
Keeps(p, d) ==
    /\ gRuntime'[d] = NoRuntime <=> gRuntime[d] = NoRuntime
    /\ gRuntime'[d].reliable = gRuntime[d].reliable
    /\ gRuntime'[d].seqIn = IF IsSample(p, d) THEN p.seq + 1 ELSE gRuntime[d].seqIn
    /\ \A i \in DOMAIN g2c' :
          About(g2c'[i], "ChannelReady", d) /\ IsSuccess(g2c'[i].msg.result) =>
              i \in DOMAIN g2c /\ g2c'[i] = g2c[i]

\* A channel the packet is not about keeps its flags and its numbers.
LEMMA KeptChannel ==
    ASSUME WireInv, FitInv, NEW p, Inbound(p), UNCHANGED clientVars,
           NEW d \in ChannelIds, Keeps(p, d), gLoop' = "running"
    PROVE  FlagsOf(d)' /\ PublishedOf(d)'
<1>1. /\ gLoop = "running" /\ up /\ up' /\ c2g \in Seq(ClientPacket) /\ c2g # <<>>
      /\ p = Head(c2g) /\ c2g' = Tail(c2g)
      /\ UNCHANGED <<cSession, cClosed, cActive>>
  BY GatewayTakes DEF clientVars, tableVars
<1>2. Connected' = Connected /\ FlagsOf(d) /\ PublishedOf(d)
  BY <1>1 DEF Connected, FitInv, Flags, Published
<1>3. \A i \in DOMAIN c2g' : i + 1 \in DOMAIN c2g /\ c2g'[i] = c2g[i + 1]
  BY <1>1, Taken
<1>4. FlagsOf(d)'
  BY <1>1, <1>2, <1>3 DEF FlagsOf, Keeps
<1> DEFINE n == gRuntime'[d].seqIn
<1>5. n = IF IsSample(Head(c2g), d) THEN Head(c2g).seq + 1 ELSE gRuntime[d].seqIn
  BY <1>1 DEF Keeps
<1>6. /\ Stepwise(c2g, d, gRuntime[d].seqIn) => Stepwise(c2g', d, n)
      /\ \A hi : UpTo(c2g, d, gRuntime[d].seqIn, hi) => UpTo(c2g', d, n, hi)
  <2> HIDE DEF n
  <2> QED  BY <1>1, <1>5, SamplesTake
<1>7. PublishedOf(d)'
  BY <1>1, <1>2, <1>6 DEF PublishedOf, Keeps
<1> QED  BY <1>4, <1>7

\* The packets an open is answered with.
LEMMA OpenedSends ==
    ASSUME WireInv, NEW p, Inbound(p),
           NEW c \in ChannelIds, NEW reliable \in BOOLEAN, Opened(p, c, reliable)
    PROVE  \E x \in ServerPacket, y \in ServerPacket :
               /\ x.plane = "control" /\ x.msg = ReadyMessage(c, "Allow", reliable)
               /\ IsControl(y, "GraphDelta")
               /\ g2c' = Append(g2c, x) \/ g2c' = Append(Append(g2c, x), y)
<1> DEFINE m == ReadyMessage(c, "Allow", reliable)
           n == DeltaMessage(gGeneration, gGeneration')
           x == Control(m, gSeqOut)
           y == Control(n, gSeqOut + 1)
<1>1. gSeqOut \in Nat /\ gSeqOut + 1 \in Nat /\ gGeneration \in Int
  BY GatewayTakes DEF WireInv, GatewayInv, ConnectionTypes
<1>2. gGeneration' \in Int
  BY <1>1, MaxGenerationAssumption DEF Opened, SaturatingSucc
<1>3. m \in ServerControl /\ n \in ServerControl
  BY <1>1, <1>2, GatewayMessages
<1>4. n.type = "GraphDelta"
  BY DEF DeltaMessage
<1>5. g2c' = Append(g2c, x) \/ g2c' = Append(Append(g2c, x), y)
  BY DEF Opened
<1> HIDE DEF m, n
<1>6. /\ x \in ServerPacket /\ y \in ServerPacket /\ x.plane = "control" /\ x.msg = m
      /\ IsControl(y, "GraphDelta")
  BY <1>1, <1>3, <1>4, ControlPacket DEF IsControl
<1> HIDE DEF x, y
<1> QED  BY <1>5, <1>6 DEF m

\* A channel the gateway opens has carried no sample yet;
LEMMA OpenedChannel ==
    ASSUME WireInv, FitInv, NEW p, Inbound(p), UNCHANGED clientVars,
           NEW c \in ChannelIds, NEW reliable \in BOOLEAN, Opened(p, c, reliable)
    PROVE  FlagsOf(c)' /\ PublishedOf(c)'
<1>1. /\ gLoop = "running" /\ gLoop' = "running" /\ up /\ up' /\ c2g \in Seq(ClientPacket)
      /\ c2g # <<>> /\ p = Head(c2g) /\ c2g' = Tail(c2g) /\ g2c \in Seq(ServerPacket)
      /\ UNCHANGED <<cSession, cClosed, cActive>>
      /\ About(p, "OpenChannel", c) /\ gSession.chan[c].state = "Unused"
      /\ gRuntime \in [ChannelIds -> Runtime \cup {NoRuntime}]
  BY GatewayTakes DEF clientVars, tableVars, Opened, WireInv, GatewayInv, BackendTypes
<1>2. gRuntime'[c].reliable = reliable /\ gRuntime'[c].seqIn = 0
  BY <1>1 DEF Opened, NewRuntime
<1>3. \A i \in DOMAIN c2g' : i + 1 \in DOMAIN c2g /\ c2g'[i] = c2g[i + 1]
  BY <1>1, Taken
<1>4. \A i \in DOMAIN c2g : ~IsSample(c2g[i], c)
  BY <1>1 DEF FitInv, OutFits, FitsOut, IsSample, AcceptsData
<1>5. \A i \in DOMAIN c2g' : ~IsSample(c2g'[i], c)
  BY <1>3, <1>4
<1>6. ASSUME Connected'
      PROVE  /\ cSession.chan[c].state = "Pending"
             /\ \A j \in DOMAIN g2c : ~About(g2c[j], "ChannelReady", c)
  BY <1>1, <1>6, OpenUnanswered DEF Connected
<1>7. PICK x \in ServerPacket, y \in ServerPacket :
          /\ x.msg = ReadyMessage(c, "Allow", reliable) /\ IsControl(y, "GraphDelta")
          /\ g2c' = Append(g2c, x) \/ g2c' = Append(Append(g2c, x), y)
  BY OpenedSends
<1>8. ASSUME NEW i \in DOMAIN g2c', About(g2c'[i], "ChannelReady", c), Connected'
      PROVE  g2c'[i].msg.reliable = reliable
  <2>1. (i \in DOMAIN g2c /\ g2c'[i] = g2c[i]) \/ g2c'[i] = x \/ g2c'[i] = y
    <3>1. CASE g2c' = Append(g2c, x)
      BY <1>1, <1>8, <3>1
    <3>2. CASE g2c' = Append(Append(g2c, x), y)
      <4>1. Append(g2c, x) \in Seq(ServerPacket)
        BY <1>1
      <4>2. (i \in DOMAIN Append(g2c, x) /\ g2c'[i] = Append(g2c, x)[i]) \/ g2c'[i] = y
        BY <1>8, <3>2, <4>1
      <4> QED  BY <1>1, <4>2
    <3> QED  BY <1>7, <3>1, <3>2
  <2>2. x.msg.reliable = reliable /\ ~About(y, "ChannelReady", c)
    BY <1>7 DEF ReadyMessage, IsControl, About
  <2> QED  BY <1>6, <1>8, <2>1, <2>2
<1>9. FlagsOf(c)'
  BY <1>1, <1>2, <1>5, <1>6, <1>8 DEF FlagsOf
<1>10. Stepwise(c2g', c, 0) /\ UpTo(c2g', c, 0, 0)
  BY <1>5 DEF Stepwise, UpTo
<1>11. ASSUME Connected' PROVE cActive[c].kind # "TopicPublish"
  BY <1>1, <1>6, <1>11 DEF WireInv, EngineInv, EngineTables, Connected, NoKind
<1>12. PublishedOf(c)'
  BY <1>1, <1>2, <1>10, <1>11 DEF PublishedOf
<1> QED  BY <1>9, <1>12

\* and one it releases carries none any more.
LEMMA ReleasedChannel ==
    ASSUME WireInv, FitInv, NEW p, Inbound(p), UNCHANGED clientVars,
           NEW c \in ChannelIds, Released(p, c)
    PROVE  FlagsOf(c)' /\ PublishedOf(c)'
<1>1. /\ gLoop = "running" /\ gLoop' = "running" /\ up /\ up' /\ c2g \in Seq(ClientPacket)
      /\ c2g # <<>> /\ p = Head(c2g) /\ c2g' = Tail(c2g) /\ g2c' = g2c
      /\ UNCHANGED <<cSession, cClosed, cActive>>
      /\ About(p, "CloseChannel", c)
      /\ gRuntime \in [ChannelIds -> Runtime \cup {NoRuntime}]
  BY GatewayTakes DEF clientVars, tableVars, Released, WireInv, GatewayInv, BackendTypes
<1>2. gRuntime'[c] = NoRuntime
  BY <1>1 DEF Released
<1>3. /\ \A i \in DOMAIN c2g' : /\ i + 1 \in DOMAIN c2g /\ c2g'[i] = c2g[i + 1]
                                /\ 1 \in 1 .. (i + 1) - 1
      /\ 1 \in DOMAIN c2g /\ c2g[1] = p
  BY <1>1, Taken
<1>4. \A i \in DOMAIN c2g' : ~IsSample(c2g'[i], c)
  BY <1>1, <1>3 DEF FitInv, OutFits, FitsOut, IsSample, OnChannel
<1>5. ASSUME Connected' PROVE cSession.chan[c].state = "Closed"
  BY <1>1, <1>3, <1>5 DEF WireInv, Agreeing, Joint, View, ExplainedOut, Connected
<1>6. ASSUME Connected', NEW i \in DOMAIN g2c PROVE ~About(g2c[i], "ChannelReady", c)
  BY <1>1, <1>5, <1>6 DEF FitInv, InFits, FitsIn, ChannelFits, Connected
<1>7. FlagsOf(c)'
  BY <1>1, <1>2, <1>4, <1>5, <1>6 DEF FlagsOf
<1>8. ASSUME Connected' PROVE cActive[c].kind # "TopicPublish"
  BY <1>1, <1>5, <1>8 DEF WireInv, EngineInv, EngineTables, Connected, NoKind
<1>9. PublishedOf(c)'
  BY <1>1, <1>2, <1>5, <1>8 DEF PublishedOf
<1> QED  BY <1>7, <1>9

\* No new answer that says channel d is open is on its way.
Silent(d) ==
    \A i \in DOMAIN g2c' :
        About(g2c'[i], "ChannelReady", d) /\ IsSuccess(g2c'[i].msg.result) =>
            i \in DOMAIN g2c /\ g2c'[i] = g2c[i]

\* x says that channel d is open.
Announces(x, d) == About(x, "ChannelReady", d) /\ IsSuccess(x.msg.result)

\* One packet that announces nothing,
LEMMA SilentOne ==
    ASSUME g2c \in Seq(ServerPacket), NEW x \in ServerPacket, g2c' = Append(g2c, x),
           NEW d, ~Announces(x, d)
    PROVE  Silent(d)
<1>1. \A i \in DOMAIN g2c' : (i \in DOMAIN g2c /\ g2c'[i] = g2c[i]) \/ g2c'[i] = x
  OBVIOUS
<1> QED  BY <1>1 DEF Silent, Announces

\* or two.
LEMMA SilentTwo ==
    ASSUME g2c \in Seq(ServerPacket), NEW x \in ServerPacket, NEW y \in ServerPacket,
           g2c' = Append(Append(g2c, x), y), NEW d, ~Announces(x, d), ~Announces(y, d)
    PROVE  Silent(d)
<1>1. Append(g2c, x) \in Seq(ServerPacket)
  OBVIOUS
<1>2. \A i \in DOMAIN g2c' :
         (i \in DOMAIN Append(g2c, x) /\ g2c'[i] = Append(g2c, x)[i]) \/ g2c'[i] = y
  BY <1>1
<1>3. \A i \in DOMAIN Append(g2c, x) :
         (i \in DOMAIN g2c /\ Append(g2c, x)[i] = g2c[i]) \/ Append(g2c, x)[i] = x
  OBVIOUS
<1> QED  BY <1>2, <1>3 DEF Silent, Announces

\* A report announces nothing.
LEMMA ReportedSilent ==
    ASSUME WireInv, NEW c \in ChannelIds, Reported(c), NEW d
    PROVE  Silent(d)
<1>1. CASE g2c' = g2c
  BY <1>1 DEF Silent
<1>2. CASE g2c' = Append(g2c, Control(ChannelError(c), gSeqOut))
  <2> DEFINE x == Control(ChannelError(c), gSeqOut)
  <2>1. g2c \in Seq(ServerPacket) /\ gSeqOut \in Nat
    BY DEF WireInv, LinkTypes, GatewayInv, ConnectionTypes
  <2>2. x \in ServerPacket /\ ~Announces(x, d)
    BY <2>1, GatewayMessages, ControlPacket DEF Announces, About, ChannelError
  <2> QED  BY <1>2, <2>1, <2>2, SilentOne
<1> QED  BY <1>1, <1>2 DEF Reported

\* What the handlers leave alone.
LEMMA GreetedKeeps ==
    ASSUME WireInv, NEW p, Inbound(p), Greeted(p), NEW d \in ChannelIds
    PROVE  Keeps(p, d)
<1>1. /\ g2c \in Seq(ServerPacket) /\ g2c' = Append(g2c, Bootstrap("ServerHello"))
      /\ p.plane = "bootstrap" /\ gRuntime' = gRuntime
  BY GatewayTakes DEF Greeted
<1>2. Bootstrap("ServerHello") \in ServerPacket /\ ~Announces(Bootstrap("ServerHello"), d)
  BY GatewayMessages DEF Bootstrap, Announces, About
<1>3. Silent(d)
  BY <1>1, <1>2, SilentOne
<1> QED  BY <1>1, <1>3 DEF Keeps, Silent, IsSample

\* Admitting a session keeps every channel,
LEMMA AdmittedKeeps ==
    ASSUME WireInv, NEW p, Inbound(p), Admitted(p), NEW d \in ChannelIds
    PROVE  Keeps(p, d)
<1> DEFINE m == [type |-> "GraphSnapshot", gen |-> 1]
           x == Control(SessionReady, gSeqOut)
           y == Control(m, gSeqOut + 1)
<1>1. /\ g2c \in Seq(ServerPacket) /\ g2c' = Append(Append(g2c, x), y)
      /\ gRuntime' = gRuntime /\ p.plane = "control" /\ gSeqOut \in Nat
  BY GatewayTakes DEF Admitted, IsControl
<1>2. gSeqOut + 1 \in Nat /\ m \in ServerControl /\ m.type = "GraphSnapshot"
  BY <1>1, GatewayMessages
<1> HIDE DEF m
<1>3. x \in ServerPacket /\ y \in ServerPacket
  BY <1>1, <1>2, GatewayMessages, ControlPacket
<1>4. ~Announces(x, d) /\ ~Announces(y, d)
  BY <1>2, ControlPacket DEF Announces, About, SessionReady
<1>5. Silent(d)
  BY <1>1, <1>3, <1>4, SilentTwo
<1> QED  BY <1>1, <1>5 DEF Keeps, Silent, IsSample

\* refusing an open too,
LEMMA RefusedKeeps ==
    ASSUME WireInv, NEW p, Inbound(p), NEW c \in ChannelIds, Refused(p, c),
           NEW d \in ChannelIds
    PROVE  Keeps(p, d)
<1> DEFINE m == ReadyMessage(c, "Error", FALSE)
           x == Control(m, gSeqOut)
<1>1. /\ g2c \in Seq(ServerPacket) /\ g2c' = Append(g2c, x)
      /\ gRuntime' = gRuntime /\ p.plane = "control" /\ gSeqOut \in Nat
  BY GatewayTakes DEF Refused, About
<1>2. m \in ServerControl /\ m.result = "Error"
  BY GatewayMessages DEF ReadyMessage
<1> HIDE DEF m
<1>3. x \in ServerPacket /\ ~Announces(x, d)
  BY <1>1, <1>2, ControlPacket DEF Announces, IsSuccess
<1>4. Silent(d)
  BY <1>1, <1>3, SilentOne
<1> QED  BY <1>1, <1>4 DEF Keeps, Silent, IsSample

\* granting one every other channel,
LEMMA OpenedKeeps ==
    ASSUME WireInv, NEW p, Inbound(p), NEW c \in ChannelIds, NEW reliable \in BOOLEAN,
           Opened(p, c, reliable), NEW d \in ChannelIds, d # c
    PROVE  Keeps(p, d)
<1>1. /\ g2c \in Seq(ServerPacket) /\ p.plane = "control"
      /\ gRuntime \in [ChannelIds -> Runtime \cup {NoRuntime}]
  BY GatewayTakes DEF Opened, About, WireInv, GatewayInv, BackendTypes
<1>2. gRuntime'[d] = gRuntime[d]
  BY <1>1 DEF Opened
<1>3. PICK x \in ServerPacket, y \in ServerPacket :
          /\ x.msg = ReadyMessage(c, "Allow", reliable) /\ IsControl(y, "GraphDelta")
          /\ g2c' = Append(g2c, x) \/ g2c' = Append(Append(g2c, x), y)
  BY OpenedSends
<1>4. x.msg.ch = c
  BY <1>3 DEF ReadyMessage
<1>5. ~Announces(x, d) /\ ~Announces(y, d)
  BY <1>3, <1>4 DEF Announces, About, IsControl
<1>6. Silent(d)
  BY <1>1, <1>3, <1>5, SilentOne, SilentTwo
<1> QED  BY <1>1, <1>2, <1>6 DEF Keeps, Silent, IsSample

\* so does closing one,
LEMMA ReleasedKeeps ==
    ASSUME WireInv, NEW p, Inbound(p), NEW c \in ChannelIds, Released(p, c),
           NEW d \in ChannelIds, d # c
    PROVE  Keeps(p, d)
<1>1. /\ g2c' = g2c /\ p.plane = "control"
      /\ gRuntime \in [ChannelIds -> Runtime \cup {NoRuntime}]
      /\ gRuntime' = [gRuntime EXCEPT ![c] = NoRuntime]
  BY DEF Released, About, WireInv, GatewayInv, BackendTypes
<1>2. gRuntime'[d] = gRuntime[d]
  BY <1>1
<1> QED  BY <1>1, <1>2 DEF Keeps, IsSample

\* an echo keeps them all,
LEMMA EchoedKeeps ==
    ASSUME WireInv, NEW p, Inbound(p), Echoed(p), NEW d \in ChannelIds
    PROVE  Keeps(p, d)
<1> DEFINE x == Control(Heartbeat, gSeqOut)
<1>1. /\ g2c \in Seq(ServerPacket) /\ g2c' = Append(g2c, x)
      /\ gRuntime' = gRuntime /\ p.plane = "control" /\ gSeqOut \in Nat
  BY GatewayTakes DEF Echoed, IsControl
<1>2. x \in ServerPacket /\ ~Announces(x, d)
  BY <1>1, GatewayMessages, ControlPacket DEF Announces, About, Heartbeat
<1>3. Silent(d)
  BY <1>1, <1>2, SilentOne
<1> QED  BY <1>1, <1>3 DEF Keeps, Silent, IsSample

\* a sample moves the number of its channel,
LEMMA SampleKeeps ==
    ASSUME WireInv, NEW p, Inbound(p), TookSample(p), NEW d \in ChannelIds
    PROVE  Keeps(p, d)
<1> DEFINE c == p.msg.ch
<1>1. /\ c \in ChannelIds /\ gRuntime[c] # NoRuntime /\ p.plane = "data"
      /\ p.msg.opcode = "ROS_SAMPLE" /\ p.seq = gRuntime[c].seqIn
      /\ gRuntime' = [gRuntime EXCEPT ![c].seqIn = p.seq + 1]
      /\ gRuntime \in [ChannelIds -> Runtime \cup {NoRuntime}]
      /\ Reported(c)
  BY TookDataActive DEF TookSample, TookData, WireInv, GatewayInv, BackendTypes
<1>2. Silent(d)
  BY <1>1, ReportedSilent
<1> HIDE DEF c
<1>3. IsSample(p, d) <=> d = c
  BY <1>1 DEF IsSample, c
<1>4. gRuntime[c] \in Runtime /\ gRuntime[c].kind # NoKind
  BY <1>1 DEF Runtime, NoKind, OperationKind
<1>5. CASE d = c
  <2>1. gRuntime'[c] = [gRuntime[c] EXCEPT !.seqIn = p.seq + 1]
    BY <1>1
  <2>2. /\ gRuntime'[c].kind = gRuntime[c].kind /\ gRuntime'[c].seqIn = p.seq + 1
        /\ gRuntime'[c].reliable = gRuntime[c].reliable
    BY <1>4, <2>1 DEF Runtime
  <2>3. gRuntime'[c] # NoRuntime
    BY <1>4, <2>2 DEF NoRuntime
  <2> QED  BY <1>1, <1>2, <1>3, <1>5, <2>2, <2>3 DEF Keeps, Silent
<1>6. CASE d # c
  <2>1. gRuntime'[d] = gRuntime[d]
    BY <1>1, <1>6
  <2> QED  BY <1>2, <1>3, <1>6, <2>1 DEF Keeps, Silent
<1> QED  BY <1>5, <1>6

\* and an operation moves none.
LEMMA OperationKeeps ==
    ASSUME WireInv, NEW p, Inbound(p), TookOperation(p), NEW d \in ChannelIds
    PROVE  Keeps(p, d)
<1>1. /\ p.msg.ch \in ChannelIds /\ p.plane = "data" /\ g2c \in Seq(ServerPacket)
      /\ p.msg.opcode \in ServiceActionOpcode /\ SameRuntime(d)
  BY TookDataActive, GatewayTakes DEF TookOperation, TookData
<1>2. Silent(d)
  <2>1. CASE Reported(p.msg.ch)
    BY <1>1, <2>1, ReportedSilent
  <2>2. CASE \E f \in Frame : \E n \in Nat : g2c' = Append(g2c, Data(f, n))
    <3>1. PICK f \in Frame, n \in Nat : g2c' = Append(g2c, Data(f, n))
      BY <2>2
    <3>2. Data(f, n) \in ServerPacket /\ ~Announces(Data(f, n), d)
      BY DataPacket DEF Announces, About
    <3> QED  BY <1>1, <3>1, <3>2, SilentOne
  <2> QED  BY <2>1, <2>2 DEF TookOperation
<1>3. ~IsSample(p, d)
  BY <1>1 DEF IsSample, ServiceActionOpcode
<1> QED  BY <1>1, <1>2, <1>3 DEF Keeps, Silent, SameRuntime

\* How the gateway's session moves when it takes a packet and goes on.
LEMMA TakingTables ==
    ASSUME WireInv, FitInv, NEW p, Inbound(p), Taking(p), gLoop' = "running"
    PROVE  /\ GatewayTables'
           /\ gSession.phase = "Ready" => gSession'.phase = "Ready"
           /\ \A d \in ChannelIds : \/ gSession'.chan[d] = gSession.chan[d]
                                    \/ About(p, "OpenChannel", d)
                                    \/ About(p, "CloseChannel", d)
<1>1. /\ gLoop = "running" /\ gSession \in Shape
      /\ gRuntime \in [ChannelIds -> Runtime \cup {NoRuntime}]
  BY GatewayTakes DEF WireInv, GatewayInv, BackendTypes
<1>2. /\ gGeneration = gSession.generation
      /\ \A c \in ChannelIds :
            /\ gSession.chan[c].state # "Unused" => gSession.phase = "Ready"
            /\ gRuntime[c] # NoRuntime => gRuntime[c].kind = gSession.chan[c].kind
  BY <1>1 DEF FitInv, GatewayTables
<1>3. CASE Greeted(p)
  BY <1>2, <1>3 DEF Greeted, Rephased, GatewayTables
<1>4. CASE Admitted(p)
  BY <1>2, <1>4 DEF Admitted, GatewayTables
<1>5. CASE \E c \in ChannelIds : Refused(p, c)
  <2>1. PICK c \in ChannelIds : Refused(p, c)
    BY <1>5
  <2>2. gRuntime[c] = NoRuntime
    BY <1>1, <2>1 DEF WireInv, GatewayInv, EntitiesOwned, Refused
  <2> QED  BY <1>2, <2>1, <2>2 DEF Refused, Turned, GatewayTables
<1>6. CASE \E c \in ChannelIds, reliable \in BOOLEAN : Opened(p, c, reliable)
  <2>1. PICK c \in ChannelIds, reliable \in BOOLEAN : Opened(p, c, reliable)
    BY <1>6
  <2>2. /\ gRuntime'[c].kind = p.msg.kind
        /\ \A d \in ChannelIds : d # c => gRuntime'[d] = gRuntime[d]
    BY <1>1, <2>1 DEF Opened, NewRuntime
  <2> QED  BY <1>2, <2>1, <2>2 DEF Opened, Turned, GatewayTables
<1>7. CASE \E c \in ChannelIds : Released(p, c)
  <2>1. PICK c \in ChannelIds : Released(p, c)
    BY <1>7
  <2>2. /\ gRuntime'[c] = NoRuntime
        /\ \A d \in ChannelIds : d # c => gRuntime'[d] = gRuntime[d]
    BY <1>1, <2>1 DEF Released
  <2> QED  BY <1>2, <2>1, <2>2 DEF Released, Turned, GatewayTables
<1>8. CASE Echoed(p)
  BY <1>2, <1>8 DEF Echoed, GatewayTables
<1>9. CASE TookSample(p)
  <2>1. /\ p.msg.ch \in ChannelIds /\ gRuntime[p.msg.ch] # NoRuntime
        /\ UNCHANGED <<gSession, gGeneration>>
        /\ gRuntime' = [gRuntime EXCEPT ![p.msg.ch].seqIn = p.seq + 1]
    BY <1>9, TookDataActive DEF TookSample, TookData
  <2>2. gRuntime[p.msg.ch] \in Runtime
    BY <1>1, <2>1
  <2>3. gRuntime'[p.msg.ch] = [gRuntime[p.msg.ch] EXCEPT !.seqIn = p.seq + 1]
        /\ \A d \in ChannelIds : d # p.msg.ch => gRuntime'[d] = gRuntime[d]
    BY <1>1, <2>1
  <2>4. gRuntime'[p.msg.ch].kind = gRuntime[p.msg.ch].kind
    BY <2>2, <2>3 DEF Runtime
  <2> QED  BY <1>2, <2>1, <2>3, <2>4 DEF GatewayTables
<1>10. CASE TookOperation(p)
  BY <1>2, <1>10 DEF TookOperation, TookData, SameRuntime, GatewayTables
<1> QED  BY <1>3, <1>4, <1>5, <1>6, <1>7, <1>8, <1>9, <1>10 DEF Taking, Ended

\* Taking a packet keeps what is left fitting.
LEMMA FitTaking ==
    ASSUME WireInv, FitInv, NEW p, Inbound(p), Taking(p), UNCHANGED clientVars
    PROVE  FitInv'
<1>1. InFits'
  BY TakingFits
<1>2. CASE gLoop' # "running"
  BY <1>1, <1>2, FitEnded
<1>3. CASE gLoop' = "running"
  <2>1. /\ gLoop = "running" /\ c2g \in Seq(ClientPacket) /\ c2g # <<>>
        /\ p = Head(c2g) /\ c2g' = Tail(c2g)
    BY GatewayTakes
  <2>2. GatewayTables'
    BY <1>3, TakingTables
  <2>3. OutFits'
    <3>1. \A i \in DOMAIN c2g : FitsOut(gSession, c2g, i)
      BY <2>1 DEF FitInv, OutFits
    <3>2. /\ gSession.phase = "Ready" => gSession'.phase = "Ready"
          /\ \A d \in ChannelIds : \/ gSession'.chan[d] = gSession.chan[d]
                                   \/ About(Head(c2g), "OpenChannel", d)
                                   \/ About(Head(c2g), "CloseChannel", d)
      BY <1>3, <2>1, TakingTables
    <3>3. \A i \in DOMAIN Tail(c2g) : FitsOut(gSession', Tail(c2g), i)
      BY <2>1, <3>1, <3>2, FitsOutTaken
    <3> QED  BY <2>1, <3>3 DEF OutFits
  <2>4. ASSUME NEW d \in ChannelIds PROVE FlagsOf(d)' /\ PublishedOf(d)'
    <3>1. CASE Keeps(p, d)
      BY <1>3, <3>1, KeptChannel
    <3>2. CASE \E reliable \in BOOLEAN : Opened(p, d, reliable)
      BY <3>2, OpenedChannel
    <3>3. CASE Released(p, d)
      BY <3>3, ReleasedChannel
    <3>4. \/ Keeps(p, d) \/ Released(p, d)
          \/ \E reliable \in BOOLEAN : Opened(p, d, reliable)
      BY <1>3, GreetedKeeps, AdmittedKeeps, RefusedKeeps, OpenedKeeps, ReleasedKeeps,
         EchoedKeeps, SampleKeeps, OperationKeeps DEF Taking, Ended
    <3> QED  BY <3>1, <3>2, <3>3, <3>4
  <2> QED  BY <1>1, <2>2, <2>3, <2>4 DEF FitInv, Flags, Published
<1> QED  BY <1>2, <1>3

-----------------------------------------------------------------------------
(* The gateway forwards what the backend queued. *)

\* It sends nothing, or a data frame its session lets it send.
Forwards ==
    /\ gLoop = "running" /\ UNCHANGED <<gSession, gLoop, gGeneration, c2g, up>>
    /\ \A d \in ChannelIds : /\ gRuntime'[d] = NoRuntime <=> gRuntime[d] = NoRuntime
                             /\ gRuntime'[d].kind = gRuntime[d].kind
                             /\ gRuntime'[d].entity = gRuntime[d].entity
                             /\ gRuntime'[d].reliable = gRuntime[d].reliable
                             /\ gRuntime'[d].seqIn = gRuntime[d].seqIn
    /\ \/ g2c' = g2c
       \/ /\ up
          /\ \E f \in Frame : \E n \in Nat :
                AcceptsData(gSession, f, Server) /\ g2c' = Append(g2c, Data(f, n))

\* Forwarding from a queue does too.
LEMMA FitForwards ==
    ASSUME WireInv, FitInv, Forwards, UNCHANGED clientVars
    PROVE  FitInv'
<1>1. /\ gLoop = "running" /\ UNCHANGED <<gSession, gLoop, gGeneration, c2g, up>>
      /\ UNCHANGED <<cSession, cClosed, cActive>> /\ g2c \in Seq(ServerPacket)
  BY DEF Forwards, clientVars, tableVars, WireInv, LinkTypes
<1>2. InFits'
  <2>1. CASE g2c' = g2c
    BY <1>1, <2>1 DEF FitInv, InFits
  <2>2. CASE g2c' # g2c
    BY <1>1, <2>2, FrameFits DEF Forwards
  <2> QED  BY <2>1, <2>2
<1>3. GatewayTables'
  BY <1>1 DEF FitInv, GatewayTables, Forwards
<1>4. OutFits'
  BY <1>1 DEF FitInv, OutFits
<1>5. ASSUME NEW d \in ChannelIds PROVE FlagsOf(d)' /\ PublishedOf(d)'
  <2>1. Connected' = Connected /\ FlagsOf(d) /\ PublishedOf(d)
    BY <1>1 DEF Connected, FitInv, Flags, Published
  <2>2. Silent(d)
    <3>1. CASE g2c' = g2c
      BY <3>1 DEF Silent
    <3>2. CASE \E f \in Frame : \E n \in Nat : g2c' = Append(g2c, Data(f, n))
      <4>1. PICK f \in Frame, n \in Nat : g2c' = Append(g2c, Data(f, n))
        BY <3>2
      <4>2. Data(f, n) \in ServerPacket /\ ~Announces(Data(f, n), d)
        BY DataPacket DEF Announces, About
      <4> QED  BY <1>1, <4>1, <4>2, SilentOne
    <3> QED  BY <3>1, <3>2 DEF Forwards
  <2>3. /\ gRuntime'[d] = NoRuntime <=> gRuntime[d] = NoRuntime
        /\ gRuntime'[d].reliable = gRuntime[d].reliable
        /\ gRuntime'[d].seqIn = gRuntime[d].seqIn
    BY DEF Forwards
  <2>4. FlagsOf(d)'
    BY <1>1, <2>1, <2>2, <2>3 DEF FlagsOf, Silent
  <2>5. PublishedOf(d)'
    BY <1>1, <2>1, <2>3 DEF PublishedOf
  <2> QED  BY <2>4, <2>5
<1> QED  BY <1>2, <1>3, <1>4, <1>5 DEF FitInv, Flags, Published

\* The frames the backend's queues hold are ones the session lets it send.
LEMMA ForwardedAccepted ==
    ASSUME WireInv, FitInv, gLoop = "running", NEW f \in Frame, gRuntime[f.ch] # NoRuntime,
           \/ gRuntime[f.ch].kind = "TopicSubscribe" /\ f.opcode = "ROS_SAMPLE"
           \/ /\ gRuntime[f.ch].kind = "ServiceServer" /\ f.opcode = "SERVICE_REQUEST"
              /\ f.reliable
           \/ /\ gRuntime[f.ch].kind = "ActionServer"
              /\ f.opcode \in {"ACTION_GOAL", "ACTION_CANCEL"} /\ f.reliable
    PROVE  AcceptsData(gSession, f, Server)
<1>1. f.ch \in ChannelIds
  BY DEF Frame
<1>2. /\ gSession.chan[f.ch].state = "Active" /\ gSession.phase = "Ready"
      /\ gSession.chan[f.ch].kind = gRuntime[f.ch].kind
  BY <1>1 DEF FitInv, GatewayTables, WireInv, GatewayInv, EntitiesOwned
<1>3. Server \in OpcodeSenders(gSession.chan[f.ch].kind, f.opcode)
  BY <1>2 DEF OpcodeSenders, OperationKind, Role, Server, Client
<1>4. ASSUME f.opcode \in ServiceActionOpcode
      PROVE  f.opid # "none" /\ f.opid # "zero"
  BY <1>4, OperationFrame, WireAssumption
<1>5. f.opcode \in ReliableRequired => f.reliable
  BY DEF ReliableRequired
<1> QED  BY <1>1, <1>2, <1>3, <1>4, <1>5 DEF AcceptsData

\* A runtime whose counter of samples, or of an operation, has moved.
LEMMA CounterMoved ==
    ASSUME WireInv, NEW c \in ChannelIds, gRuntime[c] # NoRuntime, NEW v,
           \/ gRuntime' = [gRuntime EXCEPT ![c] = [gRuntime[c] EXCEPT !.seqOut = v]]
           \/ gRuntime' = [gRuntime EXCEPT ![c] = [gRuntime[c] EXCEPT !.opOut = v]],
           NEW d \in ChannelIds
    PROVE  /\ gRuntime'[d] = NoRuntime <=> gRuntime[d] = NoRuntime
           /\ gRuntime'[d].kind = gRuntime[d].kind
           /\ gRuntime'[d].entity = gRuntime[d].entity
           /\ gRuntime'[d].reliable = gRuntime[d].reliable
           /\ gRuntime'[d].seqIn = gRuntime[d].seqIn
<1>1. gRuntime \in [ChannelIds -> Runtime \cup {NoRuntime}] /\ gRuntime[c] \in Runtime
  BY DEF WireInv, GatewayInv, BackendTypes
<1>2. CASE d # c
  BY <1>1, <1>2
<1>3. CASE d = c
  <2> DEFINE rt == gRuntime[c]
  <2>1. gRuntime'[c] = [rt EXCEPT !.seqOut = v] \/ gRuntime'[c] = [rt EXCEPT !.opOut = v]
    BY <1>1
  <2> HIDE DEF rt
  <2>2. rt \in Runtime
    BY <1>1 DEF rt
  <2>3. /\ gRuntime'[c].kind = rt.kind /\ gRuntime'[c].entity = rt.entity
        /\ gRuntime'[c].reliable = rt.reliable /\ gRuntime'[c].seqIn = rt.seqIn
    BY <2>1, <2>2 DEF Runtime
  <2>4. rt.kind # NoKind
    BY <2>2 DEF Runtime, OperationKind, NoKind
  <2>5. gRuntime'[c] # NoRuntime
    BY <2>3, <2>4 DEF NoRuntime
  <2> QED  BY <1>3, <2>3, <2>5 DEF rt
<1> QED  BY <1>2, <1>3

\* admit_sample
LEMMA SampleForwards ==
    ASSUME WireInv, FitInv, NEW fits \in BOOLEAN, GatewaySample(fits)
    PROVE  Forwards
<1> DEFINE x == Head(gSamples)
           c == x.ch
           rt == gRuntime[c]
           f == Sample(c, rt.reliable, x.from)
<1>1. /\ gLoop = "running" /\ gSamples # <<>>
      /\ UNCHANGED <<gSession, gLoop, gGeneration, c2g, up>>
      /\ \/ UNCHANGED <<gRuntime, g2c>>
         \/ /\ rt.kind = "TopicSubscribe"
            /\ gRuntime' = [gRuntime EXCEPT ![c] = [rt EXCEPT !.seqOut = rt.seqOut + 1]]
            /\ g2c' = g2c \/ (up /\ g2c' = g2c \o <<Data(f, rt.seqOut)>>)
  BY DEF GatewaySample, Sent
<1>2. /\ gSamples \in Seq([ch : ChannelIds, from : Nat])
      /\ gRuntime \in [ChannelIds -> Runtime \cup {NoRuntime}]
      /\ g2c \in Seq(ServerPacket)
  BY DEF WireInv, GatewayInv, BackendTypes, LinkTypes
<1>3. x \in [ch : ChannelIds, from : Nat]
  BY <1>1, <1>2, Taken
<1>4. c \in ChannelIds /\ x.from \in Nat
  BY <1>3
<1> HIDE DEF x, c
<1>5. CASE UNCHANGED <<gRuntime, g2c>>
  BY <1>1, <1>5 DEF Forwards
<1>6. CASE /\ rt.kind = "TopicSubscribe"
           /\ gRuntime' = [gRuntime EXCEPT ![c] = [rt EXCEPT !.seqOut = rt.seqOut + 1]]
           /\ g2c' = g2c \/ (up /\ g2c' = g2c \o <<Data(f, rt.seqOut)>>)
  <2>1. rt # NoRuntime
    BY <1>6 DEF NoRuntime, NoKind
  <2>2. rt \in Runtime /\ rt.reliable \in BOOLEAN /\ rt.seqOut \in Nat
    BY <1>2, <1>4, <2>1 DEF Runtime
  <2>3. f \in Frame /\ f.ch = c /\ f.opcode = "ROS_SAMPLE"
    BY <1>4, <2>2 DEF Sample, Frame
  <2> HIDE DEF f
  <2>4. AcceptsData(gSession, f, Server)
    BY <1>1, <1>6, <2>1, <2>3, ForwardedAccepted
  <2>5. Data(f, rt.seqOut) \in ServerPacket
    BY <2>2, <2>3, DataPacket
  <2>6. g2c' = g2c \/ (up /\ g2c' = Append(g2c, Data(f, rt.seqOut)))
    BY <1>2, <1>6, <2>5, SentOne
  <2>7. ASSUME NEW d \in ChannelIds
        PROVE  /\ gRuntime'[d] = NoRuntime <=> gRuntime[d] = NoRuntime
               /\ gRuntime'[d].kind = gRuntime[d].kind
               /\ gRuntime'[d].entity = gRuntime[d].entity
               /\ gRuntime'[d].reliable = gRuntime[d].reliable
               /\ gRuntime'[d].seqIn = gRuntime[d].seqIn
    BY <1>4, <1>6, <2>1, CounterMoved
  <2> HIDE DEF rt
  <2> QED  BY <1>1, <2>2, <2>3, <2>4, <2>6, <2>7 DEF Forwards
<1> QED  BY <1>1, <1>5, <1>6

\* push_service_request, push_action_inbound
LEMMA InboundForwards ==
    ASSUME WireInv, FitInv, NEW x, x.ch \in ChannelIds, x.opid \in OpIds,
           NEW kind, NEW opcode, PushInbound(x, kind, opcode),
           \/ kind = "ServiceServer" /\ opcode = "SERVICE_REQUEST"
           \/ kind = "ActionServer" /\ opcode \in {"ACTION_GOAL", "ACTION_CANCEL"},
           gLoop = "running", UNCHANGED <<gGeneration, c2g, up>>
    PROVE  Forwards
<1> DEFINE c == x.ch
           rt == gRuntime[c]
           f == Operation(opcode, c, x.opid, TRUE)
           n == rt.opOut[x.opid]
           out == [rt.opOut EXCEPT ![x.opid] = @ + 1]
<1>1. /\ gRuntime \in [ChannelIds -> Runtime \cup {NoRuntime}]
      /\ g2c \in Seq(ServerPacket) /\ gSession \in Shape
  BY DEF WireInv, GatewayInv, BackendTypes, LinkTypes, ConnectionTypes
<1>2. CASE rt.kind # kind
  <2>1. Finish(Outcome(gSession)) /\ gRuntime' = gRuntime
    BY <1>2 DEF PushInbound
  <2>2. gSession' = gSession /\ g2c' = g2c /\ gLoop' = "running"
    BY <1>1, <2>1 DEF Finish, Outcome, Sent
  <2> QED  BY <2>1, <2>2 DEF Forwards
<1>3. CASE rt.kind = kind
  <2>1. rt # NoRuntime
    BY <1>3 DEF NoRuntime, NoKind
  <2>2. rt \in Runtime
    BY <1>1, <2>1
  <2>3. /\ Finish(PushFrame(Outcome(gSession), f, n))
        /\ gRuntime' = [gRuntime EXCEPT ![c] = [rt EXCEPT !.opOut = out]]
    BY <1>1, <1>3 DEF PushInbound
  <2>4. f \in Frame /\ f.ch = c /\ f.opcode = opcode /\ f.reliable
    BY DEF Operation, Frame, ServiceActionOpcode
  <2>5. n \in Nat
    BY <2>2, OperationCounted
  <2> HIDE DEF f, n, out
  <2>6. AcceptsData(gSession, f, Server)
    BY <1>3, <2>1, <2>4, ForwardedAccepted
  <2>7. /\ gSession' = gSession /\ gLoop' = "running"
        /\ up => g2c' = Append(g2c, Data(f, n))
        /\ ~up => g2c' = g2c
    <3>1. Outcome(gSession).session = gSession /\ Outcome(gSession).close = FALSE
          /\ PushFrame(Outcome(gSession), f, n).session = gSession
          /\ PushFrame(Outcome(gSession), f, n).close = FALSE
      BY <2>6 DEF Outcome, PushFrame
    <3>2. gSession' = gSession /\ gLoop' = "running" /\ (~up => g2c' = g2c)
      BY <2>3, <3>1 DEF Finish, Sent
    <3>3. up => g2c' = Append(g2c, Data(f, n))
      BY <1>1, <2>3, <2>4, <2>5, <2>6, FinishedFrame
    <3> QED  BY <3>2, <3>3
  <2>8. ASSUME NEW d \in ChannelIds
        PROVE  /\ gRuntime'[d] = NoRuntime <=> gRuntime[d] = NoRuntime
               /\ gRuntime'[d].kind = gRuntime[d].kind
               /\ gRuntime'[d].entity = gRuntime[d].entity
               /\ gRuntime'[d].reliable = gRuntime[d].reliable
               /\ gRuntime'[d].seqIn = gRuntime[d].seqIn
    BY <2>1, <2>3, CounterMoved
  <2> HIDE DEF rt
  <2> QED  BY <2>4, <2>5, <2>6, <2>7, <2>8 DEF Forwards
<1> QED  BY <1>2, <1>3

\* Each of the forwarding branches of the loop comes to that.
LEMMA ForwardForwards ==
    ASSUME WireInv, FitInv, GatewayForward
    PROVE  Forwards
<1>1. Outcomes \subseteq BOOLEAN
  BY DEF Outcomes
<1>2. CASE \E fits \in Outcomes : GatewaySample(fits)
  BY <1>1, <1>2, SampleForwards
<1>3. CASE GatewayRequest
  <2>1. gRequests \in Seq([ch : ChannelIds, opid : OpIds]) /\ gRequests # <<>>
    BY <1>3 DEF GatewayRequest, WireInv, GatewayInv, BackendTypes
  <2>2. Head(gRequests) \in [ch : ChannelIds, opid : OpIds]
    BY <2>1, Taken
  <2> QED  BY <1>3, <2>2, InboundForwards DEF GatewayRequest
<1>4. CASE GatewayGoal
  <2> DEFINE Item == [ch : ChannelIds, opcode : {"ACTION_GOAL", "ACTION_CANCEL"},
                      opid : OpIds]
  <2>1. gGoals \in Seq(Item) /\ gGoals # <<>>
    BY <1>4 DEF GatewayGoal, WireInv, GatewayInv, BackendTypes
  <2>2. Head(gGoals) \in Item
    BY <2>1, Taken
  <2> QED  BY <1>4, <2>2, InboundForwards DEF GatewayGoal
<1> QED  BY <1>2, <1>3, <1>4 DEF GatewayForward

-----------------------------------------------------------------------------

\* Every step keeps both streams fitting.
LEMMA FitStep ==
    ASSUME WireInv, FitInv, [Next]_vars
    PROVE  FitInv'
<1>1. CASE App
  BY <1>1, FitApp
<1>2. CASE EngineReceive
  BY <1>2, FitReceive DEF EngineReceive
<1>3. CASE GatewayReceive
  BY <1>3, PacketTaken, FitTaking DEF GatewayReceive
<1>4. CASE GatewayForward
  BY <1>4, ForwardForwards, FitForwards DEF GatewayForward
<1>5. CASE GatewayLeave
  <2>1. gLoop' # "running" /\ UNCHANGED <<clientVars, g2c>>
    BY <1>5 DEF GatewayLeave, GatewayTransportGone, GatewayTeardown, linkVars
  <2>2. InFits'
    BY <2>1 DEF FitInv, InFits, clientVars
  <2> QED  BY <2>1, <2>2, FitEnded
<1>6. CASE Graph
  BY <1>6, FitSame DEF Graph, BackendSample, BackendRequest, BackendGoal, linkVars,
     clientVars, tableVars
<1>7. CASE Lose
  BY <1>7, FitLost DEF Lose, TransportLost, gatewayVars
<1>8. CASE UNCHANGED vars
  BY <1>8, FitSame DEF vars, clientVars, gatewayVars, linkVars, tableVars
<1> QED  BY <1>1, <1>2, <1>3, <1>4, <1>5, <1>6, <1>7, <1>8 DEF Next

\* What every reachable state satisfies.
FullInv == WireInv /\ FitInv

\* The whole inductive invariant.
LEMMA FullInvariant == Spec => []FullInv
<1>1. Init => FullInv
  BY WireInitially, FitInitially DEF FullInv
<1>2. FullInv /\ [Next]_vars => FullInv'
  BY WireStep, FitStep DEF FullInv
<1> QED  BY <1>1, <1>2, PTL DEF Spec

\* Only a handler that ends the session leaves the loop while the transport
\* is up.
LEMMA LoopLeft ==
    ASSUME WireInv, FitInv, [Next]_vars,
           gLoop = "running", gLoop' = "closing", up, gSession.phase = "Ready"
    PROVE  c2g # <<>> /\ Cause(Head(c2g))
<1>1. CASE GatewayReceive
  <2>1. Taking(Head(c2g)) /\ c2g # <<>>
    BY <1>1, PacketTaken DEF GatewayReceive
  <2>2. Ended(Head(c2g))
    BY <2>1 DEF Taking, Greeted, Admitted, Refused, Released, Opened, Echoed, TookSample,
       TookOperation, TookData
  <2> QED  BY <2>1, <2>2 DEF Ended
<1>2. CASE GatewayForward
  BY <1>2, ForwardForwards DEF Forwards
<1>3. CASE GatewayLeave
  BY <1>3 DEF GatewayLeave, GatewayTransportGone, GatewayTeardown
<1>4. CASE App
  BY <1>4 DEF App, AppStart, AppAuthenticate, AppOpen, AppUnsubscribe, AppPublish, AppCall,
     AppCancel, AppReply, AppMisuse, AppTick, AppClose, gatewayVars
<1>5. CASE EngineReceive \/ Lose \/ UNCHANGED vars
  BY <1>5 DEF EngineReceive, Lose, vars, gatewayVars
<1>6. CASE Graph
  BY <1>6 DEF Graph, BackendSample, BackendRequest, BackendGoal
<1> QED  BY <1>1, <1>2, <1>3, <1>4, <1>5, <1>6 DEF Next

(***************************************************************************)
(* Whatever the application commands, in whatever order, and whatever the  *)
(* backend refuses: the only packet that makes the gateway give up a ready *)
(* session is an operation frame out of its operation's sequence.          *)
(***************************************************************************)
THEOREM GatewayHasCause == Spec => GatewayClosesForCause
<1>1. FullInv /\ [Next]_vars =>
         [ /\ gLoop = "running" /\ gLoop' = "closing"
           /\ up /\ gSession.phase = "Ready"
           => /\ c2g # <<>>
              /\ Head(c2g).plane = "data"
              /\ Head(c2g).msg.opcode \in ServiceActionOpcode
              /\ Head(c2g).seq # gRuntime[Head(c2g).msg.ch].opIn[Head(c2g).msg.opid]
         ]_vars
  BY LoopLeft DEF FullInv, Cause
<1> QED  BY <1>1, FullInvariant, PTL DEF Spec, GatewayClosesForCause

\* A control message that fits a ready engine is one its session accepts.
LEMMA FittingControl ==
    ASSUME WireInv, FitInv, ~cClosed, g2c # <<>>, cSession.phase = "Ready",
           Head(g2c).plane = "control", Head(g2c).msg.type # "Error"
    PROVE  AcceptsControl(cSession, Head(g2c).msg, Server)
<1> DEFINE h == Head(g2c)
           m == h.msg
<1>1. /\ h \in ServerPacket /\ h = g2c[1] /\ 1 \in DOMAIN g2c /\ 1 .. 1 - 1 = {}
      /\ ReadyFits(cSession, g2c, 1) /\ DeltaFits(cSession, g2c, 1)
      /\ \A c \in ChannelIds : ChannelFits(cSession, g2c, 1, c)
  BY EngineHeadFits
<1>2. m \in ServerControl
  BY <1>1, ServerPacketTypes
<1> HIDE DEF h
<1>3. /\ m.type \in {"SessionReady", "Heartbeat", "GraphSnapshot", "GraphDelta",
                     "ChannelReady"}
      /\ m.type = "ChannelReady" => m.ch \in ChannelIds
  BY <1>2, ServerControlTypes DEF h
<1>4. h.plane = "control" /\ m.type # "Error"
  BY DEF h
<1>5. m.type # "SessionReady"
  BY <1>1, <1>4 DEF ReadyFits, IsControl
<1>6. ASSUME m.type = "ChannelReady" PROVE cSession.chan[m.ch].state = "Pending"
  BY <1>1, <1>3, <1>4, <1>6 DEF ChannelFits, About
<1>7. ASSUME m.type = "GraphDelta"
      PROVE  /\ m.base # NoGeneration /\ m.gen = SaturatingSucc(m.base)
             /\ m.base = cSession.generation
  BY <1>1, <1>4, <1>7 DEF DeltaFits, IsControl
<1>8. AcceptsControl(cSession, m, Server)
  BY <1>3, <1>5, <1>6, <1>7 DEF AcceptsControl, ControlSenders, IsTerminal, InSelectedPlane,
     ReadyRequired, Role, Server, Client, AcceptsChannelReady, AcceptsGraphDelta
<1> QED  BY <1>8 DEF h

\* A data frame that fits a ready engine is one its session accepts, unless
\* the engine has closed the channel.
LEMMA FittingData ==
    ASSUME WireInv, FitInv, ~cClosed, g2c # <<>>, cSession.phase = "Ready",
           Head(g2c).plane = "data", cSession.chan[Head(g2c).msg.ch].state # "Closed"
    PROVE  AcceptsData(cSession, Head(g2c).msg, Server)
<1> DEFINE h == Head(g2c)
           f == h.msg
<1>1. /\ h \in ServerPacket /\ h = g2c[1] /\ 1 .. 1 - 1 = {}
      /\ \A c \in ChannelIds : ChannelFits(cSession, g2c, 1, c)
  BY EngineHeadFits
<1>2. f.ch \in ChannelIds
  BY <1>1 DEF ServerPacket, Frame
<1> HIDE DEF h
<1>3. OnChannel(g2c[1], f.ch) /\ g2c[1].msg = f
  BY <1>1 DEF OnChannel, h
<1>4. /\ cSession.chan[f.ch].state = "Active"
      /\ Server \in OpcodeSenders(cSession.chan[f.ch].kind, f.opcode)
      /\ f.opcode \in ServiceActionOpcode =>
            f.opid # "none" /\ (f.opid = "zero" => f.opcode = "ACTION_STATUS")
      /\ f.opcode \in ReliableRequired => f.reliable
  BY <1>1, <1>2, <1>3 DEF ChannelFits, h
<1>5. AcceptsData(cSession, f, Server)
  BY <1>2, <1>4 DEF AcceptsData
<1> QED  BY <1>5 DEF h

\* The packet that stops a ready engine.
Stopper ==
    \/ Head(g2c).plane = "control" /\ Head(g2c).msg.type = "Error"
    \/ Head(g2c).plane = "data" /\ cSession.chan[Head(g2c).msg.ch].state = "Closed"

\* The engine stops in a ready session only for what a stopper says.
LEMMA EngineStopped ==
    ASSUME WireInv, FitInv, ClientReceive, ~cClosed, cClosed', cSession.phase = "Ready"
    PROVE  Stopper
<1> DEFINE h == Head(g2c)
<1>1. g2c # <<>>
  BY DEF ClientReceive, ClientReceiveBad, ClientReceiveBootstrap, ClientReceiveData,
     ClientDiscard
<1>2. h \in ServerPacket /\ h.plane # "bootstrap"
  BY <1>1, EngineHeadFits DEF ReadyFits, InSelectedPlane
<1>3. h.plane \in {"control", "data"}
  BY <1>2, ServerPacketTypes
<1>4. CASE ClientReceiveBad
  <2> DEFINE refused == \/ (~InSelectedPlane(cSession.phase)) # (h.plane = "bootstrap")
                        \/ h.plane = "bootstrap" /\ ~AcceptsBootstrap(cSession, h.msg, Server)
                        \/ h.plane = "control" /\ ~AcceptsControl(cSession, h.msg, Server)
                        \/ h.plane = "data" /\ ~AcceptsData(cSession, h.msg, Server)
  <2>1. refused \/ (h.plane = "control" /\ h.seq # cSeqIn)
    BY <1>4 DEF ClientReceiveBad
  <2>2. InSelectedPlane(cSession.phase)
    BY DEF InSelectedPlane
  <2>3. \/ h.plane = "control" /\ ~AcceptsControl(cSession, h.msg, Server)
        \/ h.plane = "data" /\ ~AcceptsData(cSession, h.msg, Server)
    BY <1>1, <1>2, <2>1, <2>2, EngineInSequence
  <2>4. CASE h.plane = "control" /\ ~AcceptsControl(cSession, h.msg, Server)
    BY <1>1, <2>4, FittingControl DEF Stopper
  <2>5. CASE h.plane = "data" /\ ~AcceptsData(cSession, h.msg, Server)
    BY <1>1, <2>5, FittingData DEF Stopper
  <2> QED  BY <2>3, <2>4, <2>5
<1>5. CASE ClientReceiveBootstrap
  BY <1>2, <1>5 DEF ClientReceiveBootstrap
<1>6. CASE \E m : ClientError(m)
  BY <1>6 DEF ClientError, ClientAcceptsControl, Stopper
<1>7. CASE ClientHeartbeatEcho \/ ClientReceiveData \/ ClientDiscard
           \/ \E m : ClientChannelReady(m) \/ ClientOtherControl(m)
  BY <1>7 DEF ClientHeartbeatEcho, ClientReceiveData, ClientDiscard, ClientChannelReady,
     ClientOtherControl
<1> QED  BY <1>4, <1>5, <1>6, <1>7 DEF ClientReceive

\* A command leaves alone what is on its way to the engine.
LEMMA CommandsOnlySend ==
    ASSUME App
    PROVE  g2c' = g2c
<1>1. ASSUME NEW m, NEW pending, NEW active, ClientCommand(m, pending, active)
      PROVE  g2c' = g2c
  BY <1>1 DEF ClientCommand, ClientFail, linkVars
<1>2. CASE AppStart \/ AppAuthenticate \/ AppTick \/ AppClose
  BY <1>1, <1>2 DEF AppStart, AppAuthenticate, AppTick, AppClose, ClientStart,
     ClientAuthenticate, ClientHeartbeat, ClientClose, linkVars
<1>3. CASE \E c \in ChannelIds, kind \in Kinds : AppOpen(c, kind)
  BY <1>1, <1>3 DEF AppOpen, ClientOpen
<1>4. CASE \E c \in ChannelIds : AppUnsubscribe(c)
  BY <1>1, <1>4 DEF AppUnsubscribe, ClientUnsubscribe
<1>5. CASE \E c \in ChannelIds : AppPublish(c)
  BY <1>5 DEF AppPublish, ClientSendSample
<1>6. CASE \E c \in ChannelIds, op \in OpIds :
               AppCall(c, op) \/ AppCancel(c, op) \/ AppReply(c, op)
  BY <1>6 DEF AppCall, AppCancel, AppReply, ClientSendOperation
<1>7. CASE \E c \in ChannelIds, opcode \in ServiceActionOpcode, op \in OpIds :
               AppMisuse(c, opcode, op)
  BY <1>7 DEF AppMisuse, ClientSendOperation
<1> QED  BY <1>2, <1>3, <1>4, <1>5, <1>6, <1>7 DEF App

(***************************************************************************)
(* Whatever the gateway's backend does and however the two ends interleave *)
(* a ready engine is stopped by a packet only when the gateway reports an  *)
(* error, or when a data frame crosses the close of its own channel.       *)
(***************************************************************************)
THEOREM ClientHasCause == Spec => ClientFailsForCause
<1>1. ASSUME FullInv, [Next]_vars, ~cClosed, cClosed', cSession.phase = "Ready", g2c' # g2c
      PROVE  Stopper
  <2>1. CASE EngineReceive
    BY <1>1, <2>1, EngineStopped DEF EngineReceive, FullInv
  <2>2. CASE App
    BY <1>1, <2>2, CommandsOnlySend
  <2>3. CASE GatewayReceive \/ GatewayForward \/ GatewayLeave \/ Graph \/ Lose
             \/ UNCHANGED vars
    BY <1>1, <2>3 DEF GatewayReceive, GatewayForward, GatewayLeave, Graph, Lose, vars,
       clientVars
  <2> QED  BY <1>1, <2>1, <2>2, <2>3 DEF Next
<1>2. FullInv /\ [Next]_vars =>
         [ /\ ~cClosed /\ cClosed' /\ cSession.phase = "Ready" /\ g2c' # g2c
           => \/ Head(g2c).plane = "control" /\ Head(g2c).msg.type = "Error"
              \/ /\ Head(g2c).plane = "data"
                 /\ cSession.chan[Head(g2c).msg.ch].state = "Closed"
         ]_vars
  BY <1>1 DEF Stopper
<1> QED  BY <1>2, FullInvariant, PTL DEF Spec, ClientFailsForCause

-----------------------------------------------------------------------------
(* The streams of samples. *)

\* The numbers and the sources of the samples the application was given
\* before its i-th item, and of those in front of the i-th packet of a stream.
Given(got, i) ==
    {<<got[j].seq, got[j].from>> : j \in {k \in 1 .. i - 1 : got[k].opcode = "ROS_SAMPLE"}}

\* The same of the samples of channel c among the first i - 1 packets of a stream.
Coming(in, c, i) ==
    {<<in[j].seq, in[j].msg.from>> : j \in {k \in 1 .. i - 1 : IsSample(in[k], c)}}

\* A sample goes on where the past left off.
Continues(past, seq, from, reliable) ==
    /\ \A q \in past : q[1] < seq /\ q[2] = from
    /\ reliable => seq = 0 \/ \E q \in past : q[1] + 1 = seq

\* All of them in front of the i-th packet of a stream.
Past(got, in, c, i) == Given(got, Len(got) + 1) \cup Coming(in, c, i)

\* What the application is given: a sample, or a frame of an operation.
Item ==
    [opcode : {"ROS_SAMPLE"}, opid : {"none"}, from : Nat, seq : Nat]
      \cup [opcode : ServiceActionOpcode, opid : OpIds, from : Nat, seq : Nat]

\* The application is given items.
ItemTypes == cDelivered \in [ChannelIds -> Seq(Item)]

\* Every sample the application was given goes on from the ones before it.
DeliveredStream(c) ==
    \A i \in DOMAIN cDelivered[c] :
        cDelivered[c][i].opcode = "ROS_SAMPLE" =>
            Continues(Given(cDelivered[c], i), cDelivered[c][i].seq, cDelivered[c][i].from,
                      cActive[c].reliable)

\* So does every sample on its way.
ComingStream(c) ==
    \A i \in DOMAIN g2c : IsSample(g2c[i], c) =>
        Continues(Past(cDelivered[c], g2c, c, i), g2c[i].seq, g2c[i].msg.from,
                  g2c[i].msg.reliable)

\* A sample on its way says what the channel's answer said about reliability.
ComingFlags(c) ==
    \A i \in DOMAIN g2c : IsSample(g2c[i], c) =>
        /\ cSession.chan[c].state = "Active" => g2c[i].msg.reliable = cActive[c].reliable
        /\ \A j \in DOMAIN g2c :
              Announces(g2c[j], c) => g2c[j].msg.reliable = g2c[i].msg.reliable

\* The application was given nothing on a channel that is not open yet.
Unheard(c) ==
    cSession.chan[c].state \notin {"Active", "Closed"} =>
        Given(cDelivered[c], Len(cDelivered[c]) + 1) = {}

\* So will the next sample the gateway sends on the channel.
ProducedStream(c) ==
    gRuntime[c] # NoRuntime =>
        /\ Continues(Past(cDelivered[c], g2c, c, Len(g2c) + 1),
                     gRuntime[c].seqOut, gRuntime[c].entity, gRuntime[c].reliable)
        /\ \A i \in DOMAIN g2c :
              IsSample(g2c[i], c) => g2c[i].msg.reliable = gRuntime[c].reliable

\* A sample in the backend's queue comes from the entity of its channel.
QueuedStream ==
    \A k \in DOMAIN gSamples :
        LET x == gSamples[k]
        IN  /\ gSession.chan[x.ch].state # "Unused"
            /\ gRuntime[x.ch] # NoRuntime => x.from = gRuntime[x.ch].entity

\* The stream of channel c, from the backend to the application.
StreamOf(c) ==
    /\ DeliveredStream(c)
    /\ ~cClosed => ComingStream(c) /\ ComingFlags(c) /\ Unheard(c)
    /\ Connected => ProducedStream(c)

\* What is added to FullInv for the streams: it holds at every stage between the
\* backend and the application, and not only where the application sees it.
StreamInv ==
    /\ ItemTypes
    /\ \A c \in ChannelIds : StreamOf(c)
    /\ gLoop = "running" => QueuedStream

\* Only what is in front counts.
LEMMA ComingPrefix ==
    ASSUME NEW in, NEW in2, NEW c, NEW i \in Nat, \A j \in 1 .. i - 1 : in2[j] = in[j]
    PROVE  Coming(in2, c, i) = Coming(in, c, i)
<1>1. \A q : q \in Coming(in2, c, i) <=> q \in Coming(in, c, i)
  BY Zenon DEF Coming
<1> QED  BY <1>1

\* Only what was given before counts.
LEMMA GivenPrefix ==
    ASSUME NEW got, NEW got2, NEW i \in Nat, \A j \in 1 .. i - 1 : got2[j] = got[j]
    PROVE  Given(got2, i) = Given(got, i)
<1>1. \A q : q \in Given(got2, i) <=> q \in Given(got, i)
  BY Zenon DEF Given
<1> QED  BY <1>1

\* One sample more.
LEMMA ComingQueued ==
    ASSUME NEW S, NEW in \in Seq(S), NEW x \in S, NEW c, IsSample(x, c)
    PROVE  Coming(Append(in, x), c, Len(in) + 2)
              = Coming(in, c, Len(in) + 1) \cup {<<x.seq, x.msg.from>>}
<1> DEFINE r == Append(in, x)
           n == Len(in)
<1>1. /\ n \in Nat /\ DOMAIN in = 1 .. n /\ r[n + 1] = x /\ \A i \in 1 .. n : r[i] = in[i]
  BY Queued
<1> HIDE DEF r, n
<1>2. /\ 1 .. (n + 2) - 1 = 1 .. (n + 1) /\ 1 .. (n + 1) - 1 = 1 .. n
      /\ \A k \in 1 .. (n + 1) : k \in 1 .. n \/ k = n + 1
      /\ \A k \in 1 .. n : k \in 1 .. (n + 1)
      /\ n + 1 \in 1 .. (n + 1)
  BY <1>1
<1>3. \A q : q \in Coming(r, c, n + 2)
               <=> q \in Coming(in, c, n + 1) \/ q = <<x.seq, x.msg.from>>
  BY <1>1, <1>2, Zenon DEF Coming
<1> QED  BY <1>3 DEF r, n

\* One more item.
LEMMA GivenQueued ==
    ASSUME NEW S, NEW got \in Seq(S), NEW y \in S
    PROVE  Given(Append(got, y), Len(got) + 2)
              = Given(got, Len(got) + 1)
                \cup (IF y.opcode = "ROS_SAMPLE" THEN {<<y.seq, y.from>>} ELSE {})
<1> DEFINE r == Append(got, y)
           n == Len(got)
<1>1. /\ n \in Nat /\ DOMAIN got = 1 .. n /\ r[n + 1] = y /\ \A i \in 1 .. n : r[i] = got[i]
  BY Queued
<1> HIDE DEF r, n
<1>2. /\ 1 .. (n + 2) - 1 = 1 .. (n + 1) /\ 1 .. (n + 1) - 1 = 1 .. n
      /\ \A k \in 1 .. (n + 1) : k \in 1 .. n \/ k = n + 1
      /\ \A k \in 1 .. n : k \in 1 .. (n + 1)
      /\ n + 1 \in 1 .. (n + 1)
  BY <1>1
<1>3. \A q : q \in Given(r, n + 2)
               <=> q \in Given(got, n + 1)
                   \/ (y.opcode = "ROS_SAMPLE" /\ q = <<y.seq, y.from>>)
  BY <1>1, <1>2, Zenon DEF Given
<1> QED  BY <1>3 DEF r, n

\* The head counted apart from the rest.
LEMMA ComingTaken ==
    ASSUME NEW S, NEW in \in Seq(S), in # <<>>, NEW c, NEW i \in 1 .. Len(in)
    PROVE  Coming(in, c, i + 1)
              = (IF IsSample(Head(in), c) THEN {<<Head(in).seq, Head(in).msg.from>>} ELSE {})
                \cup Coming(Tail(in), c, i)
<1> DEFINE r == Tail(in)
           h == Head(in)
<1>1. /\ h = in[1] /\ Len(in) \in Nat /\ i \in Nat /\ i >= 1
      /\ \A k \in 1 .. i - 1 : r[k] = in[k + 1]
  BY Taken
<1> HIDE DEF r, h
<1>2. /\ \A k \in 1 .. (i + 1) - 1 : k = 1 \/ (k - 1 \in 1 .. i - 1 /\ (k - 1) + 1 = k)
      /\ \A k \in 1 .. i - 1 : k + 1 \in 1 .. (i + 1) - 1
      /\ 1 \in 1 .. (i + 1) - 1
  BY <1>1
<1>3. ASSUME NEW q, q \in Coming(in, c, i + 1)
      PROVE  \/ IsSample(h, c) /\ q = <<h.seq, h.msg.from>>
             \/ q \in Coming(r, c, i)
  <2>1. PICK k \in 1 .. (i + 1) - 1 : IsSample(in[k], c) /\ q = <<in[k].seq, in[k].msg.from>>
    BY <1>3, Zenon DEF Coming
  <2>2. CASE k = 1
    BY <1>1, <2>1, <2>2
  <2>3. CASE k - 1 \in 1 .. i - 1 /\ (k - 1) + 1 = k
    <3>1. r[k - 1] = in[k]
      BY <1>1, <2>3
    <3> QED  BY <2>1, <2>3, <3>1, Zenon DEF Coming
  <2> QED  BY <1>2, <2>2, <2>3
<1>4. ASSUME NEW q, q \in Coming(r, c, i)
      PROVE  q \in Coming(in, c, i + 1)
  <2>1. PICK k \in 1 .. i - 1 : IsSample(r[k], c) /\ q = <<r[k].seq, r[k].msg.from>>
    BY <1>4, Zenon DEF Coming
  <2>2. r[k] = in[k + 1] /\ k + 1 \in 1 .. (i + 1) - 1
    BY <1>1, <1>2
  <2> QED  BY <2>1, <2>2, Zenon DEF Coming
<1>5. IsSample(h, c) => <<h.seq, h.msg.from>> \in Coming(in, c, i + 1)
  BY <1>1, <1>2, Zenon DEF Coming
<1> QED  BY <1>3, <1>4, <1>5 DEF r, h

\* Nothing is in front of the first.
LEMMA ComingFirst ==
    ASSUME NEW in, NEW c
    PROVE  Coming(in, c, 1) = {}
<1>1. 1 .. 1 - 1 = {}
  OBVIOUS
<1> QED  BY <1>1, Zenon DEF Coming

\* Where no sample is, none counts; and each one counts for the next.
LEMMA ComingNone ==
    ASSUME NEW in, NEW c, NEW i \in Nat, \A k \in 1 .. i - 1 : ~IsSample(in[k], c)
    PROVE  Coming(in, c, i) = {}
  BY Zenon DEF Coming

\* A sample that was given is in the past.
LEMMA GivenEach ==
    ASSUME NEW got, NEW i \in Nat, NEW k \in 1 .. i - 1, got[k].opcode = "ROS_SAMPLE"
    PROVE  <<got[k].seq, got[k].from>> \in Given(got, i)
  BY Zenon DEF Given

\* What the gateway sends in the step holds no sample of channel c.
Prolongs(c) ==
    /\ Len(g2c) <= Len(g2c') /\ \A i \in DOMAIN g2c : g2c'[i] = g2c[i]
    /\ \A i \in DOMAIN g2c' : IsSample(g2c'[i], c) => i \in DOMAIN g2c

\* One packet that is no sample of the channel.
LEMMA ProlongsOne ==
    ASSUME NEW c, g2c \in Seq(ServerPacket), NEW x \in ServerPacket,
           g2c' = Append(g2c, x), ~IsSample(x, c)
    PROVE  Prolongs(c)
<1>1. /\ Len(g2c) \in Nat /\ Len(g2c') = Len(g2c) + 1
      /\ DOMAIN g2c = 1 .. Len(g2c) /\ DOMAIN g2c' = 1 .. Len(g2c) + 1
      /\ \A i \in 1 .. Len(g2c) : g2c'[i] = g2c[i]
      /\ g2c'[Len(g2c) + 1] = x
  BY Queued
<1> QED  BY <1>1 DEF Prolongs

\* Two of them.
LEMMA ProlongsTwo ==
    ASSUME NEW c, g2c \in Seq(ServerPacket), NEW x \in ServerPacket, NEW y \in ServerPacket,
           g2c' = Append(Append(g2c, x), y), ~IsSample(x, c), ~IsSample(y, c)
    PROVE  Prolongs(c)
<1> DEFINE r == Append(g2c, x)
<1>1. /\ r \in Seq(ServerPacket) /\ Len(g2c) \in Nat /\ Len(r) = Len(g2c) + 1
      /\ DOMAIN g2c = 1 .. Len(g2c)
      /\ \A i \in 1 .. Len(g2c) : r[i] = g2c[i]
      /\ r[Len(g2c) + 1] = x
  BY Queued
<1> HIDE DEF r
<1>2. /\ Len(g2c') = Len(r) + 1 /\ DOMAIN g2c' = 1 .. Len(r) + 1
      /\ \A i \in 1 .. Len(r) : g2c'[i] = r[i]
      /\ g2c'[Len(r) + 1] = y
  BY <1>1, Queued DEF r
<1> QED  BY <1>1, <1>2 DEF Prolongs

\* None at all.
LEMMA ProlongsNone ==
    ASSUME NEW c, g2c \in Seq(ServerPacket), g2c' = g2c
    PROVE  Prolongs(c)
  BY DEF Prolongs

\* The samples of channel c on their way stay the same.
LEMMA ProlongedComing ==
    ASSUME NEW c, g2c \in Seq(ServerPacket), g2c' \in Seq(ServerPacket), Prolongs(c)
    PROVE  /\ \A i \in DOMAIN g2c : Coming(g2c', c, i) = Coming(g2c, c, i)
           /\ Coming(g2c', c, Len(g2c') + 1) = Coming(g2c, c, Len(g2c) + 1)
<1>1. /\ Len(g2c) \in Nat /\ Len(g2c') \in Nat /\ Len(g2c) <= Len(g2c')
      /\ DOMAIN g2c = 1 .. Len(g2c) /\ DOMAIN g2c' = 1 .. Len(g2c')
      /\ \A i \in DOMAIN g2c : g2c'[i] = g2c[i]
      /\ \A i \in DOMAIN g2c' : IsSample(g2c'[i], c) => i \in DOMAIN g2c
  BY LenProperties DEF Prolongs
<1>2. ASSUME NEW i \in 1 .. Len(g2c) + 1 PROVE Coming(g2c', c, i) = Coming(g2c, c, i)
  <2>1. i \in Nat /\ \A j \in 1 .. i - 1 : g2c'[j] = g2c[j]
    BY <1>1
  <2> QED  BY <2>1, ComingPrefix
<1>3. Coming(g2c', c, Len(g2c') + 1) = Coming(g2c', c, Len(g2c) + 1)
  <2>1. \A k \in 1 .. (Len(g2c') + 1) - 1 :
           IsSample(g2c'[k], c) => k \in 1 .. (Len(g2c) + 1) - 1
    BY <1>1
  <2>2. \A k \in 1 .. (Len(g2c) + 1) - 1 : k \in 1 .. (Len(g2c') + 1) - 1
    BY <1>1
  <2>3. \A q : q \in Coming(g2c', c, Len(g2c') + 1) <=> q \in Coming(g2c', c, Len(g2c) + 1)
    BY <2>1, <2>2, Zenon DEF Coming
  <2> QED  BY <2>3
<1> QED  BY <1>1, <1>2, <1>3

\* A step of the gateway that sends no sample of channel c and keeps its
\* counter keeps its stream.
LEMMA StreamKept ==
    ASSUME WireInv, NEW c \in ChannelIds, StreamOf(c), Prolongs(c),
           g2c' \in Seq(ServerPacket),
           UNCHANGED <<cSession, cClosed, cActive, cDelivered>>,
           Connected' => Connected, Silent(c),
           gRuntime'[c] = NoRuntime
           \/ /\ gRuntime[c] # NoRuntime
              /\ gRuntime'[c].seqOut = gRuntime[c].seqOut
              /\ gRuntime'[c].entity = gRuntime[c].entity
              /\ gRuntime'[c].reliable = gRuntime[c].reliable
    PROVE  StreamOf(c)'
<1>1. g2c \in Seq(ServerPacket)
  BY DEF WireInv, LinkTypes
<1>2. /\ \A i \in DOMAIN g2c : Coming(g2c', c, i) = Coming(g2c, c, i)
      /\ Coming(g2c', c, Len(g2c') + 1) = Coming(g2c, c, Len(g2c) + 1)
  BY <1>1, ProlongedComing
<1>3. \A i \in DOMAIN g2c' : IsSample(g2c'[i], c) => i \in DOMAIN g2c /\ g2c'[i] = g2c[i]
  BY DEF Prolongs
<1>4. DeliveredStream(c)'
  BY DEF StreamOf, DeliveredStream
<1>5. ~cClosed => ComingStream(c)'
  <2> SUFFICES ASSUME ~cClosed, NEW i \in DOMAIN g2c', IsSample(g2c'[i], c)
               PROVE  Continues(Past(cDelivered[c], g2c', c, i), g2c'[i].seq,
                                g2c'[i].msg.from, g2c'[i].msg.reliable)
    BY Zenon DEF ComingStream
  <2>1. i \in DOMAIN g2c /\ g2c'[i] = g2c[i] /\ Coming(g2c', c, i) = Coming(g2c, c, i)
    BY <1>2, <1>3
  <2>2. Continues(Past(cDelivered[c], g2c, c, i), g2c[i].seq,
                  g2c[i].msg.from, g2c[i].msg.reliable)
    BY <2>1 DEF StreamOf, ComingStream
  <2> QED  BY <2>1, <2>2, Zenon DEF Past
<1>6. ~cClosed => ComingFlags(c)'
  <2> SUFFICES ASSUME ~cClosed, NEW i \in DOMAIN g2c', IsSample(g2c'[i], c)
               PROVE  /\ cSession.chan[c].state = "Active" =>
                            g2c'[i].msg.reliable = cActive[c].reliable
                      /\ \A j \in DOMAIN g2c' : Announces(g2c'[j], c) =>
                            g2c'[j].msg.reliable = g2c'[i].msg.reliable
    BY Zenon DEF ComingFlags
  <2>1. ComingFlags(c) /\ i \in DOMAIN g2c /\ g2c'[i] = g2c[i]
    BY <1>3 DEF StreamOf
  <2>2. \A j \in DOMAIN g2c' : Announces(g2c'[j], c) => j \in DOMAIN g2c /\ g2c'[j] = g2c[j]
    BY DEF Silent, Announces
  <2> QED  BY <2>1, <2>2, Zenon DEF ComingFlags
<1>7. ~cClosed => Unheard(c)'
  BY DEF StreamOf, Unheard
<1>8. Connected' => ProducedStream(c)'
  <2> SUFFICES ASSUME Connected', gRuntime'[c] # NoRuntime
               PROVE  /\ Continues(Past(cDelivered[c], g2c', c, Len(g2c') + 1),
                                   gRuntime'[c].seqOut, gRuntime'[c].entity,
                                   gRuntime'[c].reliable)
                      /\ \A i \in DOMAIN g2c' : IsSample(g2c'[i], c) =>
                            g2c'[i].msg.reliable = gRuntime'[c].reliable
    BY Zenon DEF ProducedStream
  <2>1. ProducedStream(c) /\ gRuntime[c] # NoRuntime
    BY DEF StreamOf
  <2>2. Past(cDelivered[c], g2c', c, Len(g2c') + 1)
           = Past(cDelivered[c], g2c, c, Len(g2c) + 1)
    BY <1>2, Zenon DEF Past
  <2>3. /\ gRuntime'[c].seqOut = gRuntime[c].seqOut
        /\ gRuntime'[c].entity = gRuntime[c].entity
        /\ gRuntime'[c].reliable = gRuntime[c].reliable
    OBVIOUS
  <2> QED  BY <1>3, <2>1, <2>2, <2>3, Zenon DEF ProducedStream
<1> QED  BY <1>4, <1>5, <1>6, <1>7, <1>8 DEF StreamOf

\* x may be sent in answer to p: only an operation is answered with data, only
\* a heartbeat with a heartbeat, only an open with the news that it is open.
Reply(p, x) ==
    /\ x \in ServerPacket
    /\ x.plane = "data" => /\ p.plane = "data" /\ <<p.msg.opcode, x.msg.opcode>> \in Answers
                           /\ x.msg.ch = p.msg.ch /\ x.msg.opid = p.msg.opid
    /\ IsControl(x, "Heartbeat") => IsControl(p, "Heartbeat")
    /\ \A c \in ChannelIds : Announces(x, c) => About(p, "OpenChannel", c)

\* What the gateway sends when it takes p.
Replies(p) ==
    \/ g2c' = g2c
    \/ \E x : Reply(p, x) /\ g2c' = Append(g2c, x)
    \/ \E x, y : /\ Reply(p, x) /\ Reply(p, y) /\ g2c' = Append(Append(g2c, x), y)
                 /\ ~IsControl(p, "Heartbeat") /\ x.plane = "control" /\ y.plane = "control"

\* A control message other than a heartbeat or an answer to an open.
LEMMA ControlReply ==
    ASSUME NEW m \in ServerControl, NEW n \in Nat, NEW p,
           m.type = "Heartbeat" => IsControl(p, "Heartbeat"),
           m.type = "ChannelReady" => ~IsSuccess(m.result) \/ About(p, "OpenChannel", m.ch)
    PROVE  Reply(p, Control(m, n)) /\ Control(m, n).plane = "control"
<1> DEFINE x == Control(m, n)
<1>1. x \in ServerPacket /\ x.plane = "control" /\ x.msg = m
  BY ControlPacket
<1> HIDE DEF x
<1>2. \A c : About(x, "ChannelReady", c) => m.type = "ChannelReady" /\ c = m.ch
  BY <1>1 DEF About
<1>3. ASSUME NEW c \in ChannelIds, Announces(x, c) PROVE About(p, "OpenChannel", c)
  BY <1>1, <1>2, <1>3 DEF Announces
<1>4. IsControl(x, "Heartbeat") => IsControl(p, "Heartbeat")
  BY <1>1 DEF IsControl
<1> QED  BY <1>1, <1>3, <1>4 DEF Reply, x

\* A bootstrap packet may be sent in answer to anything.
LEMMA BootstrapReply ==
    ASSUME NEW p, NEW type \in {"ServerHello", "BootstrapError"}
    PROVE  Reply(p, Bootstrap(type))
<1>1. Bootstrap(type) \in ServerPacket /\ Bootstrap(type).plane = "bootstrap"
  BY GatewayMessages DEF Bootstrap
<1> QED  BY <1>1 DEF Reply, IsControl, Announces, About

\* Whatever the gateway does about a packet.
LEMMA TakingReplies ==
    ASSUME WireInv, NEW p, Inbound(p), Taking(p)
    PROVE  Replies(p)
<1>1. g2c \in Seq(ServerPacket) /\ gSeqOut \in Nat /\ gSeqOut + 1 \in Nat
  BY GatewayTakes
<1>2. /\ SessionReady.type = "SessionReady" /\ SessionError.type = "Error"
      /\ Heartbeat.type = "Heartbeat" /\ \A c : ChannelError(c).type = "Error"
      /\ SessionReady \in ServerControl /\ SessionError \in ServerControl
      /\ Heartbeat \in ServerControl
      /\ \A c \in ChannelIds : ChannelError(c) \in ServerControl
  BY GatewayMessages DEF SessionReady, SessionError, Heartbeat, ChannelError
<1>3. ASSUME NEW m \in ServerControl, NEW n \in Nat, m.type \notin {"Heartbeat", "ChannelReady"}
      PROVE  Reply(p, Control(m, n)) /\ Control(m, n).plane = "control"
  BY <1>3, ControlReply
<1>4. CASE Ended(p)
  <2>1. CASE g2c' = Append(g2c, Bootstrap("BootstrapError"))
    BY <2>1, BootstrapReply DEF Replies
  <2>2. CASE g2c' = Append(g2c, Control(SessionError, gSeqOut))
    BY <1>1, <1>2, <1>3, <2>2 DEF Replies
  <2>3. CASE /\ IsControl(p, "Authenticate")
             /\ g2c' = Append(Append(g2c, Control(SessionReady, gSeqOut)),
                              Control(SessionError, gSeqOut + 1))
    BY <1>1, <1>2, <1>3, <2>3 DEF Replies, IsControl
  <2> QED  BY <1>4, <2>1, <2>2, <2>3 DEF Ended
<1>5. CASE Greeted(p)
  BY <1>5, BootstrapReply DEF Greeted, Replies
<1>6. CASE Admitted(p)
  <2> DEFINE m == [type |-> "GraphSnapshot", gen |-> 1]
  <2>1. m \in ServerControl /\ m.type = "GraphSnapshot"
    BY GatewayMessages
  <2>2. /\ IsControl(p, "Authenticate")
        /\ g2c' = Append(Append(g2c, Control(SessionReady, gSeqOut)),
                         Control(m, gSeqOut + 1))
    BY <1>6 DEF Admitted
  <2> HIDE DEF m
  <2> QED  BY <1>1, <1>2, <1>3, <2>1, <2>2 DEF Replies, IsControl
<1>7. ASSUME NEW c \in ChannelIds, Refused(p, c) PROVE Replies(p)
  <2> DEFINE m == ReadyMessage(c, "Error", FALSE)
  <2>1. m \in ServerControl /\ m.type = "ChannelReady" /\ ~IsSuccess(m.result)
    BY GatewayMessages DEF ReadyMessage, IsSuccess
  <2>2. g2c' = Append(g2c, Control(m, gSeqOut))
    BY <1>7 DEF Refused
  <2> HIDE DEF m
  <2>3. Reply(p, Control(m, gSeqOut))
    BY <1>1, <2>1, ControlReply
  <2> QED  BY <2>2, <2>3 DEF Replies
<1>8. ASSUME NEW c \in ChannelIds, Released(p, c) PROVE Replies(p)
  BY <1>8 DEF Released, Replies
<1>9. ASSUME NEW c \in ChannelIds, NEW reliable \in BOOLEAN, Opened(p, c, reliable)
      PROVE  Replies(p)
  <2> DEFINE m == ReadyMessage(c, "Allow", reliable)
             n == DeltaMessage(gGeneration, gGeneration')
  <2>1. PICK x \in ServerPacket, y \in ServerPacket :
            /\ x.plane = "control" /\ x.msg = m /\ IsControl(y, "GraphDelta")
            /\ g2c' = Append(g2c, x) \/ g2c' = Append(Append(g2c, x), y)
    BY <1>9, OpenedSends
  <2>2. m.type = "ChannelReady" /\ m.ch = c
    BY DEF ReadyMessage
  <2>3. About(p, "OpenChannel", c) /\ ~IsControl(p, "Heartbeat")
    BY <1>9 DEF Opened, About, IsControl
  <2> HIDE DEF m
  <2>4. Reply(p, x)
    BY <2>1, <2>2, <2>3 DEF Reply, IsControl, Announces, About
  <2>5. Reply(p, y) /\ y.plane = "control"
    BY <2>1 DEF Reply, IsControl, Announces, About
  <2> QED  BY <2>1, <2>3, <2>4, <2>5 DEF Replies
<1>10. CASE Echoed(p)
  <2>1. Reply(p, Control(Heartbeat, gSeqOut))
    BY <1>1, <1>2, <1>10, ControlReply DEF Echoed
  <2> QED  BY <1>10, <2>1 DEF Echoed, Replies
<1>11. ASSUME TookData(p), Reported(p.msg.ch) PROVE Replies(p)
  <2>1. p.msg.ch \in ChannelIds
    BY <1>11, TookDataActive
  <2> QED  BY <1>1, <1>2, <1>3, <1>11, <2>1 DEF Reported, Replies
<1>12. CASE TookOperation(p)
  <2>1. CASE Reported(p.msg.ch)
    BY <1>11, <1>12, <2>1 DEF TookOperation
  <2>2. CASE \E answer \in {"SERVICE_RESPONSE", "ACTION_RESULT"} : \E n \in Nat :
                LET f == Operation(answer, p.msg.ch, p.msg.opid, TRUE)
                IN  /\ <<p.msg.opcode, answer>> \in Answers
                    /\ f \in Frame /\ g2c' = Append(g2c, Data(f, n))
    <3>1. PICK answer \in {"SERVICE_RESPONSE", "ACTION_RESULT"}, n \in Nat :
              /\ <<p.msg.opcode, answer>> \in Answers
              /\ Operation(answer, p.msg.ch, p.msg.opid, TRUE) \in Frame
              /\ g2c' = Append(g2c, Data(Operation(answer, p.msg.ch, p.msg.opid, TRUE), n))
      BY <2>2
    <3> DEFINE f == Operation(answer, p.msg.ch, p.msg.opid, TRUE)
    <3>2. f.opcode = answer /\ f.ch = p.msg.ch /\ f.opid = p.msg.opid
      BY DEF Operation
    <3> HIDE DEF f
    <3>3. Data(f, n) \in ServerPacket /\ Data(f, n).plane = "data" /\ Data(f, n).msg = f
      BY <3>1, DataPacket DEF f, Data
    <3>4. p.plane = "data"
      BY <1>12 DEF TookOperation, TookData
    <3>5. Reply(p, Data(f, n))
      BY <3>1, <3>2, <3>3, <3>4 DEF Reply, IsControl, Announces, About
    <3> QED  BY <3>1, <3>5 DEF Replies, f
  <2> QED  BY <1>12, <2>1, <2>2 DEF TookOperation
<1>13. CASE TookSample(p)
  BY <1>11, <1>13 DEF TookSample
<1> QED  BY <1>4, <1>5, <1>6, <1>7, <1>8, <1>9, <1>10, <1>12, <1>13 DEF Taking

\* None of it is a sample, and all else of a channel that is not opened is quiet.
LEMMA RepliesQuiet ==
    ASSUME WireInv, NEW p, Replies(p), NEW c \in ChannelIds
    PROVE  /\ g2c' \in Seq(ServerPacket) /\ Prolongs(c)
           /\ ~About(p, "OpenChannel", c) => Silent(c)
<1>1. g2c \in Seq(ServerPacket)
  BY DEF WireInv, LinkTypes
<1>2. ASSUME NEW x, Reply(p, x)
      PROVE  /\ x \in ServerPacket /\ ~IsSample(x, c)
             /\ ~About(p, "OpenChannel", c) => ~Announces(x, c)
  BY <1>2 DEF Reply, IsSample, Answers
<1>3. CASE g2c' = g2c
  BY <1>1, <1>3, ProlongsNone DEF Silent
<1>4. CASE \E x : Reply(p, x) /\ g2c' = Append(g2c, x)
  <2>1. PICK x : Reply(p, x) /\ g2c' = Append(g2c, x)
    BY <1>4
  <2> QED  BY <1>1, <1>2, <2>1, Queued, ProlongsOne, SilentOne
<1>5. CASE \E x, y : Reply(p, x) /\ Reply(p, y) /\ g2c' = Append(Append(g2c, x), y)
  <2>1. PICK x, y : Reply(p, x) /\ Reply(p, y) /\ g2c' = Append(Append(g2c, x), y)
    BY <1>5
  <2>2. Append(g2c, x) \in Seq(ServerPacket) /\ g2c' \in Seq(ServerPacket)
    BY <1>1, <1>2, <2>1, Queued
  <2> QED  BY <1>1, <1>2, <2>1, <2>2, ProlongsTwo, SilentTwo
<1> QED  BY <1>3, <1>4, <1>5 DEF Replies

\* The counter of samples, the entity and the flag of channel c stay.
SameSource(c) ==
    \/ gRuntime'[c] = NoRuntime
    \/ /\ gRuntime[c] # NoRuntime
       /\ gRuntime'[c].seqOut = gRuntime[c].seqOut
       /\ gRuntime'[c].entity = gRuntime[c].entity
       /\ gRuntime'[c].reliable = gRuntime[c].reliable

\* A packet that does not open channel c leaves its source as it is.
LEMMA TakingSource ==
    ASSUME WireInv, NEW p, Inbound(p), Taking(p), NEW c \in ChannelIds,
           \A reliable \in BOOLEAN : ~Opened(p, c, reliable)
    PROVE  SameSource(c) /\ Silent(c)
<1>1. gRuntime \in [ChannelIds -> Runtime \cup {NoRuntime}]
  BY DEF WireInv, GatewayInv, BackendTypes
<1>2. g2c' \in Seq(ServerPacket) /\ (~About(p, "OpenChannel", c) => Silent(c))
  BY TakingReplies, RepliesQuiet
<1>3. CASE gRuntime' = gRuntime /\ ~About(p, "OpenChannel", c)
  BY <1>2, <1>3 DEF SameSource
<1>4. CASE Ended(p) \/ Greeted(p) \/ Admitted(p) \/ Echoed(p)
  <2>1. gRuntime' = gRuntime
    BY <1>4 DEF Ended, Greeted, Admitted, Echoed
  <2>2. CASE ~About(p, "OpenChannel", c)
    BY <1>3, <2>1, <2>2
  <2>3. CASE About(p, "OpenChannel", c)
    <3>1. Ended(p)
      BY <1>4, <2>3 DEF Greeted, Admitted, Echoed, About, IsControl
    <3>2. /\ g2c \in Seq(ServerPacket) /\ gSeqOut \in Nat
          /\ ~IsControl(p, "Authenticate")
      BY <2>3, GatewayTakes DEF About, IsControl
    <3>3. PICK x \in {Bootstrap("BootstrapError"), Control(SessionError, gSeqOut)} :
              g2c' = Append(g2c, x)
      BY <3>1, <3>2 DEF Ended
    <3>4. Bootstrap("BootstrapError") \in ServerPacket
          /\ ~Announces(Bootstrap("BootstrapError"), c)
      BY GatewayMessages DEF Bootstrap, Announces, About
    <3>5. Control(SessionError, gSeqOut) \in ServerPacket
          /\ ~Announces(Control(SessionError, gSeqOut), c)
      BY <3>2, GatewayMessages, ControlPacket DEF Announces, About, SessionError
    <3>6. Silent(c)
      BY <3>2, <3>3, <3>4, <3>5, SilentOne
    <3> QED  BY <2>1, <3>6 DEF SameSource
  <2> QED  BY <2>2, <2>3
<1>5. ASSUME NEW d \in ChannelIds, Refused(p, d) PROVE SameSource(c) /\ Silent(c)
  <2>1. Keeps(p, c)
    BY <1>5, RefusedKeeps
  <2> QED  BY <1>5, <2>1 DEF Refused, SameSource, Keeps, Silent
<1>6. ASSUME NEW d \in ChannelIds, Released(p, d) PROVE SameSource(c) /\ Silent(c)
  <2>1. ~About(p, "OpenChannel", c)
    BY <1>6 DEF Released, About
  <2>2. gRuntime'[c] = NoRuntime \/ gRuntime'[c] = gRuntime[c]
    BY <1>1, <1>6 DEF Released
  <2> QED  BY <1>2, <2>1, <2>2 DEF SameSource
<1>7. ASSUME NEW d \in ChannelIds, NEW reliable \in BOOLEAN, Opened(p, d, reliable)
      PROVE  SameSource(c) /\ Silent(c)
  <2>1. d # c /\ About(p, "OpenChannel", d)
    BY <1>7 DEF Opened
  <2>2. ~About(p, "OpenChannel", c)
    BY <2>1 DEF About
  <2>3. gRuntime'[c] = gRuntime[c]
    BY <1>1, <1>7, <2>1 DEF Opened
  <2> QED  BY <1>2, <2>2, <2>3 DEF SameSource
<1>8. CASE TookSample(p)
  <2>1. /\ p.plane = "data" /\ p.msg.ch \in ChannelIds /\ gRuntime[p.msg.ch] # NoRuntime
        /\ gRuntime' = [gRuntime EXCEPT ![p.msg.ch].seqIn = p.seq + 1]
    BY <1>8, TookDataActive DEF TookSample, TookData
  <2>2. gRuntime[p.msg.ch] \in Runtime
    BY <1>1, <2>1
  <2>3. SameSource(c)
    BY <1>1, <2>1, <2>2 DEF SameSource, Runtime
  <2> QED  BY <1>2, <2>1, <2>3 DEF About
<1>9. CASE TookOperation(p)
  <2>1. p.plane = "data" /\ SameRuntime(c)
    BY <1>9 DEF TookOperation, TookData
  <2> QED  BY <1>2, <2>1 DEF About, SameRuntime, SameSource
<1> QED  BY <1>4, <1>5, <1>6, <1>7, <1>8, <1>9 DEF Taking

\* A channel that is opened starts with nothing behind it.
LEMMA StreamOpened ==
    ASSUME WireInv, FitInv, NEW p, Inbound(p), Taking(p), UNCHANGED clientVars,
           NEW c \in ChannelIds, StreamOf(c), NEW reliable \in BOOLEAN, Opened(p, c, reliable)
    PROVE  StreamOf(c)'
<1>1. UNCHANGED <<cSession, cClosed, cActive, cDelivered>>
  BY DEF clientVars, tableVars
<1>2. DeliveredStream(c)'
  BY <1>1 DEF StreamOf, DeliveredStream
<1>3. CASE cClosed
  BY <1>1, <1>2, <1>3 DEF StreamOf, Connected
<1>4. CASE ~cClosed
  <2>1. /\ cSession.chan[c].state = "Pending"
        /\ \A j \in DOMAIN g2c : ~About(g2c[j], "ChannelReady", c)
    BY <1>4, OpenUnanswered DEF Opened
  <2>2. /\ g2c \in Seq(ServerPacket) /\ DOMAIN g2c = 1 .. Len(g2c) /\ Len(g2c) \in Nat
        /\ g2c' \in Seq(ServerPacket) /\ DOMAIN g2c' = 1 .. Len(g2c') /\ Len(g2c') \in Nat
        /\ Prolongs(c)
    BY TakingReplies, RepliesQuiet, LenProperties DEF WireInv, LinkTypes
  <2>3. ASSUME NEW i \in DOMAIN g2c PROVE ~IsSample(g2c[i], c)
    <3>1. ChannelFits(cSession, g2c, i, c)
      BY <1>4 DEF FitInv, InFits, FitsIn
    <3>2. \A j \in 1 .. i - 1 : ~About(g2c[j], "ChannelReady", c)
      BY <2>1, <2>2
    <3> QED  BY <2>1, <3>1, <3>2 DEF ChannelFits, IsSample, OnChannel
  <2>4. \A i \in DOMAIN g2c' : ~IsSample(g2c'[i], c)
    BY <2>2, <2>3 DEF Prolongs
  <2>5. Given(cDelivered[c], Len(cDelivered[c]) + 1) = {}
    BY <1>4, <2>1 DEF StreamOf, Unheard
  <2>6. Coming(g2c', c, Len(g2c') + 1) = {}
    <3>1. Len(g2c') + 1 \in Nat /\ \A k \in 1 .. (Len(g2c') + 1) - 1 : ~IsSample(g2c'[k], c)
      BY <2>2, <2>4
    <3> QED  BY <3>1, ComingNone
  <2>7. gRuntime'[c] = NewRuntime(p.msg.kind, bCreated + 1, reliable)
    BY DEF Opened, WireInv, GatewayInv, BackendTypes
  <2>8. Continues(Past(cDelivered[c], g2c', c, Len(g2c') + 1),
                  gRuntime'[c].seqOut, gRuntime'[c].entity, gRuntime'[c].reliable)
    <3>1. gRuntime'[c].seqOut = 0
      BY <2>7 DEF NewRuntime
    <3>2. Past(cDelivered[c], g2c', c, Len(g2c') + 1) = {}
      BY <2>5, <2>6 DEF Past
    <3> QED  BY <3>1, <3>2 DEF Continues
  <2>9. ProducedStream(c)'
    BY <1>1, <2>4, <2>8 DEF ProducedStream
  <2>10. ComingStream(c)' /\ ComingFlags(c)'
    BY <2>4 DEF ComingStream, ComingFlags
  <2>11. Unheard(c)'
    BY <1>1, <2>5 DEF Unheard
  <2> QED  BY <1>2, <2>9, <2>10, <2>11 DEF StreamOf
<1> QED  BY <1>3, <1>4

\* Queued samples stay those of the entity they came from.
LEMMA QueuedTaking ==
    ASSUME WireInv, NEW p, Inbound(p), Taking(p), gLoop' = "running", QueuedStream
    PROVE  QueuedStream'
<1>1. /\ gSamples \in Seq([ch : ChannelIds, from : Nat])
      /\ gRuntime \in [ChannelIds -> Runtime \cup {NoRuntime}]
  BY DEF WireInv, GatewayInv, BackendTypes
<1>2. gSamples' = gSamples
  BY DEF Taking, Ended, Greeted, Admitted, Refused, Released, Opened, Echoed, TookSample,
     TookOperation, TookData, sinkVars
<1> SUFFICES ASSUME NEW k \in DOMAIN gSamples
             PROVE  /\ gSession'.chan[gSamples[k].ch].state # "Unused"
                    /\ gRuntime'[gSamples[k].ch] # NoRuntime =>
                          gSamples[k].from = gRuntime'[gSamples[k].ch].entity
  BY <1>2, Zenon DEF QueuedStream
<1> DEFINE c == gSamples[k].ch
<1>3. gSamples[k] \in [ch : ChannelIds, from : Nat]
  <2>1. DOMAIN gSamples = 1 .. Len(gSamples)
    BY <1>1, LenProperties
  <2> QED  BY <1>1, <2>1, ElementOfSeq
<1>4. /\ c \in ChannelIds /\ gSession.chan[c].state # "Unused"
      /\ gRuntime[c] # NoRuntime => gSamples[k].from = gRuntime[c].entity
  BY <1>3 DEF QueuedStream
<1> HIDE DEF c
<1>5. \A reliable \in BOOLEAN : ~Opened(p, c, reliable)
  BY <1>4 DEF Opened
<1>6. SameSource(c)
  BY <1>4, <1>5, TakingSource
<1>7. gSession'.chan[c].state # "Unused"
  <2>1. CASE Greeted(p) \/ Admitted(p) \/ Echoed(p) \/ TookSample(p) \/ TookOperation(p)
    BY <1>4, <2>1 DEF Greeted, Admitted, Echoed, TookSample, TookOperation, TookData, Rephased
  <2>2. ASSUME NEW d \in ChannelIds, NEW state \in {"Failed", "Closed", "Active"}, NEW kind,
               Turned(d, state, kind)
        PROVE  gSession'.chan[c].state # "Unused"
    BY <1>4, <2>2 DEF Turned
  <2>3. ~Ended(p)
    BY DEF Ended
  <2>4. ASSUME NEW d \in ChannelIds, Refused(p, d) \/ Released(p, d)
        PROVE  gSession'.chan[c].state # "Unused"
    BY <2>2, <2>4 DEF Refused, Released
  <2>5. ASSUME NEW d \in ChannelIds, NEW reliable \in BOOLEAN, Opened(p, d, reliable)
        PROVE  gSession'.chan[c].state # "Unused"
    BY <2>2, <2>5 DEF Opened
  <2> QED  BY <2>1, <2>2, <2>3, <2>4, <2>5 DEF Taking
<1> QED  BY <1>4, <1>6, <1>7 DEF SameSource, c

\* The gateway takes a packet.
LEMMA StreamTaking ==
    ASSUME WireInv, FitInv, StreamInv, NEW p, Inbound(p), Taking(p), UNCHANGED clientVars
    PROVE  StreamInv'
<1>1. UNCHANGED <<cSession, cClosed, cActive, cDelivered>>
  BY DEF clientVars, tableVars
<1>2. ItemTypes'
  BY <1>1 DEF StreamInv, ItemTypes
<1>3. gLoop = "running" /\ (Connected' => Connected)
  BY <1>1, GatewayTakes DEF Connected
<1>4. ASSUME NEW c \in ChannelIds PROVE StreamOf(c)'
  <2>1. StreamOf(c)
    BY DEF StreamInv
  <2>2. CASE \E reliable \in BOOLEAN : Opened(p, c, reliable)
    BY <2>1, <2>2, StreamOpened
  <2>3. CASE \A reliable \in BOOLEAN : ~Opened(p, c, reliable)
    <3>1. SameSource(c) /\ Silent(c) /\ g2c' \in Seq(ServerPacket) /\ Prolongs(c)
      BY <2>3, TakingSource, TakingReplies, RepliesQuiet
    <3> QED  BY <1>1, <1>3, <2>1, <3>1, StreamKept DEF SameSource
  <2> QED  BY <2>2, <2>3
<1>5. gLoop' = "running" => QueuedStream'
  BY <1>3, QueuedTaking DEF StreamInv
<1> QED  BY <1>2, <1>4, <1>5 DEF StreamInv

-----------------------------------------------------------------------------
(* The engine's side of the stream. *)

\* A command opens no channel and makes none reliable.
Steady(c) ==
    /\ cActive'[c].reliable => cActive[c].reliable
    /\ ~cClosed' =>
          /\ cSession'.chan[c].state = "Active" =>
                /\ cSession.chan[c].state = "Active"
                /\ cActive'[c].reliable = cActive[c].reliable
          /\ cSession'.chan[c].state \notin {"Active", "Closed"} =>
                cSession.chan[c].state \notin {"Active", "Closed"}

\* What the application's command leaves alone.
Commanded ==
    /\ ~cClosed /\ UNCHANGED <<cDelivered, g2c, up, gatewayVars>>
    /\ \A c \in ChannelIds : Steady(c)

\* One control message, or the end of the engine.
LEMMA CommandSteady ==
    ASSUME WireInv, NEW m, NEW pending, NEW active, ClientCommand(m, pending, active),
           UNCHANGED gatewayVars,
           NEW c \in ChannelIds, active[c].reliable => cActive[c].reliable,
           AcceptsControl(cSession, m, Client) =>
               LET t == AfterControl(cSession, m)
               IN  \/ t.chan[c] = cSession.chan[c] /\ active[c] = cActive[c]
                   \/ cSession.chan[c].state = "Unused" /\ t.chan[c].state = "Pending"
                   \/ t.chan[c].state = "Closed"
    PROVE  ~cClosed /\ UNCHANGED <<cDelivered, g2c, up>> /\ Steady(c)
<1>1. CASE ~AcceptsControl(cSession, m, Client)
  BY <1>1 DEF ClientCommand, ClientFail, tableVars, appVars, linkVars, Steady
<1>2. CASE AcceptsControl(cSession, m, Client)
  <2>1. /\ cSession' = AfterControl(cSession, m) /\ cActive' = active
        /\ ~cClosed /\ UNCHANGED <<cDelivered, g2c, up>>
    BY <1>2 DEF ClientCommand, ClientPushControl, appVars
  <2> QED  BY <1>2, <2>1 DEF Steady
<1> QED  BY <1>1, <1>2

\* Every command of the application is such a step.
LEMMA AppCommanded ==
    ASSUME WireInv, App
    PROVE  Commanded
<1>1. /\ cSession \in Shape /\ cActive \in [ChannelIds -> ActiveEntry]
      /\ Kinds \subseteq OperationKind /\ UNCHANGED gatewayVars
  BY WireAssumption DEF WireInv, EngineInv, EngineTypes, App, AppStart, AppAuthenticate, AppTick,
     AppClose, AppOpen, AppUnsubscribe, AppPublish, AppCall, AppCancel, AppReply, AppMisuse
<1>2. CASE AppStart
  <2>1. cSession' = [cSession EXCEPT !.phase = "AwaitServerHello"]
    BY <1>2 DEF AppStart, ClientStart, AfterBootstrap
  <2>2. Rephased(cSession, cSession', "AwaitServerHello")
    BY <1>1, <2>1, AfterPhase DEF Phase
  <2> QED  BY <1>1, <1>2, <2>2 DEF AppStart, ClientStart, tableVars, appVars, Commanded, Steady,
              Rephased
<1>3. CASE AppAuthenticate
  <2> DEFINE m == [type |-> "Authenticate"]
  <2>1. m.type = "Authenticate" /\ ClientCommand(m, cPending, cActive)
    BY <1>3 DEF AppAuthenticate, ClientAuthenticate
  <2> HIDE DEF m
  <2>2. AcceptsControl(cSession, m, Client) => AfterControl(cSession, m).chan = cSession.chan
    BY <1>1, <2>1, AfterAuthentication DEF Rephased
  <2>3. ASSUME NEW c \in ChannelIds
        PROVE  ~cClosed /\ UNCHANGED <<cDelivered, g2c, up>> /\ Steady(c)
    BY <1>1, <2>1, <2>2, CommandSteady
  <2>4. ~cClosed /\ UNCHANGED <<cDelivered, g2c, up>>
    BY <2>1 DEF ClientCommand, ClientFail, appVars, linkVars
  <2> QED  BY <1>1, <2>3, <2>4 DEF Commanded
<1>4. ASSUME NEW c \in ChannelIds, NEW kind \in Kinds, AppOpen(c, kind) PROVE Commanded
  <2> DEFINE m == [type |-> "OpenChannel", ch |-> c, kind |-> kind]
  <2>1. /\ m.type = "OpenChannel" /\ m.ch = c /\ m.kind = kind /\ kind \in OperationKind
        /\ ClientCommand(m, [cPending EXCEPT ![c] = kind], cActive)
    BY <1>1, <1>4 DEF AppOpen, ClientOpen
  <2> HIDE DEF m
  <2>2. AcceptsControl(cSession, m, Client) =>
           /\ cSession.chan[c].state = "Unused"
           /\ Moved(cSession, AfterControl(cSession, m), c, "Pending", kind)
    BY <1>1, <2>1, AfterOpen
  <2>3. ASSUME NEW d \in ChannelIds
        PROVE  ~cClosed /\ UNCHANGED <<cDelivered, g2c, up>> /\ Steady(d)
    BY <1>1, <2>1, <2>2, CommandSteady DEF Moved
  <2> QED  BY <1>1, <2>3 DEF Commanded
<1>5. ASSUME NEW c \in ChannelIds, AppUnsubscribe(c) PROVE Commanded
  <2> DEFINE m == [type |-> "CloseChannel", ch |-> c]
             active == [cActive EXCEPT ![c] = Inactive]
  <2>1. /\ m.type = "CloseChannel" /\ m.ch = c
        /\ ClientCommand(m, [cPending EXCEPT ![c] = NoKind], active)
    BY <1>5 DEF AppUnsubscribe, ClientUnsubscribe
  <2>2. /\ \A d \in ChannelIds : d # c => active[d] = cActive[d]
        /\ active[c].reliable = FALSE
    BY <1>1 DEF Inactive
  <2> HIDE DEF m, active
  <2>3. AcceptsControl(cSession, m, Client) =>
           Moved(cSession, AfterControl(cSession, m), c, "Closed", cSession.chan[c].kind)
    BY <1>1, <2>1, AfterClose
  <2>4. ASSUME NEW d \in ChannelIds
        PROVE  ~cClosed /\ UNCHANGED <<cDelivered, g2c, up>> /\ Steady(d)
    BY <1>1, <2>1, <2>2, <2>3, CommandSteady DEF Moved
  <2> QED  BY <1>1, <2>4 DEF Commanded
<1>6. ASSUME NEW c \in ChannelIds, cActive' = [cActive EXCEPT ![c].next = @ + 1],
             ~cClosed, UNCHANGED <<cSession, cClosed, appVars, g2c, up>>
      PROVE  Commanded
  <2>1. \A d \in ChannelIds : cActive'[d].reliable = cActive[d].reliable
    BY <1>6, NextNumber
  <2> QED  BY <1>1, <1>6, <2>1 DEF Commanded, Steady, appVars
<1>7. ASSUME NEW c \in ChannelIds, AppPublish(c) PROVE Commanded
  BY <1>6, <1>7 DEF AppPublish, ClientSendSample
<1>8. ASSUME NEW c \in ChannelIds, NEW op \in OpIds, NEW opcode,
             ClientSendOperation(c, opcode, op)
      PROVE  Commanded
  BY <1>6, <1>8 DEF ClientSendOperation
<1>9. ASSUME NEW c \in ChannelIds, NEW op \in OpIds,
             AppCall(c, op) \/ AppCancel(c, op) \/ AppReply(c, op)
      PROVE  Commanded
  BY <1>8, <1>9 DEF AppCall, AppCancel, AppReply
<1>10. ASSUME NEW c \in ChannelIds, NEW opcode \in ServiceActionOpcode, NEW op \in OpIds,
              AppMisuse(c, opcode, op)
       PROVE  Commanded
  BY <1>8, <1>10 DEF AppMisuse
<1>11. CASE AppTick
  <2>1. cSession' = cSession
    BY <1>1, <1>11, AfterHeartbeat DEF AppTick, ClientHeartbeat, ClientPushControl, Heartbeat
  <2> QED  BY <1>1, <1>11, <2>1 DEF AppTick, ClientHeartbeat, tableVars, appVars, Commanded,
              Steady
<1>12. CASE AppClose
  BY <1>1, <1>12 DEF AppClose, ClientClose, tableVars, appVars, linkVars, Commanded, Steady
<1> QED  BY <1>2, <1>3, <1>4, <1>5, <1>7, <1>9, <1>10, <1>11, <1>12 DEF App

\* What was in order stays in order when less is asked.
LEMMA StreamCommanded ==
    ASSUME StreamInv, Commanded
    PROVE  StreamInv'
<1>1. /\ ~cClosed /\ UNCHANGED <<cDelivered, g2c, up, gRuntime, gLoop, gSamples, gSession>>
  BY DEF Commanded, gatewayVars
<1>2. ItemTypes' /\ (gLoop' = "running" => QueuedStream')
  BY <1>1 DEF StreamInv, ItemTypes, QueuedStream
<1>3. ASSUME NEW c \in ChannelIds PROVE StreamOf(c)'
  <2>1. Steady(c) /\ DeliveredStream(c) /\ ComingStream(c) /\ ComingFlags(c) /\ Unheard(c)
        /\ (Connected => ProducedStream(c))
    BY <1>1 DEF Commanded, StreamInv, StreamOf
  <2>2. cActive'[c].reliable => cActive[c].reliable
    BY <2>1 DEF Steady
  <2>3. DeliveredStream(c)'
    <3> SUFFICES ASSUME NEW i \in DOMAIN cDelivered[c], cDelivered[c][i].opcode = "ROS_SAMPLE"
                 PROVE  Continues(Given(cDelivered[c], i), cDelivered[c][i].seq,
                                  cDelivered[c][i].from, cActive'[c].reliable)
      BY <1>1, Zenon DEF DeliveredStream
    <3>1. Continues(Given(cDelivered[c], i), cDelivered[c][i].seq,
                    cDelivered[c][i].from, cActive[c].reliable)
      BY <2>1, Zenon DEF DeliveredStream
    <3> QED  BY <2>2, <3>1, Zenon DEF Continues
  <2>4. ComingStream(c)'
    BY <1>1, <2>1, Zenon DEF ComingStream
  <2>5. ~cClosed' => ComingFlags(c)' /\ Unheard(c)'
    <3> SUFFICES ASSUME ~cClosed' PROVE ComingFlags(c)' /\ Unheard(c)'
      OBVIOUS
    <3>1. /\ cSession'.chan[c].state = "Active" =>
                cSession.chan[c].state = "Active" /\ cActive'[c].reliable = cActive[c].reliable
          /\ cSession'.chan[c].state \notin {"Active", "Closed"} =>
                cSession.chan[c].state \notin {"Active", "Closed"}
      BY <2>1 DEF Steady
    <3>2. ComingFlags(c)'
      BY <1>1, <2>1, <3>1, Zenon DEF ComingFlags
    <3>3. Unheard(c)'
      BY <1>1, <2>1, <3>1, Zenon DEF Unheard
    <3> QED  BY <3>2, <3>3
  <2>6. Connected' => ProducedStream(c)'
    <3>1. Connected' => Connected
      BY <1>1 DEF Connected
    <3> QED  BY <1>1, <2>1, <3>1, Zenon DEF ProducedStream
  <2> QED  BY <2>3, <2>4, <2>5, <2>6 DEF StreamOf
<1> QED  BY <1>2, <1>3 DEF StreamInv

\* What the application is given of a data frame.
ItemOf(p) ==
    [opcode |-> p.msg.opcode, opid |-> p.msg.opid, from |-> p.msg.from, seq |-> p.seq]

\* The head is handed to the application if it is data, but for a cancel.
Delivers(h) ==
    IF h.plane = "data" /\ h.msg.opcode # "ACTION_CANCEL"
    THEN /\ cDelivered' = [cDelivered EXCEPT ![h.msg.ch] = Append(@, ItemOf(h))]
         /\ h.msg.ch \in ChannelIds /\ cSession.chan[h.msg.ch].state = "Active"
    ELSE cDelivered' = cDelivered

\* The engine takes the head, or stops.
LEMMA ReceiveDelivers ==
    ASSUME WireInv, FitInv, ClientReceive, UNCHANGED gatewayVars
    PROVE  \/ cClosed' /\ UNCHANGED <<cDelivered, cActive, up>>
           \/ Accepted(Head(g2c)) /\ Delivers(Head(g2c))
<1> DEFINE h == Head(g2c)
<1>1. CASE ClientReceiveBad \/ ClientDiscard
  BY <1>1 DEF ClientReceiveBad, ClientDiscard, tableVars, appVars, clientVars
<1>2. CASE ClientReceiveBootstrap
  <2>1. UNCHANGED <<cDelivered, cActive, up>> /\ h.plane = "bootstrap"
    BY <1>2 DEF ClientReceiveBootstrap, tableVars, appVars
  <2>2. CASE ~cClosed'
    BY <1>2, <2>1, <2>2, BootstrapAccepted DEF Delivers
  <2>3. CASE cClosed'
    BY <2>1, <2>3
  <2> QED  BY <2>2, <2>3
<1>3. ASSUME NEW m, ClientChannelReady(m)
      PROVE  Accepted(h) /\ Delivers(h)
  <2>1. cDelivered' = cDelivered /\ h.plane = "control"
    BY <1>3 DEF ClientChannelReady, ClientAcceptsControl
  <2> QED  BY <1>3, <2>1, ReadyAccepted DEF Delivers
<1>4. CASE ClientHeartbeatEcho
  <2>1. cDelivered' = cDelivered /\ h.plane = "control"
    BY <1>4 DEF ClientHeartbeatEcho, ClientAcceptsControl, appVars
  <2> QED  BY <1>4, <2>1, HeartbeatAcceptedBack DEF Delivers
<1>5. ASSUME NEW m, ClientError(m)
      PROVE  cClosed' /\ UNCHANGED <<cDelivered, cActive, up>>
  BY <1>5, ErrorEnds DEF ClientError, ClientAcceptsControl
<1>6. ASSUME NEW m, ClientOtherControl(m)
      PROVE  Accepted(h) /\ Delivers(h)
  <2>1. cDelivered' = cDelivered /\ h.plane = "control"
    BY <1>6 DEF ClientOtherControl, ClientAcceptsControl, appVars
  <2> QED  BY <1>6, <2>1, OtherAccepted DEF Delivers
<1>7. CASE ClientReceiveData
  <2>1. Delivers(h)
    BY <1>7 DEF ClientReceiveData, Delivers, ItemOf, AcceptsData
  <2> QED  BY <1>7, <2>1, DataAccepted
<1> QED  BY <1>1, <1>2, <1>3, <1>4, <1>5, <1>6, <1>7 DEF ClientReceive

\* A data packet and its item.
LEMMA ItemOfPacket ==
    ASSUME NEW p \in ServerPacket, p.plane = "data"
    PROVE  ItemOf(p) \in Item
<1>1. p.seq \in Nat /\ p.msg \in Frame
  BY DEF ServerPacket
<1>2. /\ \/ p.msg.opcode = "ROS_SAMPLE" /\ p.msg.opid = "none"
         \/ p.msg.opcode \in ServiceActionOpcode /\ p.msg.opid \in OpIds
      /\ p.msg.from \in Nat
  BY <1>1 DEF Frame
<1> QED  BY <1>1, <1>2 DEF ItemOf, Item

\* The stream of channel c, delivered and on its way, is the same as before.
LEMMA PastTaken ==
    ASSUME WireInv, ItemTypes, g2c # <<>>, Delivers(Head(g2c)), NEW c \in ChannelIds
    PROVE  /\ cDelivered'[c] \in Seq(Item)
           /\ \A i \in 1 .. Len(g2c) :
                 Past(cDelivered'[c], Tail(g2c), c, i) = Past(cDelivered[c], g2c, c, i + 1)
           /\ \/ cDelivered'[c] = cDelivered[c] /\ ~IsSample(Head(g2c), c)
              \/ /\ cDelivered'[c] = Append(cDelivered[c], ItemOf(Head(g2c)))
                 /\ Head(g2c).plane = "data"
                 /\ ItemOf(Head(g2c)).opcode = "ROS_SAMPLE" <=> IsSample(Head(g2c), c)
<1> DEFINE h == Head(g2c)
           got == cDelivered[c]
           y == ItemOf(h)
<1>1. /\ g2c \in Seq(ServerPacket) /\ h \in ServerPacket /\ got \in Seq(Item)
      /\ cDelivered \in [ChannelIds -> Seq(Item)]
  BY Taken DEF WireInv, LinkTypes, ItemTypes
<1>2. /\ y.opcode = h.msg.opcode /\ y.seq = h.seq /\ y.from = h.msg.from
      /\ h.plane = "data" => y \in Item
  BY <1>1, ItemOfPacket DEF ItemOf
<1>3. \A i \in 1 .. Len(g2c) :
         Coming(g2c, c, i + 1)
            = (IF IsSample(h, c) THEN {<<h.seq, h.msg.from>>} ELSE {})
              \cup Coming(Tail(g2c), c, i)
  BY <1>1, ComingTaken
<1> HIDE DEF h, y
<1>4. CASE cDelivered'[c] = got /\ ~IsSample(h, c)
  BY <1>1, <1>3, <1>4 DEF Past, h
<1>5. CASE /\ h.plane = "data" /\ h.msg.ch = c
           /\ cDelivered'[c] = Append(got, y)
  <2>1. y \in Item /\ (y.opcode = "ROS_SAMPLE" <=> IsSample(h, c))
    BY <1>2, <1>5 DEF IsSample
  <2>2. cDelivered'[c] \in Seq(Item) /\ Len(cDelivered'[c]) + 1 = Len(got) + 2
    BY <1>1, <1>5, <2>1, Queued
  <2>3. Given(cDelivered'[c], Len(cDelivered'[c]) + 1)
           = Given(got, Len(got) + 1)
             \cup (IF IsSample(h, c) THEN {<<h.seq, h.msg.from>>} ELSE {})
    BY <1>1, <1>2, <1>5, <2>1, <2>2, GivenQueued
  <2>4. ASSUME NEW i \in 1 .. Len(g2c)
        PROVE  Past(cDelivered'[c], Tail(g2c), c, i) = Past(got, g2c, c, i + 1)
    <3>1. Coming(g2c, c, i + 1)
             = (IF IsSample(h, c) THEN {<<h.seq, h.msg.from>>} ELSE {})
               \cup Coming(Tail(g2c), c, i)
      BY <1>3
    <3> QED  BY <2>3, <3>1 DEF Past
  <2> QED  BY <1>5, <2>1, <2>2, <2>4 DEF h, y
<1>6. CASE h.plane = "data" /\ h.msg.opcode # "ACTION_CANCEL"
  <2>1. /\ cDelivered' = [cDelivered EXCEPT ![h.msg.ch] = Append(@, y)]
        /\ h.msg.ch \in ChannelIds
    BY <1>6 DEF Delivers, h, y
  <2>2. CASE h.msg.ch = c
    BY <1>1, <1>5, <1>6, <2>1, <2>2
  <2>3. CASE h.msg.ch # c
    BY <1>1, <1>4, <2>1, <2>3 DEF IsSample
  <2> QED  BY <2>2, <2>3
<1>7. CASE ~(h.plane = "data" /\ h.msg.opcode # "ACTION_CANCEL")
  <2>1. cDelivered' = cDelivered
    BY <1>7 DEF Delivers, h
  <2> QED  BY <1>4, <1>7, <2>1 DEF IsSample
<1> QED  BY <1>6, <1>7

\* The engine takes a packet: what it gives the application goes on where the
\* application was.
LEMMA StreamAccepted ==
    ASSUME WireInv, FitInv, StreamInv, Accepted(Head(g2c)), Delivers(Head(g2c))
    PROVE  StreamInv'
<1> DEFINE h == Head(g2c)
<1>1. /\ ~cClosed /\ ~cClosed' /\ g2c # <<>> /\ g2c' = Tail(g2c)
      /\ UNCHANGED <<up, gRuntime, gLoop, gSamples, gSession>> /\ Connected' = Connected
  BY DEF Accepted, gatewayVars, Connected
<1>2. /\ g2c \in Seq(ServerPacket) /\ h = g2c[1] /\ 1 \in DOMAIN g2c /\ Len(g2c) \in Nat \ {0}
      /\ DOMAIN g2c = 1 .. Len(g2c) /\ DOMAIN Tail(g2c) = 1 .. Len(g2c) - 1
      /\ Len(Tail(g2c)) = Len(g2c) - 1 /\ h \in ServerPacket
      /\ \A i \in 1 .. Len(g2c) - 1 : Tail(g2c)[i] = g2c[i + 1]
  BY <1>1, Taken DEF WireInv, LinkTypes
<1>3. ItemTypes
  BY DEF StreamInv
<1>4. ItemTypes'
  <2>1. \A c \in ChannelIds : cDelivered'[c] \in Seq(Item)
    BY <1>1, <1>3, PastTaken
  <2>2. cDelivered' = [c \in ChannelIds |-> cDelivered'[c]]
    BY <1>3 DEF Delivers, ItemTypes
  <2> QED  BY <2>1, <2>2 DEF ItemTypes
<1>5. gLoop' = "running" => QueuedStream'
  BY <1>1 DEF StreamInv, QueuedStream
<1>6. ASSUME NEW c \in ChannelIds PROVE StreamOf(c)'
  <2> DEFINE got == cDelivered[c]
             y == ItemOf(h)
  <2>1. /\ DeliveredStream(c) /\ ComingStream(c) /\ ComingFlags(c) /\ Unheard(c)
        /\ Connected => ProducedStream(c)
    BY <1>1 DEF StreamInv, StreamOf
  <2>2. /\ \A i \in 1 .. Len(g2c) :
              Past(cDelivered'[c], Tail(g2c), c, i) = Past(got, g2c, c, i + 1)
        /\ \/ cDelivered'[c] = got /\ ~IsSample(h, c)
           \/ /\ cDelivered'[c] = Append(got, y) /\ h.plane = "data"
              /\ y.opcode = "ROS_SAMPLE" <=> IsSample(h, c)
    BY <1>1, <1>3, PastTaken
  <2>3. got \in Seq(Item) /\ (h.plane = "data" => y \in Item)
        /\ y.seq = h.seq /\ y.from = h.msg.from
    BY <1>2, <1>3, ItemOfPacket DEF ItemTypes, ItemOf
  <2>4. \/ cSession'.chan[c] = cSession.chan[c] /\ cActive'[c] = cActive[c]
        \/ /\ About(h, "ChannelReady", c)
           /\ cSession'.chan[c].state = ResultState(h.msg.result)
           /\ IsSuccess(h.msg.result) => cActive'[c].reliable = h.msg.reliable
           /\ ~IsSuccess(h.msg.result) => cActive'[c] = cActive[c]
    BY DEF Accepted
  <2>5. About(h, "ChannelReady", c) =>
           cSession.chan[c].state = "Pending" /\ h.plane = "control"
    <3>1. ChannelFits(cSession, g2c, 1, c)
      BY <1>1, EngineHeadFits
    <3> QED  BY <1>2, <3>1 DEF ChannelFits, About
  <2>6. ResultState(h.msg.result) \notin {"Unused", "Pending", "Closed"}
        /\ (ResultState(h.msg.result) = "Active" => IsSuccess(h.msg.result))
    BY DEF ResultState
  <2> HIDE DEF h, y
  <2>7. ComingStream(c)'
    <3> SUFFICES ASSUME NEW i \in DOMAIN Tail(g2c), IsSample(Tail(g2c)[i], c)
                 PROVE  Continues(Past(cDelivered'[c], Tail(g2c), c, i), Tail(g2c)[i].seq,
                                  Tail(g2c)[i].msg.from, Tail(g2c)[i].msg.reliable)
      BY <1>1, Zenon DEF ComingStream
    <3>1. i \in 1 .. Len(g2c) /\ i + 1 \in DOMAIN g2c /\ Tail(g2c)[i] = g2c[i + 1]
      BY <1>2
    <3>2. Continues(Past(got, g2c, c, i + 1), g2c[i + 1].seq, g2c[i + 1].msg.from,
                    g2c[i + 1].msg.reliable)
      BY <2>1, <3>1 DEF ComingStream
    <3> QED  BY <2>2, <3>1, <3>2
  <2>8. Connected' => ProducedStream(c)'
    <3> SUFFICES ASSUME Connected, gRuntime[c] # NoRuntime
                 PROVE  /\ Continues(Past(cDelivered'[c], Tail(g2c), c, Len(Tail(g2c)) + 1),
                                     gRuntime[c].seqOut, gRuntime[c].entity,
                                     gRuntime[c].reliable)
                        /\ \A i \in DOMAIN Tail(g2c) : IsSample(Tail(g2c)[i], c) =>
                              Tail(g2c)[i].msg.reliable = gRuntime[c].reliable
      BY <1>1, Zenon DEF ProducedStream
    <3>1. Len(Tail(g2c)) + 1 = Len(g2c) /\ Len(g2c) \in 1 .. Len(g2c)
      BY <1>2
    <3>2. Past(cDelivered'[c], Tail(g2c), c, Len(g2c)) = Past(got, g2c, c, Len(g2c) + 1)
      BY <2>2, <3>1
    <3>3. ProducedStream(c)
      BY <2>1
    <3>4. \A i \in DOMAIN Tail(g2c) : i + 1 \in DOMAIN g2c /\ Tail(g2c)[i] = g2c[i + 1]
      BY <1>2
    <3> QED  BY <3>1, <3>2, <3>3, <3>4 DEF ProducedStream
  <2>9. CASE IsSample(h, c)
    <3>1. h.plane = "data" /\ cDelivered'[c] = Append(got, y) /\ y.opcode = "ROS_SAMPLE"
      BY <2>2, <2>9 DEF IsSample
    <3>2. /\ cSession'.chan[c] = cSession.chan[c] /\ cActive'[c] = cActive[c]
          /\ cSession.chan[c].state = "Active"
      <4>1. h.msg.opcode # "ACTION_CANCEL" /\ h.msg.ch = c
        BY <2>9 DEF IsSample
      <4> QED  BY <2>4, <2>5, <3>1, <4>1 DEF Delivers, h
    <3>3. Continues(Given(got, Len(got) + 1), y.seq, y.from, cActive[c].reliable)
      <4>1. Past(got, g2c, c, 1) = Given(got, Len(got) + 1)
        BY ComingFirst DEF Past
      <4>2. Continues(Past(got, g2c, c, 1), g2c[1].seq, g2c[1].msg.from, g2c[1].msg.reliable)
            /\ g2c[1].msg.reliable = cActive[c].reliable
        BY <1>2, <2>1, <2>9, <3>2 DEF ComingStream, ComingFlags
      <4> QED  BY <1>2, <2>3, <4>1, <4>2
    <3>4. DeliveredStream(c)'
      <4> SUFFICES ASSUME NEW i \in DOMAIN Append(got, y),
                          Append(got, y)[i].opcode = "ROS_SAMPLE"
                   PROVE  Continues(Given(Append(got, y), i), Append(got, y)[i].seq,
                                    Append(got, y)[i].from, cActive[c].reliable)
        BY <3>1, <3>2, Zenon DEF DeliveredStream
      <4>1. /\ Len(got) \in Nat /\ DOMAIN Append(got, y) = 1 .. Len(got) + 1
            /\ DOMAIN got = 1 .. Len(got)
            /\ \A k \in 1 .. Len(got) : Append(got, y)[k] = got[k]
            /\ Append(got, y)[Len(got) + 1] = y
        BY <2>3, <3>1, Queued
      <4>2. Given(Append(got, y), i) = Given(got, i)
        <5>1. i \in Nat /\ \A j \in 1 .. i - 1 : Append(got, y)[j] = got[j]
          BY <4>1
        <5> QED  BY <5>1, GivenPrefix
      <4>3. CASE i \in 1 .. Len(got)
        BY <2>1, <4>1, <4>2, <4>3 DEF DeliveredStream
      <4>4. CASE i = Len(got) + 1
        BY <3>3, <4>1, <4>2, <4>4
      <4> QED  BY <4>1, <4>3, <4>4
    <3>5. ComingFlags(c)'
      <4> SUFFICES ASSUME NEW i \in DOMAIN Tail(g2c), IsSample(Tail(g2c)[i], c)
                   PROVE  /\ Tail(g2c)[i].msg.reliable = cActive[c].reliable
                          /\ \A j \in DOMAIN Tail(g2c) : Announces(Tail(g2c)[j], c) =>
                                Tail(g2c)[j].msg.reliable = Tail(g2c)[i].msg.reliable
        BY <1>1, <3>2, Zenon DEF ComingFlags
      <4>1. \A k \in DOMAIN Tail(g2c) : k + 1 \in DOMAIN g2c /\ Tail(g2c)[k] = g2c[k + 1]
        BY <1>2
      <4> QED  BY <2>1, <3>2, <4>1, Zenon DEF ComingFlags
    <3>6. Unheard(c)'
      BY <3>2 DEF Unheard
    <3> QED  BY <2>7, <2>8, <3>4, <3>5, <3>6 DEF StreamOf
  <2>10. CASE ~IsSample(h, c)
    <3>1. /\ \A i \in DOMAIN cDelivered'[c] : cDelivered'[c][i].opcode = "ROS_SAMPLE" =>
                /\ i \in DOMAIN got /\ cDelivered'[c][i] = got[i]
                /\ Given(cDelivered'[c], i) = Given(got, i)
          /\ Given(cDelivered'[c], Len(cDelivered'[c]) + 1) = Given(got, Len(got) + 1)
      <4>1. CASE cDelivered'[c] = got
        BY <4>1
      <4>2. CASE /\ cDelivered'[c] = Append(got, y) /\ h.plane = "data"
                 /\ y.opcode # "ROS_SAMPLE"
        <5>1. /\ Len(got) \in Nat /\ DOMAIN Append(got, y) = 1 .. Len(got) + 1
              /\ Len(Append(got, y)) + 1 = Len(got) + 2
              /\ DOMAIN got = 1 .. Len(got)
              /\ \A k \in 1 .. Len(got) : Append(got, y)[k] = got[k]
              /\ Append(got, y)[Len(got) + 1] = y
          BY <2>3, <4>2, Queued
        <5>2. ASSUME NEW i \in 1 .. Len(got) PROVE Given(Append(got, y), i) = Given(got, i)
          <6>1. i \in Nat /\ \A j \in 1 .. i - 1 : Append(got, y)[j] = got[j]
            BY <5>1
          <6> QED  BY <6>1, GivenPrefix
        <5>3. Given(Append(got, y), Len(got) + 2) = Given(got, Len(got) + 1)
          BY <2>3, <4>2, GivenQueued
        <5> QED  BY <4>2, <5>1, <5>2, <5>3
      <4> QED  BY <2>2, <2>10, <4>1, <4>2
    <3>2. DeliveredStream(c)'
      <4> SUFFICES ASSUME NEW i \in DOMAIN cDelivered'[c],
                          cDelivered'[c][i].opcode = "ROS_SAMPLE"
                   PROVE  Continues(Given(cDelivered'[c], i), cDelivered'[c][i].seq,
                                    cDelivered'[c][i].from, cActive'[c].reliable)
        BY Zenon DEF DeliveredStream
      <4>1. /\ i \in DOMAIN got /\ cDelivered'[c][i] = got[i]
            /\ Given(cDelivered'[c], i) = Given(got, i)
        BY <3>1
      <4>2. cActive'[c] = cActive[c]
        <5> SUFFICES ASSUME About(h, "ChannelReady", c) PROVE FALSE
          BY <2>4
        <5>1. Given(got, Len(got) + 1) = {}
          BY <2>1, <2>5 DEF Unheard
        <5>2. Len(got) + 1 \in Nat /\ i \in 1 .. (Len(got) + 1) - 1
          BY <2>3, <4>1, LenProperties
        <5> QED  BY <4>1, <5>1, <5>2, GivenEach
      <4> QED  BY <2>1, <4>1, <4>2 DEF DeliveredStream
    <3>3. ComingFlags(c)'
      <4> SUFFICES ASSUME NEW i \in DOMAIN Tail(g2c), IsSample(Tail(g2c)[i], c)
                   PROVE  /\ cSession'.chan[c].state = "Active" =>
                                Tail(g2c)[i].msg.reliable = cActive'[c].reliable
                          /\ \A j \in DOMAIN Tail(g2c) : Announces(Tail(g2c)[j], c) =>
                                Tail(g2c)[j].msg.reliable = Tail(g2c)[i].msg.reliable
        BY <1>1, Zenon DEF ComingFlags
      <4>1. \A k \in DOMAIN Tail(g2c) : k + 1 \in DOMAIN g2c /\ Tail(g2c)[k] = g2c[k + 1]
        BY <1>2
      <4>2. /\ cSession.chan[c].state = "Active" =>
                  g2c[i + 1].msg.reliable = cActive[c].reliable
            /\ \A j \in DOMAIN g2c : Announces(g2c[j], c) =>
                  g2c[j].msg.reliable = g2c[i + 1].msg.reliable
        BY <2>1, <4>1, Zenon DEF ComingFlags
      <4>3. cSession'.chan[c].state = "Active" =>
               g2c[i + 1].msg.reliable = cActive'[c].reliable
        <5>1. CASE cSession'.chan[c] = cSession.chan[c] /\ cActive'[c] = cActive[c]
          BY <4>2, <5>1
        <5>2. CASE /\ About(h, "ChannelReady", c) /\ IsSuccess(h.msg.result)
                   /\ cActive'[c].reliable = h.msg.reliable
          BY <1>2, <4>2, <5>2 DEF Announces
        <5> QED  BY <2>4, <2>6, <5>1, <5>2
      <4> QED  BY <4>1, <4>2, <4>3
    <3>4. Unheard(c)'
      <4>1. cSession'.chan[c].state \notin {"Active", "Closed"} =>
               cSession.chan[c].state \notin {"Active", "Closed"}
        BY <2>4, <2>5
      <4> QED  BY <2>1, <3>1, <4>1 DEF Unheard
    <3> QED  BY <2>7, <2>8, <3>2, <3>3, <3>4 DEF StreamOf
  <2> QED  BY <2>9, <2>10
<1> QED  BY <1>4, <1>5, <1>6 DEF StreamInv

-----------------------------------------------------------------------------
(* The backend's side of the stream. *)

\* The numbers of a stream are numbers.
LEMMA PastNumbers ==
    ASSUME WireInv, ItemTypes, NEW c \in ChannelIds
    PROVE  \A q \in Past(cDelivered[c], g2c, c, Len(g2c) + 1) : q[1] \in Nat
<1>1. /\ cDelivered[c] \in Seq(Item) /\ g2c \in Seq(ServerPacket)
      /\ Len(cDelivered[c]) \in Nat /\ Len(g2c) \in Nat
      /\ (Len(cDelivered[c]) + 1) - 1 = Len(cDelivered[c]) /\ (Len(g2c) + 1) - 1 = Len(g2c)
  BY LenProperties DEF ItemTypes, WireInv, LinkTypes
<1>2. ASSUME NEW q \in Given(cDelivered[c], Len(cDelivered[c]) + 1) PROVE q[1] \in Nat
  <2>1. PICK k \in 1 .. Len(cDelivered[c]) : q = <<cDelivered[c][k].seq, cDelivered[c][k].from>>
    BY <1>1, Zenon DEF Given
  <2>2. cDelivered[c][k] \in Item
    BY <1>1, ElementOfSeq
  <2> QED  BY <2>1, <2>2 DEF Item
<1>3. ASSUME NEW q \in Coming(g2c, c, Len(g2c) + 1) PROVE q[1] \in Nat
  <2>1. PICK k \in 1 .. Len(g2c) : q = <<g2c[k].seq, g2c[k].msg.from>>
    BY <1>1, Zenon DEF Coming
  <2>2. g2c[k] \in ServerPacket
    BY <1>1, ElementOfSeq
  <2> QED  BY <2>1, <2>2 DEF ServerPacket
<1> QED  BY <1>2, <1>3 DEF Past

\* A number later, the stream can go on as well if gaps are allowed, and if
\* they are not, once the number is in the past.
LEMMA ContinuesNext ==
    ASSUME NEW past, NEW n \in Nat, NEW from, NEW reliable,
           Continues(past, n, from, reliable), \A q \in past : q[1] \in Nat
    PROVE  /\ ~reliable => Continues(past, n + 1, from, reliable)
           /\ Continues(past \cup {<<n, from>>}, n + 1, from, reliable)
<1>1. \A q \in past : q[1] < n + 1 /\ q[2] = from
  BY DEF Continues
<1>2. ~reliable => Continues(past, n + 1, from, reliable)
  BY <1>1 DEF Continues
<1>3. <<n, from>>[1] = n /\ <<n, from>>[2] = from /\ n < n + 1
  OBVIOUS
<1>4. \A q \in past \cup {<<n, from>>} : q[1] < n + 1 /\ q[2] = from
  BY <1>1, <1>3
<1>5. \E q \in past \cup {<<n, from>>} : q[1] + 1 = n + 1
  BY <1>3
<1> QED  BY <1>2, <1>4, <1>5 DEF Continues

\* The counter of samples moves, with the sample on its way or not.
LEMMA StreamSample ==
    ASSUME WireInv, FitInv, StreamInv, NEW c \in ChannelIds, gRuntime[c] # NoRuntime,
           gLoop = "running", gLoop' = "running", up' = up,
           UNCHANGED <<cSession, cClosed, cActive, cDelivered>>,
           NEW x \in ServerPacket,
           IsSample(x, c), x.seq = gRuntime[c].seqOut, x.msg.from = gRuntime[c].entity,
           x.msg.reliable = gRuntime[c].reliable,
           \/ up /\ g2c' = Append(g2c, x)
           \/ g2c' = g2c /\ (up => ~gRuntime[c].reliable),
           gRuntime'[c].seqOut = gRuntime[c].seqOut + 1,
           gRuntime'[c].entity = gRuntime[c].entity,
           gRuntime'[c].reliable = gRuntime[c].reliable
    PROVE  StreamOf(c)'
<1>1. DeliveredStream(c)'
  BY DEF StreamInv, StreamOf, DeliveredStream
<1>2. /\ g2c \in Seq(ServerPacket) /\ gRuntime[c].seqOut \in Nat /\ Connected' = Connected
      /\ ~up => g2c = <<>>
  BY DEF WireInv, LinkTypes, GatewayInv, BackendTypes, Runtime, Connected, Streams
<1>3. CASE cClosed
  BY <1>1, <1>3 DEF StreamOf, Connected
<1>4. ASSUME ~cClosed, g2c' = g2c
      PROVE  StreamOf(c)'
  <2>1. ComingStream(c)' /\ ComingFlags(c)' /\ Unheard(c)'
    BY <1>4 DEF StreamInv, StreamOf, ComingStream, ComingFlags, Unheard
  <2>2. Connected => ProducedStream(c)'
    <3> SUFFICES ASSUME Connected PROVE ProducedStream(c)'
      OBVIOUS
    <3>1. ~gRuntime[c].reliable /\ ProducedStream(c)
      <4>1. g2c' # Append(g2c, x)
        BY <1>2, <1>4, Queued
      <4> QED  BY <4>1 DEF Connected, StreamInv, StreamOf
    <3>2. Continues(Past(cDelivered[c], g2c, c, Len(g2c) + 1), gRuntime[c].seqOut + 1,
                    gRuntime[c].entity, gRuntime[c].reliable)
      BY <1>2, <3>1, PastNumbers, ContinuesNext DEF ProducedStream, StreamInv
    <3> QED  BY <1>4, <3>1, <3>2 DEF ProducedStream
  <2> QED  BY <1>1, <1>2, <2>1, <2>2 DEF StreamOf
<1>5. ASSUME ~cClosed, up, g2c' = Append(g2c, x)
      PROVE  StreamOf(c)'
  <2>1. Connected /\ StreamOf(c) /\ FlagsOf(c)
    BY <1>5 DEF Connected, StreamInv, FitInv, Flags
  <2>2. /\ Len(g2c) \in Nat /\ Len(g2c') = Len(g2c) + 1
        /\ DOMAIN g2c = 1 .. Len(g2c) /\ DOMAIN g2c' = 1 .. Len(g2c) + 1
        /\ \A i \in 1 .. Len(g2c) : g2c'[i] = g2c[i]
        /\ g2c'[Len(g2c) + 1] = x
    BY <1>2, <1>5, Queued
  <2>3. ASSUME NEW i \in 1 .. Len(g2c) + 1 PROVE Coming(g2c', c, i) = Coming(g2c, c, i)
    <3>1. i \in Nat /\ \A j \in 1 .. i - 1 : g2c'[j] = g2c[j]
      BY <2>2
    <3> QED  BY <3>1, ComingPrefix
  <2>4. Continues(Past(cDelivered[c], g2c, c, Len(g2c) + 1), x.seq, x.msg.from, x.msg.reliable)
    BY <2>1 DEF StreamOf, ProducedStream
  <2>5. ComingStream(c)'
    <3> SUFFICES ASSUME NEW i \in DOMAIN g2c', IsSample(g2c'[i], c)
                 PROVE  Continues(Past(cDelivered[c], g2c', c, i), g2c'[i].seq,
                                  g2c'[i].msg.from, g2c'[i].msg.reliable)
      BY Zenon DEF ComingStream
    <3>1. Past(cDelivered[c], g2c', c, i) = Past(cDelivered[c], g2c, c, i)
      BY <2>2, <2>3 DEF Past
    <3>2. CASE i \in 1 .. Len(g2c)
      <4>1. Continues(Past(cDelivered[c], g2c, c, i), g2c[i].seq, g2c[i].msg.from,
                      g2c[i].msg.reliable)
        BY <1>5, <2>1, <2>2, <3>2 DEF StreamOf, ComingStream
      <4> QED  BY <2>2, <3>1, <3>2, <4>1
    <3>3. CASE i = Len(g2c) + 1
      BY <2>2, <2>4, <3>1, <3>3
    <3> QED  BY <2>2, <3>2, <3>3
  <2>6. ComingFlags(c)'
    <3> SUFFICES ASSUME NEW i \in DOMAIN g2c', IsSample(g2c'[i], c)
                 PROVE  /\ cSession.chan[c].state = "Active" =>
                              g2c'[i].msg.reliable = cActive[c].reliable
                        /\ \A j \in DOMAIN g2c' : Announces(g2c'[j], c) =>
                              g2c'[j].msg.reliable = g2c'[i].msg.reliable
      BY Zenon DEF ComingFlags
    <3>1. g2c'[i].msg.reliable = gRuntime[c].reliable
      BY <2>1, <2>2 DEF StreamOf, ProducedStream
    <3>2. cSession.chan[c].state = "Active" => cActive[c].reliable = gRuntime[c].reliable
      BY <2>1 DEF FlagsOf
    <3>3. ~Announces(x, c)
      BY DEF Announces, About, IsSample
    <3>4. \A j \in DOMAIN g2c' : Announces(g2c'[j], c) =>
             g2c'[j].msg.reliable = gRuntime[c].reliable
      BY <2>1, <2>2, <3>3 DEF FlagsOf, Announces
    <3> QED  BY <3>1, <3>2, <3>4
  <2>7. Unheard(c)'
    BY <1>5, <2>1 DEF StreamOf, Unheard
  <2>8. ProducedStream(c)'
    <3>1. Coming(g2c', c, Len(g2c') + 1)
             = Coming(g2c, c, Len(g2c) + 1) \cup {<<x.seq, x.msg.from>>}
      <4>1. Len(g2c') + 1 = Len(g2c) + 2
        BY <2>2
      <4> QED  BY <1>2, <1>5, <4>1, ComingQueued
    <3>2. Past(cDelivered[c], g2c', c, Len(g2c') + 1)
             = Past(cDelivered[c], g2c, c, Len(g2c) + 1) \cup {<<x.seq, x.msg.from>>}
      BY <3>1 DEF Past
    <3>3. Continues(Past(cDelivered[c], g2c', c, Len(g2c') + 1), gRuntime[c].seqOut + 1,
                    gRuntime[c].entity, gRuntime[c].reliable)
      <4>1. \A q \in Past(cDelivered[c], g2c, c, Len(g2c) + 1) : q[1] \in Nat
        BY PastNumbers DEF StreamInv
      <4>2. Continues(Past(cDelivered[c], g2c, c, Len(g2c) + 1), gRuntime[c].seqOut,
                      gRuntime[c].entity, gRuntime[c].reliable)
        BY <2>1 DEF StreamOf, ProducedStream
      <4>3. Past(cDelivered[c], g2c', c, Len(g2c') + 1)
               = Past(cDelivered[c], g2c, c, Len(g2c) + 1)
                 \cup {<<gRuntime[c].seqOut, gRuntime[c].entity>>}
        BY <3>2
      <4>4. Continues(Past(cDelivered[c], g2c, c, Len(g2c) + 1)
                         \cup {<<gRuntime[c].seqOut, gRuntime[c].entity>>},
                      gRuntime[c].seqOut + 1, gRuntime[c].entity, gRuntime[c].reliable)
        BY <1>2, <4>1, <4>2, ContinuesNext, Zenon
      <4> QED  BY <4>3, <4>4, Zenon
    <3>4. \A i \in DOMAIN g2c' : IsSample(g2c'[i], c) =>
             g2c'[i].msg.reliable = gRuntime[c].reliable
      BY <2>1, <2>2 DEF StreamOf, ProducedStream
    <3> QED  BY <3>3, <3>4 DEF ProducedStream
  <2> QED  BY <1>1, <2>5, <2>6, <2>7, <2>8 DEF StreamOf
<1> QED  BY <1>3, <1>4, <1>5

\* admit_sample: of one channel, the others are left alone.
LEMMA StreamAdmitted ==
    ASSUME WireInv, FitInv, StreamInv, NEW fits \in BOOLEAN, GatewaySample(fits),
           UNCHANGED clientVars
    PROVE  StreamInv'
<1> DEFINE s == Head(gSamples)
           c == s.ch
           rt == gRuntime[c]
           f == Sample(c, rt.reliable, s.from)
           x == Data(f, rt.seqOut)
<1>1. /\ gLoop = "running" /\ gSamples # <<>> /\ gSamples' = Tail(gSamples)
      /\ UNCHANGED <<gSession, gLoop, up>>
      /\ \/ UNCHANGED <<gRuntime, g2c>>
         \/ /\ rt.kind = "TopicSubscribe" /\ (~fits => ~rt.reliable)
            /\ gRuntime' = [gRuntime EXCEPT ![c] = [rt EXCEPT !.seqOut = rt.seqOut + 1]]
            /\ g2c' = IF fits THEN Sent(g2c, <<x>>) ELSE g2c
  BY DEF GatewaySample
<1>2. /\ gSamples \in Seq([ch : ChannelIds, from : Nat]) /\ g2c \in Seq(ServerPacket)
      /\ gRuntime \in [ChannelIds -> Runtime \cup {NoRuntime}]
      /\ UNCHANGED <<cSession, cClosed, cActive, cDelivered>> /\ Connected' = Connected
  BY <1>1 DEF WireInv, GatewayInv, BackendTypes, LinkTypes, clientVars, tableVars, Connected
<1>3. /\ s \in [ch : ChannelIds, from : Nat] /\ s = gSamples[1]
      /\ 1 \in DOMAIN gSamples /\ DOMAIN gSamples = 1 .. Len(gSamples)
      /\ Len(gSamples) \in Nat /\ DOMAIN Tail(gSamples) = 1 .. Len(gSamples) - 1
      /\ \A i \in 1 .. Len(gSamples) - 1 : Tail(gSamples)[i] = gSamples[i + 1]
  <2> DEFINE R == [ch : ChannelIds, from : Nat]
  <2>1. gSamples \in Seq(R) /\ gSamples # <<>>
    BY <1>1, <1>2
  <2> HIDE DEF R
  <2>2. /\ Head(gSamples) \in R /\ Head(gSamples) = gSamples[1]
        /\ 1 \in DOMAIN gSamples /\ DOMAIN gSamples = 1 .. Len(gSamples)
        /\ Len(gSamples) \in Nat /\ DOMAIN Tail(gSamples) = 1 .. Len(gSamples) - 1
        /\ \A i \in 1 .. Len(gSamples) - 1 : Tail(gSamples)[i] = gSamples[i + 1]
    BY <2>1, Taken
  <2> QED  BY <2>2 DEF R
<1>4. c \in ChannelIds /\ s.from \in Nat /\ QueuedStream
  <2> HIDE DEF s
  <2> QED  BY <1>1, <1>3 DEF StreamInv
<1>5. rt # NoRuntime => s.from = rt.entity /\ rt \in Runtime
  BY <1>2, <1>3, <1>4 DEF QueuedStream
<1> HIDE DEF s, c
<1>6. ASSUME NEW d \in ChannelIds
      PROVE  /\ gRuntime'[d] = NoRuntime <=> gRuntime[d] = NoRuntime
             /\ gRuntime'[d].entity = gRuntime[d].entity
             /\ gRuntime'[d].reliable = gRuntime[d].reliable
             /\ d # c => gRuntime'[d] = gRuntime[d]
  <2>1. CASE gRuntime' = gRuntime
    BY <2>1
  <2>2. CASE /\ rt.kind = "TopicSubscribe"
             /\ gRuntime' = [gRuntime EXCEPT ![c] = [rt EXCEPT !.seqOut = rt.seqOut + 1]]
    <3>1. rt # NoRuntime
      BY <2>2 DEF NoRuntime, NoKind
    <3>2. d # c => gRuntime'[d] = gRuntime[d]
      BY <1>2, <1>4, <2>2
    <3> QED  BY <1>4, <2>2, <3>1, <3>2, CounterMoved
  <2> QED  BY <1>1, <2>1, <2>2
<1>7. QueuedStream'
  <2> SUFFICES ASSUME NEW k \in DOMAIN Tail(gSamples)
               PROVE  LET z == Tail(gSamples)[k]
                      IN  /\ gSession.chan[z.ch].state # "Unused"
                          /\ gRuntime'[z.ch] # NoRuntime => z.from = gRuntime'[z.ch].entity
    BY <1>1, Zenon DEF QueuedStream
  <2>1. k + 1 \in DOMAIN gSamples /\ Tail(gSamples)[k] = gSamples[k + 1]
    BY <1>3
  <2>2. gSamples[k + 1] \in [ch : ChannelIds, from : Nat]
    BY <1>2, <1>3, <2>1, ElementOfSeq
  <2> QED  BY <1>4, <1>6, <2>1, <2>2 DEF QueuedStream
<1>8. ItemTypes'
  BY <1>2 DEF StreamInv, ItemTypes
<1>9. ASSUME NEW d \in ChannelIds, Prolongs(d), Silent(d), gRuntime'[d] = gRuntime[d],
             g2c' \in Seq(ServerPacket)
      PROVE  StreamOf(d)'
  <2>1. StreamOf(d)
    BY DEF StreamInv
  <2> QED  BY <1>2, <1>9, <2>1, StreamKept
<1>10. CASE UNCHANGED <<gRuntime, g2c>>
  <2>1. ASSUME NEW d \in ChannelIds PROVE StreamOf(d)'
    BY <1>2, <1>9, <1>10, ProlongsNone DEF Silent
  <2> QED  BY <1>7, <1>8, <2>1 DEF StreamInv
<1>11. CASE /\ rt.kind = "TopicSubscribe" /\ (~fits => ~rt.reliable)
            /\ gRuntime' = [gRuntime EXCEPT ![c] = [rt EXCEPT !.seqOut = rt.seqOut + 1]]
            /\ g2c' = IF fits THEN Sent(g2c, <<x>>) ELSE g2c
  <2>1. rt # NoRuntime
    BY <1>11 DEF NoRuntime, NoKind
  <2>2. /\ rt \in Runtime /\ rt.reliable \in BOOLEAN /\ rt.seqOut \in Nat
        /\ s.from = rt.entity
    BY <1>5, <2>1 DEF Runtime
  <2>3. /\ f \in Frame /\ f.ch = c /\ f.opcode = "ROS_SAMPLE" /\ f.from = s.from
        /\ f.reliable = rt.reliable
    BY <1>4, <2>2 DEF Sample, Frame
  <2> HIDE DEF f
  <2>4. x \in ServerPacket /\ x.plane = "data" /\ x.msg = f /\ x.seq = rt.seqOut
    BY <2>2, <2>3, DataPacket DEF Data
  <2> HIDE DEF x
  <2>5. \/ up /\ g2c' = Append(g2c, x)
        \/ g2c' = g2c /\ (up => ~rt.reliable)
    <3>1. g2c \o <<x>> = Append(g2c, x)
      BY <1>2, <2>4, SentOne
    <3> QED  BY <1>11, <3>1 DEF Sent
  <2>6. g2c' \in Seq(ServerPacket) /\ \A d : IsSample(x, d) <=> d = c
    <3>1. CASE g2c' = g2c
      BY <1>2, <2>3, <2>4, <3>1 DEF IsSample
    <3>2. CASE g2c' = Append(g2c, x)
      <4>1. g2c' \in Seq(ServerPacket)
        BY <1>2, <2>4, <3>2, Queued
      <4> QED  BY <2>3, <2>4, <4>1 DEF IsSample
    <3> QED  BY <2>5, <3>1, <3>2
  <2>7. ASSUME NEW d \in ChannelIds PROVE StreamOf(d)'
    <3>1. CASE d = c
      <4>1. /\ gRuntime'[c].seqOut = gRuntime[c].seqOut + 1
            /\ gRuntime'[c].entity = gRuntime[c].entity
            /\ gRuntime'[c].reliable = gRuntime[c].reliable
        <5>1. gRuntime'[c] = [rt EXCEPT !.seqOut = rt.seqOut + 1]
          BY <1>2, <1>4, <1>11
        <5> QED  BY <1>4, <1>6, <2>2, <5>1 DEF Runtime
      <4>2. /\ IsSample(x, c) /\ x.seq = gRuntime[c].seqOut
            /\ x.msg.from = gRuntime[c].entity /\ x.msg.reliable = gRuntime[c].reliable
        BY <2>2, <2>3, <2>4, <2>6
      <4>3. gLoop' = "running" /\ up' = up
        BY <1>1
      <4> QED  BY <1>1, <1>2, <1>4, <2>1, <2>4, <2>5, <3>1, <4>1, <4>2, <4>3, StreamSample
    <3>2. CASE d # c
      <4>1. ~IsSample(x, d) /\ ~Announces(x, d)
        BY <2>4, <2>6, <3>2 DEF Announces, About
      <4>2. Prolongs(d) /\ Silent(d)
        <5>1. CASE g2c' = g2c
          BY <1>2, <5>1, ProlongsNone DEF Silent
        <5>2. CASE g2c' = Append(g2c, x)
          BY <1>2, <2>4, <4>1, <5>2, ProlongsOne, SilentOne
        <5> QED  BY <2>5, <5>1, <5>2
      <4> QED  BY <1>6, <1>9, <2>6, <3>2, <4>2
    <3> QED  BY <3>1, <3>2
  <2> QED  BY <1>7, <1>8, <2>7 DEF StreamInv
<1> QED  BY <1>1, <1>10, <1>11

\* push_service_request, push_action_inbound: what is sent, and what of the
\* runtime stays.
LEMMA InboundSends ==
    ASSUME WireInv, FitInv, NEW s, s.ch \in ChannelIds, s.opid \in OpIds,
           NEW kind, NEW opcode, PushInbound(s, kind, opcode),
           \/ kind = "ServiceServer" /\ opcode = "SERVICE_REQUEST"
           \/ kind = "ActionServer" /\ opcode \in {"ACTION_GOAL", "ACTION_CANCEL"},
           gLoop = "running"
    PROVE  /\ gSession' = gSession /\ gLoop' = "running"
           /\ \A d \in ChannelIds : gRuntime'[d] = gRuntime[d] \/ SameSource(d)
           /\ \/ g2c' = g2c
              \/ \E n \in Nat : g2c' = Append(g2c, Data(Operation(opcode, s.ch, s.opid, TRUE), n))
           /\ Operation(opcode, s.ch, s.opid, TRUE) \in Frame
<1> DEFINE c == s.ch
           rt == gRuntime[c]
           f == Operation(opcode, c, s.opid, TRUE)
           n == rt.opOut[s.opid]
           out == [rt.opOut EXCEPT ![s.opid] = @ + 1]
<1>1. /\ gRuntime \in [ChannelIds -> Runtime \cup {NoRuntime}]
      /\ g2c \in Seq(ServerPacket) /\ gSession \in Shape
  BY DEF WireInv, GatewayInv, BackendTypes, LinkTypes, ConnectionTypes
<1>2. f \in Frame /\ f.ch = c /\ f.opcode = opcode /\ f.reliable
  BY DEF Operation, Frame, ServiceActionOpcode
<1>3. CASE rt.kind # kind
  <2>1. Finish(Outcome(gSession)) /\ gRuntime' = gRuntime
    BY <1>3 DEF PushInbound
  <2>2. gSession' = gSession /\ g2c' = g2c /\ gLoop' = "running"
    BY <1>1, <2>1 DEF Finish, Outcome, Sent
  <2> QED  BY <1>2, <2>1, <2>2
<1>4. CASE rt.kind = kind
  <2>1. rt # NoRuntime
    BY <1>4 DEF NoRuntime, NoKind
  <2>2. rt \in Runtime
    BY <1>1, <2>1
  <2>3. /\ Finish(PushFrame(Outcome(gSession), f, n))
        /\ gRuntime' = [gRuntime EXCEPT ![c] = [rt EXCEPT !.opOut = out]]
    BY <1>1, <1>4 DEF PushInbound
  <2>4. n \in Nat
    BY <2>2, OperationCounted
  <2> HIDE DEF f, n, out
  <2>5. AcceptsData(gSession, f, Server)
    BY <1>2, <1>4, <2>1, ForwardedAccepted
  <2>6. /\ gSession' = gSession /\ gLoop' = "running"
        /\ up => g2c' = Append(g2c, Data(f, n))
        /\ ~up => g2c' = g2c
    <3>1. Outcome(gSession).session = gSession /\ Outcome(gSession).close = FALSE
          /\ PushFrame(Outcome(gSession), f, n).session = gSession
          /\ PushFrame(Outcome(gSession), f, n).close = FALSE
      BY <2>5 DEF Outcome, PushFrame
    <3>2. gSession' = gSession /\ gLoop' = "running" /\ (~up => g2c' = g2c)
      BY <2>3, <3>1 DEF Finish, Sent
    <3>3. up => g2c' = Append(g2c, Data(f, n))
      BY <1>1, <1>2, <2>3, <2>4, <2>5, FinishedFrame
    <3> QED  BY <3>2, <3>3
  <2>7. ASSUME NEW d \in ChannelIds PROVE gRuntime'[d] = gRuntime[d] \/ SameSource(d)
    <3>1. CASE d # c
      BY <1>1, <2>3, <3>1
    <3>2. CASE d = c
      <4>1. gRuntime'[c] = [rt EXCEPT !.opOut = out]
        BY <1>1, <2>3
      <4>2. /\ gRuntime'[c].seqOut = rt.seqOut /\ gRuntime'[c].entity = rt.entity
            /\ gRuntime'[c].reliable = rt.reliable
        <5> HIDE DEF rt
        <5> QED  BY <2>2, <4>1 DEF Runtime
      <4> QED  BY <2>1, <3>2, <4>2 DEF SameSource
    <3> QED  BY <3>1, <3>2
  <2> QED  BY <1>2, <2>4, <2>6, <2>7 DEF f
<1> QED  BY <1>3, <1>4

\* An inbound operation is no sample.
LEMMA StreamInbound ==
    ASSUME WireInv, FitInv, StreamInv, NEW s, s.ch \in ChannelIds, s.opid \in OpIds,
           NEW kind, NEW opcode, PushInbound(s, kind, opcode),
           \/ kind = "ServiceServer" /\ opcode = "SERVICE_REQUEST"
           \/ kind = "ActionServer" /\ opcode \in {"ACTION_GOAL", "ACTION_CANCEL"},
           gLoop = "running", UNCHANGED <<gSamples, up>>, UNCHANGED clientVars
    PROVE  StreamInv'
<1> DEFINE f == Operation(opcode, s.ch, s.opid, TRUE)
<1>1. /\ gSession' = gSession /\ gLoop' = "running" /\ f \in Frame
      /\ \A d \in ChannelIds : gRuntime'[d] = gRuntime[d] \/ SameSource(d)
      /\ g2c' = g2c \/ \E n \in Nat : g2c' = Append(g2c, Data(f, n))
  BY InboundSends
<1>2. f.opcode # "ROS_SAMPLE"
  BY DEF Operation
<1> HIDE DEF f
<1>3. /\ UNCHANGED <<cSession, cClosed, cActive, cDelivered>> /\ Connected' = Connected
      /\ g2c \in Seq(ServerPacket) /\ gSamples \in Seq([ch : ChannelIds, from : Nat])
  BY <1>1 DEF clientVars, tableVars, Connected, WireInv, LinkTypes, GatewayInv, BackendTypes
<1>4. ASSUME NEW d \in ChannelIds PROVE StreamOf(d)'
  <2>1. g2c' \in Seq(ServerPacket) /\ Prolongs(d) /\ Silent(d)
    <3>1. CASE g2c' = g2c
      BY <1>3, <3>1, ProlongsNone DEF Silent
    <3>2. ASSUME NEW n \in Nat, g2c' = Append(g2c, Data(f, n))
          PROVE  g2c' \in Seq(ServerPacket) /\ Prolongs(d) /\ Silent(d)
      <4>1. Data(f, n) \in ServerPacket /\ Data(f, n).plane = "data" /\ Data(f, n).msg = f
        BY <1>1, DataPacket DEF Data
      <4>2. ~IsSample(Data(f, n), d) /\ ~Announces(Data(f, n), d)
        BY <1>2, <4>1 DEF IsSample, Announces, About
      <4> QED  BY <1>3, <3>2, <4>1, <4>2, Queued, ProlongsOne, SilentOne
    <3> QED  BY <1>1, <3>1, <3>2
  <2>2. StreamOf(d)
    BY DEF StreamInv
  <2> QED  BY <1>1, <1>3, <2>1, <2>2, StreamKept DEF SameSource
<1>5. QueuedStream'
  <2> SUFFICES ASSUME NEW k \in DOMAIN gSamples
               PROVE  /\ gSession.chan[gSamples[k].ch].state # "Unused"
                      /\ gRuntime'[gSamples[k].ch] # NoRuntime =>
                            gSamples[k].from = gRuntime'[gSamples[k].ch].entity
    BY <1>1, Zenon DEF QueuedStream
  <2>1. gSamples[k] \in [ch : ChannelIds, from : Nat]
    <3>1. DOMAIN gSamples = 1 .. Len(gSamples)
      BY <1>3, LenProperties
    <3> QED  BY <1>3, <3>1, ElementOfSeq
  <2>2. gSamples[k].ch \in ChannelIds /\ QueuedStream
    BY <2>1 DEF StreamInv
  <2> QED  BY <1>1, <2>2 DEF QueuedStream, SameSource
<1> QED  BY <1>1, <1>3, <1>4, <1>5 DEF StreamInv, ItemTypes

\* A closed engine is given nothing more.
LEMMA StreamStopped ==
    ASSUME StreamInv, cClosed',
           UNCHANGED <<cDelivered, cActive, gSession, gLoop, gRuntime, gSamples>>
    PROVE  StreamInv'
<1>1. ASSUME NEW c \in ChannelIds PROVE StreamOf(c)'
  <2>1. DeliveredStream(c)
    BY DEF StreamInv, StreamOf
  <2>2. DeliveredStream(c)' /\ ~Connected'
    BY <2>1 DEF DeliveredStream, Connected
  <2> QED  BY <2>2 DEF StreamOf
<1>2. gLoop' = "running" => QueuedStream'
  BY DEF StreamInv, QueuedStream
<1> QED  BY <1>1, <1>2 DEF StreamInv, ItemTypes

\* The engine takes a packet.
LEMMA StreamReceive ==
    ASSUME WireInv, FitInv, StreamInv, EngineReceive
    PROVE  StreamInv'
<1>1. ClientReceive /\ UNCHANGED gatewayVars
  BY DEF EngineReceive
<1>2. CASE cClosed' /\ UNCHANGED <<cDelivered, cActive, up>>
  BY <1>1, <1>2, StreamStopped DEF gatewayVars, sinkVars
<1>3. CASE Accepted(Head(g2c)) /\ Delivers(Head(g2c))
  BY <1>3, StreamAccepted
<1> QED  BY <1>1, <1>2, <1>3, ReceiveDelivers

\* The backend's channels.
LEMMA StreamForward ==
    ASSUME WireInv, FitInv, StreamInv, GatewayForward
    PROVE  StreamInv'
<1>1. Outcomes \subseteq BOOLEAN /\ UNCHANGED clientVars
  BY DEF Outcomes, GatewayForward
<1>2. CASE \E fits \in Outcomes : GatewaySample(fits)
  BY <1>1, <1>2, StreamAdmitted
<1>3. CASE GatewayRequest
  <2>1. gRequests \in Seq([ch : ChannelIds, opid : OpIds]) /\ gRequests # <<>>
    BY <1>3 DEF GatewayRequest, WireInv, GatewayInv, BackendTypes
  <2>2. Head(gRequests) \in [ch : ChannelIds, opid : OpIds]
    BY <2>1, Taken
  <2> QED  BY <1>1, <1>3, <2>2, StreamInbound DEF GatewayRequest
<1>4. CASE GatewayGoal
  <2> DEFINE R == [ch : ChannelIds, opcode : {"ACTION_GOAL", "ACTION_CANCEL"},
                   opid : OpIds]
  <2>1. gGoals \in Seq(R) /\ gGoals # <<>>
    BY <1>4 DEF GatewayGoal, WireInv, GatewayInv, BackendTypes
  <2>2. Head(gGoals) \in R
    BY <2>1, Taken
  <2> QED  BY <1>1, <1>4, <2>2, StreamInbound DEF GatewayGoal
<1> QED  BY <1>2, <1>3, <1>4 DEF GatewayForward

\* A step of the gateway that sends nothing keeps what is on its way, and its
\* tables or the session's end.
LEMMA StreamQuiet ==
    ASSUME WireInv, StreamInv, UNCHANGED <<cSession, cClosed, cActive, cDelivered>>,
           UNCHANGED <<g2c, up>>,
           gLoop' # "running" \/ (UNCHANGED <<gLoop, gRuntime>> /\ QueuedStream')
    PROVE  StreamInv'
<1>1. g2c \in Seq(ServerPacket)
  BY DEF WireInv, LinkTypes
<1>2. ASSUME NEW c \in ChannelIds PROVE StreamOf(c)'
  <2>1. StreamOf(c)
    BY DEF StreamInv
  <2>2. CASE gLoop' # "running"
    <3>1. DeliveredStream(c)' /\ ~Connected'
      BY <2>1, <2>2 DEF StreamOf, DeliveredStream, Connected
    <3>2. ~cClosed' => ComingStream(c)' /\ ComingFlags(c)' /\ Unheard(c)'
      BY <2>1 DEF StreamOf, ComingStream, ComingFlags, Unheard
    <3> QED  BY <3>1, <3>2 DEF StreamOf
  <2>3. CASE UNCHANGED <<gLoop, gRuntime>>
    BY <2>1, <2>3 DEF StreamOf, DeliveredStream, ComingStream, ComingFlags, Unheard,
       ProducedStream, Connected
  <2> QED  BY <2>2, <2>3
<1> QED  BY <1>2 DEF StreamInv, ItemTypes

\* A sample the backend queues comes from the entity its channel owns.
LEMMA StreamGraph ==
    ASSUME WireInv, StreamInv, Graph
    PROVE  StreamInv'
<1>1. /\ UNCHANGED <<gSession, gLoop, gRuntime, g2c, up>> /\ UNCHANGED clientVars
      /\ \/ gSamples' = gSamples
         \/ \E e \in bLive : gSamples' = TrySend(gSamples, [ch |-> e.ch, from |-> e.id])
  BY DEF Graph, BackendSample, BackendRequest, BackendGoal, linkVars
<1>2. ASSUME gLoop = "running" PROVE QueuedStream'
  <2>1. QueuedStream
    BY <1>2 DEF StreamInv
  <2>2. CASE gSamples' = gSamples
    BY <1>1, <2>1, <2>2 DEF QueuedStream
  <2>3. ASSUME NEW e \in bLive, gSamples' = Append(gSamples, [ch |-> e.ch, from |-> e.id])
        PROVE  QueuedStream'
    <3> DEFINE x == [ch |-> e.ch, from |-> e.id]
               R == [ch : ChannelIds, from : Nat]
    <3>1. /\ e.ch \in ChannelIds /\ e.id \in Nat /\ gSamples \in Seq(R)
          /\ gRuntime[e.ch] # NoRuntime /\ gRuntime[e.ch].entity = e.id
          /\ gSession.chan[e.ch].state = "Active"
      BY <1>2 DEF WireInv, GatewayInv, BackendTypes, EntitiesOwned
    <3>2. x \in R /\ x.ch = e.ch /\ x.from = e.id
      BY <3>1
    <3>3. gSamples' = Append(gSamples, x)
      BY <2>3
    <3> HIDE DEF x, R
    <3>4. /\ Len(gSamples) \in Nat /\ DOMAIN gSamples = 1 .. Len(gSamples)
          /\ DOMAIN gSamples' = 1 .. Len(gSamples) + 1
          /\ \A i \in 1 .. Len(gSamples) : gSamples'[i] = gSamples[i]
          /\ gSamples'[Len(gSamples) + 1] = x
      BY <3>1, <3>2, <3>3, Queued
    <3>5. ASSUME NEW k \in DOMAIN gSamples'
          PROVE  LET z == gSamples'[k]
                 IN  /\ gSession.chan[z.ch].state # "Unused"
                     /\ gRuntime[z.ch] # NoRuntime => z.from = gRuntime[z.ch].entity
      <4>1. CASE k = Len(gSamples) + 1
        BY <3>1, <3>2, <3>4, <4>1
      <4>2. CASE k \in DOMAIN gSamples
        BY <2>1, <3>4, <4>2 DEF QueuedStream
      <4> QED  BY <3>4, <4>1, <4>2
    <3> QED  BY <1>1, <3>5 DEF QueuedStream
  <2> QED  BY <1>1, <2>2, <2>3 DEF TrySend
<1>3. UNCHANGED <<cSession, cClosed, cActive, cDelivered>>
  BY <1>1 DEF clientVars, tableVars
<1> QED  BY <1>1, <1>2, <1>3, StreamQuiet

\* Nothing is on its way on a transport that broke.
LEMMA StreamLost ==
    ASSUME StreamInv, g2c' = <<>>, ~up',
           UNCHANGED <<cSession, cClosed, cActive, cDelivered, gSession, gLoop, gRuntime,
                       gSamples>>
    PROVE  StreamInv'
<1>1. ASSUME NEW c \in ChannelIds PROVE StreamOf(c)'
  <2>1. DeliveredStream(c)' /\ (~cClosed' => Unheard(c)') /\ ~Connected'
    BY DEF StreamInv, StreamOf, DeliveredStream, Unheard, Connected
  <2>2. DOMAIN g2c' = {}
    OBVIOUS
  <2>3. ComingStream(c)' /\ ComingFlags(c)'
    BY <2>2, Zenon DEF ComingStream, ComingFlags
  <2> QED  BY <2>1, <2>3 DEF StreamOf
<1>2. gLoop' = "running" => QueuedStream'
  BY DEF StreamInv, QueuedStream
<1> QED  BY <1>1, <1>2 DEF StreamInv, ItemTypes

\* No stream has begun in the initial state.
LEMMA StreamInitially == Init => StreamInv
<1> SUFFICES ASSUME Init PROVE StreamInv
  OBVIOUS
<1>1. /\ g2c = <<>> /\ gSamples = <<>> /\ cDelivered = [c \in ChannelIds |-> <<>>]
      /\ gRuntime = [c \in ChannelIds |-> NoRuntime]
  BY DEF Init, LinkInit, ClientInit, GatewayInit
<1>2. DOMAIN g2c = {} /\ DOMAIN gSamples = {}
  BY <1>1
<1>3. ItemTypes /\ QueuedStream
  BY <1>1, <1>2 DEF ItemTypes, QueuedStream
<1>4. ASSUME NEW c \in ChannelIds PROVE StreamOf(c)
  <2>1. cDelivered[c] = <<>> /\ gRuntime[c] = NoRuntime
    BY <1>1
  <2>2. DOMAIN cDelivered[c] = {} /\ Len(cDelivered[c]) = 0
    BY <2>1
  <2>3. DeliveredStream(c) /\ ComingStream(c) /\ ComingFlags(c) /\ ProducedStream(c)
    BY <1>2, <2>1, <2>2, Zenon DEF DeliveredStream, ComingStream, ComingFlags, ProducedStream
  <2>4. Unheard(c)
    <3>1. 1 .. Len(cDelivered[c]) + 1 - 1 = {}
      BY <2>2
    <3> QED  BY <3>1 DEF Unheard, Given
  <2> QED  BY <2>3, <2>4 DEF StreamOf
<1> QED  BY <1>3, <1>4 DEF StreamInv

\* Every step keeps the streams.
LEMMA StreamStep ==
    ASSUME WireInv, FitInv, StreamInv, [Next]_vars
    PROVE  StreamInv'
<1>1. CASE App
  BY <1>1, AppCommanded, StreamCommanded
<1>2. CASE EngineReceive
  BY <1>2, StreamReceive
<1>3. CASE GatewayReceive
  BY <1>3, PacketTaken, StreamTaking DEF GatewayReceive
<1>4. CASE GatewayForward
  BY <1>4, StreamForward
<1>5. CASE GatewayLeave
  BY <1>5, StreamQuiet DEF GatewayLeave, GatewayTransportGone, GatewayTeardown, linkVars,
     clientVars, tableVars
<1>6. CASE Graph
  BY <1>6, StreamGraph
<1>7. CASE Lose
  BY <1>7, StreamLost DEF Lose, TransportLost, gatewayVars, sinkVars, clientVars, tableVars
<1>8. CASE UNCHANGED vars
  <2>1. /\ UNCHANGED <<cSession, cClosed, cActive, cDelivered, g2c, up>>
        /\ UNCHANGED <<gLoop, gRuntime, gSession, gSamples>>
    BY <1>8 DEF vars, clientVars, gatewayVars, linkVars, tableVars, sinkVars
  <2>2. gLoop = "running" => QueuedStream'
    BY <2>1 DEF StreamInv, QueuedStream
  <2> QED  BY <2>1, <2>2, StreamQuiet
<1> QED  BY <1>1, <1>2, <1>3, <1>4, <1>5, <1>6, <1>7, <1>8 DEF Next

\* The streams hold in every reachable state.
LEMMA StreamInvariant == Spec => [](FullInv /\ StreamInv)
<1>1. Init => StreamInv
  BY StreamInitially
<1>2. FullInv /\ StreamInv /\ [Next]_vars => StreamInv'
  BY StreamStep DEF FullInv
<1> QED  BY <1>1, <1>2, FullInvariant, PTL DEF Spec

\* What was delivered is in order.
LEMMA DeliveredInOrder ==
    ASSUME StreamInv
    PROVE  SampleStream
<1> SUFFICES ASSUME NEW c \in ChannelIds, NEW i \in DOMAIN cDelivered[c],
                    cDelivered[c][i].opcode = "ROS_SAMPLE"
             PROVE  /\ \A j \in 1 .. i - 1 : cDelivered[c][j].opcode = "ROS_SAMPLE" =>
                          /\ cDelivered[c][j].seq < cDelivered[c][i].seq
                          /\ cDelivered[c][j].from = cDelivered[c][i].from
                    /\ cActive[c].reliable =>
                          \/ cDelivered[c][i].seq = 0
                          \/ \E j \in 1 .. i - 1 : /\ cDelivered[c][j].opcode = "ROS_SAMPLE"
                                                   /\ cDelivered[c][j].seq + 1
                                                         = cDelivered[c][i].seq
  BY DEF SampleStream
<1> DEFINE got == cDelivered[c]
<1>1. /\ cDelivered \in [ChannelIds -> Seq(Item)]
      /\ Continues(Given(got, i), got[i].seq, got[i].from, cActive[c].reliable)
  BY DEF StreamInv, StreamOf, DeliveredStream, ItemTypes
<1>2. got \in Seq(Item)
  BY <1>1
<1> HIDE DEF got
<1>3. DOMAIN got = 1 .. Len(got) /\ Len(got) \in Nat
  BY <1>2, LenProperties
<1>4. i \in Nat
  BY <1>3 DEF got
<1>5. ASSUME NEW j \in 1 .. i - 1, got[j].opcode = "ROS_SAMPLE"
      PROVE  got[j].seq < got[i].seq /\ got[j].from = got[i].from
  <2>1. <<got[j].seq, got[j].from>> \in Given(got, i)
    BY <1>4, <1>5, GivenEach
  <2> QED  BY <1>1, <2>1 DEF Continues
<1>6. ASSUME cActive[c].reliable, got[i].seq # 0
      PROVE  \E j \in 1 .. i - 1 : got[j].opcode = "ROS_SAMPLE" /\ got[j].seq + 1 = got[i].seq
  <2>1. PICK q \in Given(got, i) : q[1] + 1 = got[i].seq
    BY <1>1, <1>6 DEF Continues
  <2>2. PICK j \in 1 .. i - 1 : got[j].opcode = "ROS_SAMPLE" /\ q = <<got[j].seq, got[j].from>>
    BY DEF Given
  <2> QED  BY <2>1, <2>2
<1> QED  BY <1>5, <1>6 DEF got

(***************************************************************************)
(* On every channel, whatever is refused, dropped or lost: the samples the *)
(* application is given are numbered upwards, come from the one entity the *)
(* gateway created for the channel, and on a reliable channel miss none of *)
(* the numbers the gateway gave out.                                       *)
(***************************************************************************)
THEOREM SamplesInOrder == Spec => []SampleStream
  BY StreamInvariant, DeliveredInOrder, PTL

-----------------------------------------------------------------------------
(* Heartbeats in flight. *)

\* How many elements of a stream are in M.
Tally(q, M) == Cardinality({i \in DOMAIN q : q[i] \in M})

\* There are finitely many.
LEMMA TallyCounted ==
    ASSUME NEW S, NEW q \in Seq(S), NEW M
    PROVE  IsFiniteSet({i \in DOMAIN q : q[i] \in M}) /\ Tally(q, M) \in Nat
<1> DEFINE B == {i \in DOMAIN q : q[i] \in M}
<1>1. DOMAIN q = 1 .. Len(q) /\ Len(q) \in Nat
  BY LenProperties
<1>2. IsFiniteSet(1 .. Len(q)) /\ B \in SUBSET (1 .. Len(q))
  BY <1>1, FS_Interval
<1>3. IsFiniteSet(B)
  BY <1>2, FS_Subset
<1>4. Tally(q, M) = Cardinality(B)
  BY DEF Tally
<1> QED  BY <1>3, <1>4, FS_CardinalityType

\* One more behind the others,
LEMMA TallyQueued ==
    ASSUME NEW S, NEW q \in Seq(S), NEW x \in S, NEW M
    PROVE  Tally(Append(q, x), M) = Tally(q, M) + (IF x \in M THEN 1 ELSE 0)
<1> DEFINE r == Append(q, x)
           n == Len(q) + 1
           B == {i \in DOMAIN q : q[i] \in M}
           D == {i \in DOMAIN r : r[i] \in M}
<1>1. /\ Len(q) \in Nat /\ DOMAIN q = 1 .. Len(q) /\ DOMAIN r = 1 .. n
      /\ \A i \in 1 .. Len(q) : r[i] = q[i]
      /\ r[n] = x
  BY Queued
<1> HIDE DEF r
<1>2. n \notin B /\ n \in Nat
  BY <1>1
<1>3. D = IF x \in M THEN B \cup {n} ELSE B
  BY <1>1
<1>4. IsFiniteSet(B) /\ Tally(q, M) = Cardinality(B) /\ Tally(q, M) \in Nat
  BY TallyCounted DEF Tally
<1>5. Tally(r, M) = Cardinality(D)
  BY DEF Tally
<1> HIDE DEF B, D
<1>6. Cardinality(B \cup {n}) = Cardinality(B) + 1
  <2> HIDE DEF n
  <2> QED  BY <1>2, <1>4, FS_AddElement
<1> QED  BY <1>3, <1>4, <1>5, <1>6 DEF r

\* and one less in front of them.
LEMMA TallyTaken ==
    ASSUME NEW S, NEW q \in Seq(S), q # <<>>, NEW M
    PROVE  /\ Tally(Tail(q), M) \in Nat
           /\ Tally(Tail(q), M) + (IF Head(q) \in M THEN 1 ELSE 0) <= Tally(q, M)
<1> DEFINE r == Tail(q)
           B == {i \in DOMAIN q : q[i] \in M}
           D == {i \in DOMAIN r : r[i] \in M}
           f == [i \in D |-> i + 1]
<1>1. /\ r \in Seq(S) /\ Len(q) \in Nat /\ Len(q) # 0 /\ Head(q) = q[1]
      /\ DOMAIN q = 1 .. Len(q) /\ DOMAIN r = 1 .. Len(q) - 1
      /\ \A i \in 1 .. Len(q) - 1 : r[i] = q[i + 1]
  BY Taken
<1> HIDE DEF r
<1>2. /\ IsFiniteSet(B) /\ Tally(q, M) = Cardinality(B) /\ Tally(q, M) \in Nat
      /\ Tally(r, M) = Cardinality(D) /\ Tally(r, M) \in Nat
  BY <1>1, TallyCounted DEF Tally
<1>3. Head(q) \in M <=> 1 \in B
  BY <1>1
<1>4. IsFiniteSet(B \ {1})
      /\ Cardinality(B \ {1}) = IF 1 \in B THEN Cardinality(B) - 1 ELSE Cardinality(B)
  BY <1>2, FS_RemoveElement
<1>5. D \subseteq Int /\ \A i \in D : i + 1 \in B \ {1}
  BY <1>1
<1> HIDE DEF B, D
<1>6. f \in Injection(D, B \ {1})
  BY <1>5 DEF Injection, IsInjective
<1> HIDE DEF f
<1>7. Cardinality(D) <= Cardinality(B \ {1})
  BY <1>4, <1>6, FS_Injection
<1> QED  BY <1>2, <1>3, <1>4, <1>7 DEF r

\* A stream without elements has none in M.
LEMMA TallyNone ==
    ASSUME NEW M
    PROVE  Tally(<<>>, M) = 0
<1>1. {i \in DOMAIN <<>> : <<>>[i] \in M} = {}
  OBVIOUS
<1> QED  BY <1>1, FS_EmptySet DEF Tally

\* No element in M, or two.
LEMMA TallyZero ==
    ASSUME NEW S, NEW q \in Seq(S), NEW M, \A i \in DOMAIN q : q[i] \notin M
    PROVE  Tally(q, M) = 0
<1>1. {i \in DOMAIN q : q[i] \in M} = {}
  OBVIOUS
<1> QED  BY <1>1, FS_EmptySet DEF Tally

\* At most one member of M is at most at one place.
LEMMA TallyTwo ==
    ASSUME NEW S, NEW q \in Seq(S), NEW M, Tally(q, M) <= 1,
           NEW i \in DOMAIN q, NEW j \in DOMAIN q, q[i] \in M, q[j] \in M
    PROVE  i = j
<1> DEFINE B == {k \in DOMAIN q : q[k] \in M}
<1>1. IsFiniteSet(B) /\ Cardinality(B) \in Nat /\ Cardinality(B) <= 1
  BY TallyCounted DEF Tally
<1>2. i \in B /\ j \in B
  OBVIOUS
<1> HIDE DEF B
<1>3. Cardinality(B) # 0
  BY <1>1, <1>2, FS_EmptySet
<1>4. \E x : B = {x}
  <2>1. Cardinality(B) = 1
    BY <1>1, <1>3
  <2> QED  BY <1>1, <2>1, FS_Singleton
<1> QED  BY <1>2, <1>4

\* The heartbeats of a stream, counted so.
LEMMA BeatsTallied ==
    ASSUME NEW S, NEW q \in Seq(S)
    PROVE  InFlight(q, Heartbeat) = Tally(q, {p \in S : p.msg = Heartbeat})
<1>1. \A i \in DOMAIN q : q[i] \in S
  BY LenProperties, ElementOfSeq
<1>2. {i \in DOMAIN q : q[i].msg = Heartbeat}
         = {i \in DOMAIN q : q[i] \in {p \in S : p.msg = Heartbeat}}
  BY <1>1
<1> QED  BY <1>2 DEF InFlight, Tally

\* The heartbeats in flight are a number.
LEMMA BeatsCounted ==
    ASSUME NEW S, NEW q \in Seq(S)
    PROVE  InFlight(q, Heartbeat) \in Nat
<1> DEFINE M == {p \in S : p.msg = Heartbeat}
<1>1. InFlight(q, Heartbeat) = Tally(q, M)
  BY BeatsTallied
<1> HIDE DEF M
<1> QED  BY <1>1, TallyCounted

\* One more packet.
LEMMA BeatsQueued ==
    ASSUME NEW S, NEW q \in Seq(S), NEW x \in S
    PROVE  InFlight(Append(q, x), Heartbeat)
              = InFlight(q, Heartbeat) + (IF x.msg = Heartbeat THEN 1 ELSE 0)
<1> DEFINE M == {p \in S : p.msg = Heartbeat}
<1>1. Append(q, x) \in Seq(S)
  BY Queued
<1>2. /\ InFlight(Append(q, x), Heartbeat) = Tally(Append(q, x), M)
      /\ InFlight(q, Heartbeat) = Tally(q, M)
  BY <1>1, BeatsTallied
<1>3. x \in M <=> x.msg = Heartbeat
  OBVIOUS
<1> HIDE DEF M
<1> QED  BY <1>2, <1>3, TallyQueued

\* One packet less.
LEMMA BeatsTaken ==
    ASSUME NEW S, NEW q \in Seq(S), q # <<>>
    PROVE  InFlight(Tail(q), Heartbeat) + (IF Head(q).msg = Heartbeat THEN 1 ELSE 0)
              <= InFlight(q, Heartbeat)
<1> DEFINE M == {p \in S : p.msg = Heartbeat}
<1>1. Tail(q) \in Seq(S) /\ Head(q) \in S
  BY Taken
<1>2. /\ InFlight(Tail(q), Heartbeat) = Tally(Tail(q), M)
      /\ InFlight(q, Heartbeat) = Tally(q, M)
  BY <1>1, BeatsTallied
<1>3. Head(q) \in M <=> Head(q).msg = Heartbeat
  BY <1>1
<1> HIDE DEF M
<1> QED  BY <1>2, <1>3, TallyTaken

\* A stream without packets holds none.
LEMMA BeatsNone == InFlight(<<>>, Heartbeat) = 0
<1>1. {i \in DOMAIN <<>> : <<>>[i].msg = Heartbeat} = {}
  OBVIOUS
<1> QED  BY <1>1, FS_EmptySet DEF InFlight

\* Only the control message is one.
LEMMA BeatPacket ==
    ASSUME NEW p \in ServerPacket \cup ClientPacket
    PROVE  p.msg = Heartbeat <=> IsControl(p, "Heartbeat")
<1>1. CASE p.plane = "bootstrap"
  BY <1>1 DEF ServerPacket, ClientPacket, Heartbeat, IsControl
<1>2. CASE p.plane = "control"
  <2>1. p.msg \in ServerControl \cup ClientControl
    BY <1>2 DEF ServerPacket, ClientPacket
  <2>2. p.msg.type = "Heartbeat" => p.msg = Heartbeat
    BY <2>1 DEF ServerControl, ClientControl, Heartbeat, SessionError
  <2> QED  BY <1>2, <2>2 DEF IsControl, Heartbeat
<1>3. CASE p.plane = "data"
  <2>1. p.msg \in Frame
    BY <1>3 DEF ServerPacket, ClientPacket
  <2>2. "opcode" \in DOMAIN p.msg
    BY <2>1 DEF Frame
  <2>3. "opcode" \notin DOMAIN Heartbeat
    BY DEF Heartbeat
  <2> QED  BY <1>3, <2>2, <2>3 DEF IsControl
<1> QED  BY <1>1, <1>2, <1>3, ServerPacketTypes, ClientPacketTypes

\* The invariant and the type of the deadlines' counter it speaks of.
BeatInv == ticks \in Nat /\ HeartbeatsConserved

\* The engine writes x, or nothing.
Writes(x) == c2g' = c2g \/ c2g' = Sent(c2g, <<x>>)

\* A link that is up gets the packet behind the others.
LEMMA WritesOne ==
    ASSUME WireInv, NEW x \in ClientPacket, Writes(x)
    PROVE  c2g' = c2g \/ c2g' = Append(c2g, x)
<1>1. c2g \o <<x>> = Append(c2g, x)
  BY SentOne DEF WireInv, LinkTypes
<1> QED  BY <1>1 DEF Writes, Sent

\* What one command writes: no heartbeat, unless a deadline has passed.
Ticked(x) ==
    /\ x \in ClientPacket /\ g2c' = g2c /\ Writes(x)
    /\ \/ ticks' = ticks /\ (c2g' = c2g \/ ~IsControl(x, "Heartbeat"))
       \/ ticks' = ticks + 1

\* Every command writes one packet at most, a heartbeat only at a deadline.
LEMMA AppWrites ==
    ASSUME WireInv, App
    PROVE  \E x : Ticked(x)
<1>1. /\ cSeqOut \in Nat /\ Kinds \subseteq OperationKind
      /\ cActive \in [ChannelIds -> ActiveEntry]
  BY WireAssumption DEF WireInv, EngineInv, EngineTypes
<1>2. ASSUME NEW m \in ClientControl, m.type # "Heartbeat", NEW pending, NEW active,
             ClientCommand(m, pending, active), ticks' = ticks
      PROVE  \E x : Ticked(x)
  <2> DEFINE x == Control(m, cSeqOut)
  <2>1. x \in ClientPacket /\ x.plane = "control" /\ x.msg = m
    BY <1>1, ControlPacket
  <2>2. g2c' = g2c /\ Writes(x)
    BY <1>2 DEF ClientCommand, ClientPushControl, ClientFail, linkVars, Writes
  <2> HIDE DEF x
  <2>3. Ticked(x)
    BY <1>2, <2>1, <2>2 DEF Ticked, IsControl
  <2> QED  BY <2>3
<1>3. ASSUME NEW f \in Frame, NEW n \in Nat, g2c' = g2c, Writes(Data(f, n)), ticks' = ticks
      PROVE  \E x : Ticked(x)
  <2>1. Data(f, n) \in ClientPacket /\ Data(f, n).plane = "data"
    BY DataPacket
  <2>2. Ticked(Data(f, n))
    BY <1>3, <2>1 DEF Ticked, IsControl
  <2> QED  BY <2>2
<1>4. ASSUME NEW c \in ChannelIds, NEW opcode \in ServiceActionOpcode, NEW op \in OpIds,
             ClientSendOperation(c, opcode, op), ticks' = ticks
      PROVE  \E x : Ticked(x)
  <2> DEFINE f == Operation(opcode, c, op, opcode \in ReliableRequired)
             n == cActive[c].next
  <2>1. f \in Frame
    BY DEF Operation, Frame
  <2>2. n \in Nat
    BY <1>1 DEF ActiveEntry
  <2>3. g2c' = g2c /\ Writes(Data(f, n))
    BY <1>4 DEF ClientSendOperation, Writes
  <2> QED  BY <1>3, <1>4, <2>1, <2>2, <2>3
<1>5. CASE AppStart
  <2>1. Bootstrap("ClientHello") \in ClientPacket /\ Bootstrap("ClientHello").plane = "bootstrap"
    BY DEF Bootstrap, ClientPacket
  <2>2. Ticked(Bootstrap("ClientHello"))
    BY <1>5, <2>1 DEF AppStart, ClientStart, historyVars, Writes, Ticked, IsControl
  <2> QED  BY <2>2
<1>6. CASE AppAuthenticate
  <2>1. [type |-> "Authenticate"] \in ClientControl
    BY DEF ClientControl
  <2> QED  BY <1>2, <1>6, <2>1 DEF AppAuthenticate, ClientAuthenticate, historyVars
<1>7. ASSUME NEW c \in ChannelIds, NEW kind \in Kinds, AppOpen(c, kind)
      PROVE  \E x : Ticked(x)
  <2>1. [type |-> "OpenChannel", ch |-> c, kind |-> kind] \in ClientControl
    BY <1>1 DEF ClientControl
  <2> QED  BY <1>2, <1>7, <2>1 DEF AppOpen, ClientOpen, historyVars
<1>8. ASSUME NEW c \in ChannelIds, AppUnsubscribe(c)
      PROVE  \E x : Ticked(x)
  <2>1. [type |-> "CloseChannel", ch |-> c] \in ClientControl
    BY DEF ClientControl
  <2> QED  BY <1>2, <1>8, <2>1 DEF AppUnsubscribe, ClientUnsubscribe, historyVars
<1>9. ASSUME NEW c \in ChannelIds, AppPublish(c)
      PROVE  \E x : Ticked(x)
  <2> DEFINE f == Sample(c, cActive[c].reliable, 0)
             n == cActive[c].next
  <2>1. f \in Frame /\ n \in Nat
    BY <1>1 DEF Sample, Frame, ActiveEntry
  <2>2. g2c' = g2c /\ Writes(Data(f, n)) /\ ticks' = ticks
    BY <1>9 DEF AppPublish, ClientSendSample, Writes, historyVars
  <2> QED  BY <1>3, <2>1, <2>2
<1>10. ASSUME NEW c \in ChannelIds, NEW op \in OpIds,
              AppCall(c, op) \/ AppCancel(c, op) \/ AppReply(c, op)
       PROVE  \E x : Ticked(x)
  <2>1. ticks' = ticks /\ \E opcode \in ServiceActionOpcode : ClientSendOperation(c, opcode, op)
    BY <1>10 DEF AppCall, AppCancel, AppReply, historyVars, ServiceActionOpcode
  <2> QED  BY <1>4, <2>1
<1>11. ASSUME NEW c \in ChannelIds, NEW opcode \in ServiceActionOpcode, NEW op \in OpIds,
              AppMisuse(c, opcode, op)
       PROVE  \E x : Ticked(x)
  BY <1>4, <1>11 DEF AppMisuse, historyVars
<1>12. CASE AppTick
  <2>1. Control(Heartbeat, cSeqOut) \in ClientPacket
    BY <1>1, ControlPacket DEF ClientControl
  <2>2. Ticked(Control(Heartbeat, cSeqOut))
    BY <1>12, <2>1 DEF AppTick, ClientHeartbeat, ClientPushControl, Writes, Ticked
  <2> QED  BY <2>2
<1>13. CASE AppClose
  <2>1. Control(Heartbeat, cSeqOut) \in ClientPacket
    BY <1>1, ControlPacket DEF ClientControl
  <2>2. Ticked(Control(Heartbeat, cSeqOut))
    BY <1>13, <2>1 DEF AppClose, ClientClose, Writes, linkVars, historyVars, Ticked
  <2> QED  BY <2>2
<1> QED  BY <1>5, <1>6, <1>7, <1>8, <1>9, <1>10, <1>11, <1>12, <1>13 DEF App

\* A command of the application.
LEMMA BeatApp ==
    ASSUME WireInv, BeatInv, App
    PROVE  BeatInv'
<1>1. c2g \in Seq(ClientPacket) /\ g2c \in Seq(ServerPacket)
  BY DEF WireInv, LinkTypes
<1>2. InFlight(c2g, Heartbeat) \in Nat /\ InFlight(g2c, Heartbeat) \in Nat
  BY <1>1, BeatsCounted
<1>3. PICK x : Ticked(x)
  BY AppWrites
<1>4. x \in ClientPacket /\ g2c' = g2c /\ (c2g' = c2g \/ c2g' = Append(c2g, x))
  BY <1>3, WritesOne DEF Ticked
<1>5. \/ ticks' = ticks /\ (c2g' = c2g \/ x.msg # Heartbeat)
      \/ ticks' = ticks + 1
  BY <1>3, <1>4, BeatPacket DEF Ticked
<1>6. InFlight(Append(c2g, x), Heartbeat)
         = InFlight(c2g, Heartbeat) + (IF x.msg = Heartbeat THEN 1 ELSE 0)
  BY <1>1, <1>4, BeatsQueued
<1>7. ticks \in Nat /\ InFlight(c2g, Heartbeat) + InFlight(g2c, Heartbeat) <= ticks
  BY DEF BeatInv, HeartbeatsConserved
<1>8. CASE c2g' = c2g
  BY <1>2, <1>4, <1>5, <1>7, <1>8 DEF BeatInv, HeartbeatsConserved
<1>9. CASE c2g' = Append(c2g, x)
  <2>1. InFlight(c2g', Heartbeat)
           = InFlight(c2g, Heartbeat) + (IF x.msg = Heartbeat THEN 1 ELSE 0)
    BY <1>6, <1>9
  <2> QED  BY <1>2, <1>4, <1>5, <1>7, <2>1 DEF BeatInv, HeartbeatsConserved
<1> QED  BY <1>4, <1>8, <1>9

\* The engine takes a packet, and answers a heartbeat.
LEMMA EngineWrites ==
    ASSUME WireInv, EngineReceive
    PROVE  /\ g2c # <<>> /\ g2c' = Tail(g2c)
           /\ \/ c2g' = c2g
              \/ Head(g2c).msg = Heartbeat /\ c2g' = Append(c2g, Control(Heartbeat, cSeqOut))
           /\ Control(Heartbeat, cSeqOut) \in ClientPacket
<1> DEFINE x == Control(Heartbeat, cSeqOut)
           h == Head(g2c)
<1>1. cSeqOut \in Nat
  BY DEF WireInv, EngineInv, EngineTypes
<1>2. x \in ClientPacket
  BY <1>1, ControlPacket DEF ClientControl
<1>3. /\ g2c # <<>> /\ g2c' = Tail(g2c)
      /\ c2g' = c2g \/ (h.msg = Heartbeat /\ c2g' = Sent(c2g, <<x>>))
  BY DEF EngineReceive, ClientReceive, ClientReceiveBad, ClientReceiveBootstrap,
     ClientChannelReady, ClientHeartbeatEcho, ClientError, ClientOtherControl,
     ClientReceiveData, ClientDiscard, ClientAcceptsControl, ClientPushControl
<1> HIDE DEF x, h
<1>4. c2g' = c2g \/ (h.msg = Heartbeat /\ c2g' = Append(c2g, x))
  BY <1>2, <1>3, WritesOne DEF Writes
<1> QED  BY <1>2, <1>3, <1>4 DEF x, h

\* The engine takes a packet, and with it a heartbeat that it answers.
LEMMA BeatReceive ==
    ASSUME WireInv, BeatInv, EngineReceive
    PROVE  BeatInv'
<1> DEFINE x == Control(Heartbeat, cSeqOut)
           h == Head(g2c)
<1>1. c2g \in Seq(ClientPacket) /\ g2c \in Seq(ServerPacket)
  BY DEF WireInv, LinkTypes
<1>2. x \in ClientPacket /\ x.msg = Heartbeat
  BY EngineWrites, ControlPacket
<1>3. g2c # <<>> /\ g2c' = Tail(g2c) /\ ticks' = ticks
  BY EngineWrites DEF EngineReceive, historyVars
<1>4. c2g' = c2g \/ (h.msg = Heartbeat /\ c2g' = Append(c2g, x))
  BY EngineWrites
<1> HIDE DEF x, h
<1>5. /\ InFlight(c2g, Heartbeat) \in Nat /\ InFlight(g2c, Heartbeat) \in Nat
      /\ InFlight(Append(c2g, x), Heartbeat) = InFlight(c2g, Heartbeat) + 1
      /\ InFlight(Tail(g2c), Heartbeat) + (IF h.msg = Heartbeat THEN 1 ELSE 0)
            <= InFlight(g2c, Heartbeat)
  BY <1>1, <1>2, <1>3, BeatsCounted, BeatsQueued, BeatsTaken DEF h
<1>6. InFlight(Tail(g2c), Heartbeat) \in Nat
  BY <1>1, <1>3, Taken, BeatsCounted
<1>7. ticks \in Nat /\ InFlight(c2g, Heartbeat) + InFlight(g2c, Heartbeat) <= ticks
  BY DEF BeatInv, HeartbeatsConserved
<1>8. /\ InFlight(g2c', Heartbeat) = InFlight(Tail(g2c), Heartbeat)
      /\ \/ InFlight(c2g', Heartbeat) = InFlight(c2g, Heartbeat)
         \/ /\ h.msg = Heartbeat
            /\ InFlight(c2g', Heartbeat) = InFlight(c2g, Heartbeat) + 1
  BY <1>3, <1>4, <1>5
<1> QED  BY <1>3, <1>5, <1>6, <1>7, <1>8 DEF BeatInv, HeartbeatsConserved

\* A reply is a heartbeat only to a heartbeat, and then the only one.
LEMMA RepliesBeats ==
    ASSUME WireInv, NEW p \in ClientPacket, Replies(p)
    PROVE  /\ InFlight(g2c', Heartbeat) \in Nat
           /\ InFlight(g2c', Heartbeat)
                 <= InFlight(g2c, Heartbeat) + (IF p.msg = Heartbeat THEN 1 ELSE 0)
<1>1. g2c \in Seq(ServerPacket) /\ InFlight(g2c, Heartbeat) \in Nat
  BY BeatsCounted DEF WireInv, LinkTypes
<1>2. ASSUME NEW x, Reply(p, x)
      PROVE  x \in ServerPacket /\ (x.msg = Heartbeat => p.msg = Heartbeat)
  BY <1>2, BeatPacket DEF Reply
<1>3. CASE g2c' = g2c
  BY <1>1, <1>3
<1>4. ASSUME NEW x, Reply(p, x), g2c' = Append(g2c, x)
      PROVE  /\ InFlight(g2c', Heartbeat) \in Nat
             /\ InFlight(g2c', Heartbeat)
                   <= InFlight(g2c, Heartbeat) + (IF p.msg = Heartbeat THEN 1 ELSE 0)
  BY <1>1, <1>2, <1>4, BeatsQueued
<1>5. ASSUME NEW x, NEW y, Reply(p, x), Reply(p, y), g2c' = Append(Append(g2c, x), y),
             ~IsControl(p, "Heartbeat")
      PROVE  InFlight(g2c', Heartbeat) = InFlight(g2c, Heartbeat)
  <2>1. /\ x \in ServerPacket /\ y \in ServerPacket
        /\ x.msg # Heartbeat /\ y.msg # Heartbeat
    BY <1>2, <1>5, BeatPacket
  <2>2. /\ Append(g2c, x) \in Seq(ServerPacket)
        /\ InFlight(Append(g2c, x), Heartbeat) = InFlight(g2c, Heartbeat)
    BY <1>1, <2>1, Queued, BeatsQueued
  <2> QED  BY <1>1, <1>5, <2>1, <2>2, BeatsQueued
<1> QED  BY <1>1, <1>3, <1>4, <1>5 DEF Replies

\* The gateway takes a packet, and with it a heartbeat that it answers.
LEMMA BeatTaking ==
    ASSUME WireInv, FitInv, BeatInv, GatewayReceive
    PROVE  BeatInv'
<1> DEFINE p == Head(c2g)
<1>1. /\ c2g # <<>> /\ c2g' = Tail(c2g) /\ ticks' = ticks /\ Inbound(p)
  BY DEF GatewayReceive, Inbound, historyVars
<1>2. c2g \in Seq(ClientPacket) /\ g2c \in Seq(ServerPacket)
  BY DEF WireInv, LinkTypes
<1>3. p \in ClientPacket /\ Tail(c2g) \in Seq(ClientPacket)
  BY <1>1, <1>2, Taken
<1>4. Replies(p)
  BY <1>1, PacketTaken, TakingReplies DEF GatewayReceive
<1>5. /\ InFlight(c2g, Heartbeat) \in Nat /\ InFlight(g2c, Heartbeat) \in Nat
      /\ InFlight(Tail(c2g), Heartbeat) \in Nat
      /\ InFlight(Tail(c2g), Heartbeat) + (IF p.msg = Heartbeat THEN 1 ELSE 0)
            <= InFlight(c2g, Heartbeat)
  BY <1>1, <1>2, <1>3, BeatsCounted, BeatsTaken
<1>6. /\ InFlight(g2c', Heartbeat) \in Nat
      /\ InFlight(g2c', Heartbeat)
            <= InFlight(g2c, Heartbeat) + (IF p.msg = Heartbeat THEN 1 ELSE 0)
  BY <1>3, <1>4, RepliesBeats
<1> HIDE DEF p
<1> QED  BY <1>1, <1>5, <1>6 DEF BeatInv, HeartbeatsConserved

\* The gateway forwards what the backend queued: no heartbeat.
LEMMA BeatForward ==
    ASSUME WireInv, FitInv, BeatInv, GatewayForward
    PROVE  BeatInv'
<1>1. /\ c2g' = c2g /\ ticks' = ticks
      /\ \/ g2c' = g2c
         \/ \E f \in Frame : \E n \in Nat : g2c' = Append(g2c, Data(f, n))
  BY ForwardForwards DEF Forwards, GatewayForward, historyVars
<1>2. g2c \in Seq(ServerPacket) /\ InFlight(g2c, Heartbeat) \in Nat
  BY BeatsCounted DEF WireInv, LinkTypes
<1>3. ASSUME NEW f \in Frame, NEW n \in Nat, g2c' = Append(g2c, Data(f, n))
      PROVE  InFlight(g2c', Heartbeat) = InFlight(g2c, Heartbeat)
  <2>1. Data(f, n) \in ServerPacket /\ Data(f, n).plane = "data"
    BY DataPacket
  <2>2. Data(f, n).msg # Heartbeat
    BY <2>1, BeatPacket DEF IsControl
  <2> QED  BY <1>2, <1>3, <2>1, <2>2, BeatsQueued
<1> QED  BY <1>1, <1>3 DEF BeatInv, HeartbeatsConserved

\* Every step keeps the heartbeats bounded.
LEMMA BeatStep ==
    ASSUME WireInv, FitInv, BeatInv, [Next]_vars
    PROVE  BeatInv'
<1>1. CASE App
  BY <1>1, BeatApp
<1>2. CASE EngineReceive
  BY <1>2, BeatReceive
<1>3. CASE GatewayReceive
  BY <1>3, BeatTaking
<1>4. CASE GatewayForward
  BY <1>4, BeatForward
<1>5. CASE GatewayLeave \/ Graph \/ UNCHANGED vars
  <2>1. UNCHANGED <<c2g, g2c, ticks>>
    BY <1>5 DEF GatewayLeave, GatewayTransportGone, GatewayTeardown, Graph, BackendSample,
       BackendRequest, BackendGoal, linkVars, historyVars, vars
  <2> QED  BY <2>1 DEF BeatInv, HeartbeatsConserved
<1>6. CASE Lose
  <2>1. c2g' = <<>> /\ g2c' = <<>> /\ ticks' = ticks
    BY <1>6 DEF Lose, TransportLost, historyVars
  <2> QED  BY <2>1, BeatsNone DEF BeatInv, HeartbeatsConserved
<1> QED  BY <1>1, <1>2, <1>3, <1>4, <1>5, <1>6 DEF Next

(***************************************************************************)
(* Although each side answers every heartbeat with a heartbeat, there are  *)
(* never more of them in flight than deadlines that passed.                *)
(***************************************************************************)
THEOREM HeartbeatsBounded == Spec => []HeartbeatsConserved
<1>1. Init => BeatInv
  BY BeatsNone DEF Init, LinkInit, BeatInv, HeartbeatsConserved
<1>2. FullInv /\ BeatInv /\ [Next]_vars => BeatInv'
  BY BeatStep DEF FullInv
<1>3. BeatInv => HeartbeatsConserved
  BY DEF BeatInv
<1> QED  BY <1>1, <1>2, <1>3, FullInvariant, PTL DEF Spec

-----------------------------------------------------------------------------
(* Operations and their channels.  own gives the channel of an operation.  *)

\* A frame of an operation is on the operation's channel.
Owns(own, f) == f.opid # "none" => own[f.opid] = f.ch

\* So are all frames on a link.
OwnedIn(own, q) == \A i \in DOMAIN q : q[i].plane = "data" => Owns(own, q[i].msg)

\* So is what the backend has queued, and what the application was given.
Listed(own, q) == \A i \in DOMAIN q : own[q[i].opid] = q[i].ch

\* So is every item the application was given on channel c.
Heard(own, c, got) == \A i \in DOMAIN got : got[i].opid # "none" => own[got[i].opid] = c

\* Channel 0 stands for an operation without a channel.
Owner == [OpIds -> ChannelIds \cup {0}]

\* An operation keeps its channel.
Grows(own, next) == \A op \in OpIds : own[op] # 0 => next[op] = own[op]

\* What either side sends.
Packet == ClientPacket \cup ServerPacket

\* No frame is on channel 0, and no operation is called none.
LEMMA OperationIds ==
    /\ \A f \in Frame : f.ch \in ChannelIds /\ f.ch # 0 /\ f.opid \in OpIds \cup {"none"}
    /\ "none" \notin OpIds /\ \A c \in ChannelIds : c # 0
<1>1. \A f \in Frame : f.ch \in ChannelIds /\ f.opid \in OpIds \cup {"none"}
  BY DEF Frame
<1> QED  BY <1>1, WireAssumption

\* The packets of a link stay owned when an operation gets its channel.
LEMMA OwnedGrows ==
    ASSUME NEW own, NEW next, Grows(own, next), NEW S \in SUBSET Packet, NEW q \in Seq(S),
           OwnedIn(own, q)
    PROVE  OwnedIn(next, q)
<1> SUFFICES ASSUME NEW i \in DOMAIN q, q[i].plane = "data", q[i].msg.opid # "none"
             PROVE  next[q[i].msg.opid] = q[i].msg.ch
  BY DEF OwnedIn, Owns
<1>1. q[i] \in Packet
  BY LenProperties, ElementOfSeq
<1>2. q[i].msg \in Frame
  BY <1>1 DEF Packet, ClientPacket, ServerPacket
<1>3. own[q[i].msg.opid] = q[i].msg.ch
  BY DEF OwnedIn, Owns
<1> QED  BY <1>2, <1>3, OperationIds DEF Grows

\* A packet joins a link.
LEMMA OwnedQueued ==
    ASSUME NEW own, NEW S, NEW q \in Seq(S), NEW x \in S, OwnedIn(own, q),
           x.plane = "data" => Owns(own, x.msg)
    PROVE  OwnedIn(own, Append(q, x))
<1> DEFINE r == Append(q, x)
<1>1. /\ Len(q) \in Nat /\ DOMAIN q = 1 .. Len(q) /\ DOMAIN r = 1 .. Len(q) + 1
      /\ \A i \in 1 .. Len(q) : r[i] = q[i]
      /\ r[Len(q) + 1] = x
  BY Queued
<1> HIDE DEF r
<1>2. \A i \in DOMAIN r : i \in DOMAIN q \/ i = Len(q) + 1
  BY <1>1
<1>3. OwnedIn(own, r)
  BY <1>1, <1>2 DEF OwnedIn
<1> QED  BY <1>3 DEF r

\* A packet leaves a link.
LEMMA OwnedTaken ==
    ASSUME NEW own, NEW S, NEW q \in Seq(S), q # <<>>, OwnedIn(own, q)
    PROVE  OwnedIn(own, Tail(q)) /\ (Head(q).plane = "data" => Owns(own, Head(q).msg))
<1> DEFINE r == Tail(q)
<1>1. /\ Len(q) \in Nat /\ Len(q) # 0 /\ Head(q) = q[1]
      /\ DOMAIN q = 1 .. Len(q) /\ DOMAIN r = 1 .. Len(q) - 1
      /\ \A i \in 1 .. Len(q) - 1 : r[i] = q[i + 1]
  BY Taken
<1> HIDE DEF r
<1>2. 1 \in DOMAIN q /\ \A i \in DOMAIN r : i + 1 \in DOMAIN q /\ r[i] = q[i + 1]
  BY <1>1
<1>3. OwnedIn(own, r)
  BY <1>2 DEF OwnedIn
<1> QED  BY <1>1, <1>2, <1>3 DEF r, OwnedIn

\* What the backend queued stays owned when an operation gets its channel.
LEMMA ListedGrows ==
    ASSUME NEW own, NEW next, Grows(own, next), NEW S, NEW q \in Seq(S), Listed(own, q),
           \A s \in S : s.ch \in ChannelIds /\ s.opid \in OpIds
    PROVE  Listed(next, q)
<1> SUFFICES ASSUME NEW i \in DOMAIN q
             PROVE  next[q[i].opid] = q[i].ch
  BY DEF Listed
<1>1. q[i] \in S
  BY LenProperties, ElementOfSeq
<1> QED  BY <1>1, OperationIds DEF Grows, Listed

\* A request or a goal joins the queue.
LEMMA ListedQueued ==
    ASSUME NEW own, NEW S, NEW q \in Seq(S), NEW x \in S, Listed(own, q),
           own[x.opid] = x.ch
    PROVE  Listed(own, Append(q, x))
<1> DEFINE r == Append(q, x)
<1>1. /\ Len(q) \in Nat /\ DOMAIN q = 1 .. Len(q) /\ DOMAIN r = 1 .. Len(q) + 1
      /\ \A i \in 1 .. Len(q) : r[i] = q[i]
      /\ r[Len(q) + 1] = x
  BY Queued
<1> HIDE DEF r
<1>2. \A i \in DOMAIN r : i \in DOMAIN q \/ i = Len(q) + 1
  BY <1>1
<1>3. Listed(own, r)
  BY <1>1, <1>2 DEF Listed
<1> QED  BY <1>3 DEF r

\* A request or a goal leaves the queue.
LEMMA ListedTaken ==
    ASSUME NEW own, NEW S, NEW q \in Seq(S), q # <<>>, Listed(own, q)
    PROVE  Listed(own, Tail(q)) /\ own[Head(q).opid] = Head(q).ch
<1> DEFINE r == Tail(q)
<1>1. /\ Len(q) \in Nat /\ Len(q) # 0 /\ Head(q) = q[1]
      /\ DOMAIN q = 1 .. Len(q) /\ DOMAIN r = 1 .. Len(q) - 1
      /\ \A i \in 1 .. Len(q) - 1 : r[i] = q[i + 1]
  BY Taken
<1> HIDE DEF r
<1>2. 1 \in DOMAIN q /\ \A i \in DOMAIN r : i + 1 \in DOMAIN q /\ r[i] = q[i + 1]
  BY <1>1
<1>3. Listed(own, r)
  BY <1>2 DEF Listed
<1> QED  BY <1>1, <1>2, <1>3 DEF r, Listed

\* What was given stays owned when an operation gets its channel.
LEMMA HeardGrows ==
    ASSUME NEW own, NEW next, Grows(own, next), NEW c \in ChannelIds, NEW got \in Seq(Item),
           Heard(own, c, got)
    PROVE  Heard(next, c, got)
<1> SUFFICES ASSUME NEW i \in DOMAIN got, got[i].opid # "none"
             PROVE  next[got[i].opid] = c
  BY DEF Heard
<1>1. got[i] \in Item
  BY LenProperties, ElementOfSeq
<1>2. got[i].opid \in OpIds /\ own[got[i].opid] = c
  BY <1>1 DEF Item, Heard
<1> QED  BY <1>2, OperationIds DEF Grows

\* The application is given one more item.
LEMMA HeardQueued ==
    ASSUME NEW own, NEW c, NEW S, NEW got \in Seq(S), NEW y \in S, Heard(own, c, got),
           y.opid # "none" => own[y.opid] = c
    PROVE  Heard(own, c, Append(got, y))
<1> DEFINE r == Append(got, y)
<1>1. /\ Len(got) \in Nat /\ DOMAIN got = 1 .. Len(got) /\ DOMAIN r = 1 .. Len(got) + 1
      /\ \A i \in 1 .. Len(got) : r[i] = got[i]
      /\ r[Len(got) + 1] = y
  BY Queued
<1> HIDE DEF r
<1>2. \A i \in DOMAIN r : i \in DOMAIN got \/ i = Len(got) + 1
  BY <1>1
<1>3. Heard(own, c, r)
  BY <1>1, <1>2 DEF Heard
<1> QED  BY <1>3 DEF r

\* Whatever carries the id of an operation is on the operation's channel.
OwnerInv ==
    /\ opChannel \in Owner
    /\ OwnedIn(opChannel, c2g) /\ OwnedIn(opChannel, g2c)
    /\ Listed(opChannel, gRequests) /\ Listed(opChannel, gGoals)
    /\ \A c \in ChannelIds : Heard(opChannel, c, cDelivered[c])

\* A call or a goal of op, the end of it on its way, and delivered.
Asking(op) ==
    {p \in ClientPacket : /\ p.plane = "data" /\ p.msg.opid = op
                          /\ p.msg.opcode \in {"SERVICE_REQUEST", "ACTION_GOAL"}}

\* An answer that ends op, on its way to the engine.
Concluding(op) ==
    {p \in ServerPacket : /\ p.plane = "data" /\ p.msg.opid = op
                          /\ p.msg.opcode \in {"SERVICE_RESPONSE", "ACTION_RESULT"}}

\* An answer that ends op, given to the application.
Concluded(op) ==
    {y \in Item : y.opid = op /\ y.opcode \in {"SERVICE_RESPONSE", "ACTION_RESULT"}}

\* An operation is somewhere between its call and its end, once.
OnceOf(op) ==
    opChannel[op] # 0 =>
        Tally(c2g, Asking(op)) + Tally(g2c, Concluding(op))
          + Tally(cDelivered[opChannel[op]], Concluded(op)) <= 1

\* What is added to FullInv for the answers: the first part alone would let an
\* operation be answered on two channels, the second counts on one only.
AnswerInv == OwnerInv /\ \A op \in OpIds : OnceOf(op)

\* What is in flight of an operation that has no channel yet.
LEMMA FreshOperation ==
    ASSUME WireInv, ItemTypes, OwnerInv, NEW op \in OpIds, opChannel[op] = 0
    PROVE  /\ Tally(c2g, Asking(op)) = 0 /\ Tally(g2c, Concluding(op)) = 0
           /\ \A c \in ChannelIds : Tally(cDelivered[c], Concluded(op)) = 0
<1>1. c2g \in Seq(ClientPacket) /\ g2c \in Seq(ServerPacket)
  BY DEF WireInv, LinkTypes
<1>2. ASSUME NEW i \in DOMAIN c2g PROVE c2g[i] \notin Asking(op)
  <2> SUFFICES ASSUME c2g[i] \in Asking(op) PROVE FALSE
    OBVIOUS
  <2>1. /\ c2g[i] \in ClientPacket /\ c2g[i].plane = "data" /\ c2g[i].msg.opid = op
    BY DEF Asking
  <2>2. c2g[i].msg \in Frame
    BY <2>1, ClientPacketTypes
  <2>3. opChannel[op] = c2g[i].msg.ch
    BY <2>1, OperationIds DEF OwnerInv, OwnedIn, Owns
  <2> QED  BY <2>2, <2>3, OperationIds
<1>3. ASSUME NEW i \in DOMAIN g2c PROVE g2c[i] \notin Concluding(op)
  <2> SUFFICES ASSUME g2c[i] \in Concluding(op) PROVE FALSE
    OBVIOUS
  <2>1. /\ g2c[i] \in ServerPacket /\ g2c[i].plane = "data" /\ g2c[i].msg.opid = op
    BY DEF Concluding
  <2>2. g2c[i].msg \in Frame
    BY <2>1 DEF ServerPacket
  <2>3. opChannel[op] = g2c[i].msg.ch
    BY <2>1, OperationIds DEF OwnerInv, OwnedIn, Owns
  <2> QED  BY <2>2, <2>3, OperationIds
<1>4. ASSUME NEW c \in ChannelIds PROVE Tally(cDelivered[c], Concluded(op)) = 0
  <2>1. cDelivered[c] \in Seq(Item)
    BY DEF ItemTypes
  <2>2. \A i \in DOMAIN cDelivered[c] : cDelivered[c][i] \notin Concluded(op)
    BY OperationIds DEF OwnerInv, Heard, Concluded
  <2> QED  BY <2>1, <2>2, TallyZero
<1> QED  BY <1>1, <1>2, <1>3, <1>4, TallyZero

\* Operation op has no channel yet and gets channel c.
Assigns(op, c) ==
    opChannel[op] = 0 /\ c \in ChannelIds /\ opChannel' = [opChannel EXCEPT ![op] = c]

\* A call gives its operation a channel and leaves the others theirs.
LEMMA AssignsGrows ==
    ASSUME opChannel \in Owner, NEW op \in OpIds, NEW c, Assigns(op, c)
    PROVE  /\ Grows(opChannel, opChannel') /\ opChannel' \in Owner /\ opChannel'[op] = c
           /\ \A o \in OpIds : o # op => opChannel'[o] = opChannel[o]
  BY DEF Assigns, Owner, Grows

\* Nothing changed.
LEMMA GrowsSame ==
    ASSUME opChannel' = opChannel
    PROVE  Grows(opChannel, opChannel')
  BY DEF Grows

\* What the queues of the backend hold.
RequestItem == [ch : ChannelIds, opid : OpIds]

\* A goal or a cancel.
GoalItem == [ch : ChannelIds, opcode : {"ACTION_GOAL", "ACTION_CANCEL"}, opid : OpIds]

\* The backend's queues hold requests and goals of channels.
LEMMA SinkTypes ==
    ASSUME WireInv
    PROVE  /\ gRequests \in Seq(RequestItem) /\ gGoals \in Seq(GoalItem)
           /\ \A s \in RequestItem : s.ch \in ChannelIds /\ s.opid \in OpIds
           /\ \A s \in GoalItem : s.ch \in ChannelIds /\ s.opid \in OpIds
<1>1. gRequests \in Seq(RequestItem) /\ gGoals \in Seq(GoalItem)
  BY DEF WireInv, GatewayInv, BackendTypes, RequestItem, GoalItem
<1>2. /\ \A s \in RequestItem : s.ch \in ChannelIds /\ s.opid \in OpIds
      /\ \A s \in GoalItem : s.ch \in ChannelIds /\ s.opid \in OpIds
  BY DEF RequestItem, GoalItem
<1> QED  BY <1>1, <1>2

\* Owners that only grow are still the owners of what does not change.
LEMMA OwnerGrown ==
    ASSUME WireInv, ItemTypes, OwnerInv, Grows(opChannel, opChannel')
    PROVE  /\ OwnedIn(opChannel', c2g) /\ OwnedIn(opChannel', g2c)
           /\ Listed(opChannel', gRequests) /\ Listed(opChannel', gGoals)
           /\ \A c \in ChannelIds : Heard(opChannel', c, cDelivered[c])
<1>1. c2g \in Seq(ClientPacket) /\ g2c \in Seq(ServerPacket)
  BY DEF WireInv, LinkTypes
<1>2. ClientPacket \in SUBSET Packet /\ ServerPacket \in SUBSET Packet
  BY DEF Packet
<1>3. OwnedIn(opChannel', c2g)
  BY <1>1, <1>2, OwnedGrows DEF OwnerInv
<1>4. OwnedIn(opChannel', g2c)
  BY <1>1, <1>2, OwnedGrows DEF OwnerInv
<1>5. Listed(opChannel', gRequests) /\ Listed(opChannel', gGoals)
  BY SinkTypes, ListedGrows DEF OwnerInv
<1>6. ASSUME NEW c \in ChannelIds PROVE Heard(opChannel', c, cDelivered[c])
  BY HeardGrows DEF OwnerInv, ItemTypes
<1> QED  BY <1>3, <1>4, <1>5, <1>6

-----------------------------------------------------------------------------
(* The application. *)

\* The packet x that one command writes, and the operation it belongs to: a
\* call takes an operation without a channel, the rest goes on with one.
Speaks(x) ==
    /\ x \in ClientPacket /\ Writes(x) /\ UNCHANGED <<g2c, cDelivered, gRequests, gGoals>>
    /\ \/ /\ opChannel' = opChannel
          /\ x.plane = "data" => Owns(opChannel, x.msg)
          /\ \A op \in OpIds : x \notin Asking(op)
       \/ \E op \in OpIds, c \in ChannelIds :
             /\ Assigns(op, c)
             /\ x.plane = "data" /\ x.msg.opid = op /\ x.msg.ch = c

\* What is no call and no goal asks for nothing.
LEMMA NotAsking ==
    ASSUME NEW x, x.plane # "data" \/ x.msg.opcode \notin {"SERVICE_REQUEST", "ACTION_GOAL"}
    PROVE  \A op \in OpIds : x \notin Asking(op)
  BY DEF Asking

\* A frame of an operation: a call of a new one, or more of an old one.
LEMMA OperationSpoken ==
    ASSUME WireInv, OwnerInv, NEW c \in ChannelIds, NEW opcode \in ServiceActionOpcode,
           NEW op \in OpIds, ClientSendOperation(c, opcode, op), UNCHANGED gatewayVars,
           \/ Assigns(op, c)
           \/ /\ opChannel' = opChannel /\ opChannel[op] = c
              /\ opcode \notin {"SERVICE_REQUEST", "ACTION_GOAL"}
    PROVE  \E x : Speaks(x)
<1> DEFINE f == Operation(opcode, c, op, opcode \in ReliableRequired)
           n == cActive[c].next
           x == Data(f, n)
<1>1. n \in Nat
  BY DEF WireInv, EngineInv, EngineTypes, ActiveEntry
<1>2. f \in Frame /\ f.opcode = opcode /\ f.ch = c /\ f.opid = op
  BY DEF Operation, Frame
<1>3. UNCHANGED <<g2c, cDelivered, gRequests, gGoals>> /\ Writes(x)
  BY DEF ClientSendOperation, Writes, appVars, gatewayVars
<1> HIDE DEF f, n
<1>4. x \in ClientPacket /\ x.plane = "data" /\ x.msg = f
  BY <1>1, <1>2, DataPacket DEF Data
<1> HIDE DEF x
<1>5. CASE Assigns(op, c)
  BY <1>2, <1>3, <1>4, <1>5 DEF Speaks
<1>6. CASE /\ opChannel' = opChannel /\ opChannel[op] = c
           /\ opcode \notin {"SERVICE_REQUEST", "ACTION_GOAL"}
  BY <1>2, <1>3, <1>4, <1>6, NotAsking DEF Speaks, Owns
<1> QED  BY <1>5, <1>6

\* A command that is no data.
LEMMA ControlSpoken ==
    ASSUME NEW x \in ClientPacket, x.plane # "data", Writes(x),
           UNCHANGED <<g2c, cDelivered, gRequests, gGoals, opChannel>>
    PROVE  \E z : Speaks(z)
  BY NotAsking DEF Speaks

\* Every sensible command is of this kind.
LEMMA AppSpeaks ==
    ASSUME WireInv, ItemTypes, OwnerInv, Disciplined, App
    PROVE  \E x : Speaks(x)
<1>1. /\ cSeqOut \in Nat /\ Kinds \subseteq OperationKind
      /\ cActive \in [ChannelIds -> ActiveEntry]
  BY WireAssumption DEF WireInv, EngineInv, EngineTypes
<1>2. ASSUME NEW m \in ClientControl, NEW pending, NEW active,
             ClientCommand(m, pending, active), UNCHANGED gatewayVars, opChannel' = opChannel
      PROVE  \E x : Speaks(x)
  <2> DEFINE x == Control(m, cSeqOut)
  <2>1. x \in ClientPacket /\ x.plane = "control"
    BY <1>1, ControlPacket
  <2>2. UNCHANGED <<g2c, cDelivered, gRequests, gGoals>> /\ Writes(x)
    BY <1>2 DEF ClientCommand, ClientPushControl, ClientFail, linkVars, Writes, appVars,
       gatewayVars
  <2> HIDE DEF x
  <2> QED  BY <1>2, <2>1, <2>2, ControlSpoken
<1>3. CASE AppStart
  <2>1. Bootstrap("ClientHello") \in ClientPacket /\ Bootstrap("ClientHello").plane = "bootstrap"
    BY DEF Bootstrap, ClientPacket
  <2>2. /\ UNCHANGED <<g2c, cDelivered, gRequests, gGoals, opChannel>>
        /\ Writes(Bootstrap("ClientHello"))
    BY <1>3 DEF AppStart, ClientStart, historyVars, gatewayVars, appVars, Writes
  <2> QED  BY <2>1, <2>2, ControlSpoken
<1>4. CASE AppAuthenticate
  <2>1. [type |-> "Authenticate"] \in ClientControl
    BY DEF ClientControl
  <2> QED  BY <1>2, <1>4, <2>1 DEF AppAuthenticate, ClientAuthenticate, historyVars
<1>5. ASSUME NEW c \in ChannelIds, NEW kind \in Kinds, AppOpen(c, kind)
      PROVE  \E x : Speaks(x)
  <2>1. [type |-> "OpenChannel", ch |-> c, kind |-> kind] \in ClientControl
    BY <1>1 DEF ClientControl
  <2> QED  BY <1>2, <1>5, <2>1 DEF AppOpen, ClientOpen, historyVars
<1>6. ASSUME NEW c \in ChannelIds, AppUnsubscribe(c)
      PROVE  \E x : Speaks(x)
  <2>1. [type |-> "CloseChannel", ch |-> c] \in ClientControl
    BY DEF ClientControl
  <2> QED  BY <1>2, <1>6, <2>1 DEF AppUnsubscribe, ClientUnsubscribe, historyVars
<1>7. ASSUME NEW c \in ChannelIds, AppPublish(c)
      PROVE  \E x : Speaks(x)
  <2> DEFINE f == Sample(c, cActive[c].reliable, 0)
             n == cActive[c].next
             x == Data(f, n)
  <2>1. f \in Frame /\ n \in Nat
    BY <1>1 DEF Sample, Frame, ActiveEntry
  <2>2. f.opcode = "ROS_SAMPLE" /\ f.opid = "none"
    BY DEF Sample
  <2>3. UNCHANGED <<g2c, cDelivered, gRequests, gGoals, opChannel>> /\ Writes(x)
    BY <1>7 DEF AppPublish, ClientSendSample, Writes, historyVars, gatewayVars, appVars
  <2> HIDE DEF f, n
  <2>4. x \in ClientPacket /\ x.plane = "data" /\ x.msg = f
    BY <2>1, DataPacket DEF Data
  <2> HIDE DEF x
  <2> QED  BY <2>2, <2>3, <2>4, NotAsking DEF Speaks, Owns
<1>8. ASSUME NEW c \in ChannelIds, NEW op \in OpIds, AppCall(c, op)
      PROVE  \E x : Speaks(x)
  <2>1. /\ Assigns(op, c) /\ UNCHANGED gatewayVars
        /\ \E opcode \in ServiceActionOpcode : ClientSendOperation(c, opcode, op)
    BY <1>8 DEF AppCall, Assigns, ServiceActionOpcode
  <2> QED  BY <2>1, OperationSpoken
<1>9. ASSUME NEW c \in ChannelIds, NEW op \in OpIds, AppCancel(c, op)
      PROVE  \E x : Speaks(x)
  <2>1. /\ UNCHANGED gatewayVars /\ opChannel' = opChannel /\ opChannel[op] = c
        /\ ClientSendOperation(c, "ACTION_CANCEL", op)
    BY <1>9 DEF AppCancel, historyVars
  <2> QED  BY <2>1, OperationSpoken DEF ServiceActionOpcode
<1>10. ASSUME NEW c \in ChannelIds, NEW op \in OpIds, AppReply(c, op)
       PROVE  \E x : Speaks(x)
  <2>1. /\ UNCHANGED gatewayVars /\ opChannel' = opChannel
        /\ \E opcode \in {"SERVICE_RESPONSE", "ACTION_FEEDBACK", "ACTION_STATUS",
                          "ACTION_RESULT"} : ClientSendOperation(c, opcode, op)
        /\ \E opcode : WasDelivered(c, opcode, op)
    BY <1>10 DEF AppReply
  <2>2. opChannel[op] = c
    BY <2>1, OperationIds DEF WasDelivered, OwnerInv, Heard
  <2> QED  BY <2>1, <2>2, OperationSpoken DEF ServiceActionOpcode
<1>11. ASSUME NEW c \in ChannelIds, NEW opcode, NEW op, AppMisuse(c, opcode, op)
       PROVE  FALSE
  BY <1>11 DEF AppMisuse
<1>12. CASE AppTick \/ AppClose
  <2>1. /\ Control(Heartbeat, cSeqOut) \in ClientPacket
        /\ Control(Heartbeat, cSeqOut).plane = "control"
    BY <1>1, ControlPacket DEF ClientControl
  <2>2. /\ UNCHANGED <<g2c, cDelivered, gRequests, gGoals, opChannel>>
        /\ Writes(Control(Heartbeat, cSeqOut))
    BY <1>12 DEF AppTick, ClientHeartbeat, ClientPushControl, AppClose, ClientClose, Writes,
       linkVars, historyVars, gatewayVars, appVars
  <2> QED  BY <2>1, <2>2, ControlSpoken
<1> QED  BY <1>3, <1>4, <1>5, <1>6, <1>7, <1>8, <1>9, <1>10, <1>11, <1>12 DEF App

\* A command of the application.
LEMMA AnswerSpeaks ==
    ASSUME WireInv, ItemTypes, AnswerInv, NEW x, Speaks(x)
    PROVE  AnswerInv'
<1>1. /\ c2g \in Seq(ClientPacket) /\ g2c \in Seq(ServerPacket)
      /\ x \in ClientPacket /\ UNCHANGED <<g2c, cDelivered, gRequests, gGoals>>
      /\ OwnerInv /\ opChannel \in Owner
  BY DEF WireInv, LinkTypes, Speaks, AnswerInv, OwnerInv
<1>2. c2g' = c2g \/ c2g' = Append(c2g, x)
  BY <1>1, WritesOne DEF Speaks
<1>3. \A op \in OpIds : \/ /\ Tally(c2g, Asking(op)) \in Nat /\ c2g' = c2g
                        \/ /\ Tally(c2g, Asking(op)) \in Nat
                           /\ Tally(c2g', Asking(op)) =
                                 Tally(c2g, Asking(op)) + (IF x \in Asking(op) THEN 1 ELSE 0)
  <2> SUFFICES ASSUME NEW op \in OpIds
               PROVE  /\ Tally(c2g, Asking(op)) \in Nat
                      /\ c2g' # c2g => Tally(c2g', Asking(op)) =
                            Tally(c2g, Asking(op)) + (IF x \in Asking(op) THEN 1 ELSE 0)
    OBVIOUS
  <2>1. Tally(c2g, Asking(op)) \in Nat
    BY <1>1, TallyCounted
  <2>2. Tally(Append(c2g, x), Asking(op)) =
           Tally(c2g, Asking(op)) + (IF x \in Asking(op) THEN 1 ELSE 0)
    BY <1>1, TallyQueued
  <2> QED  BY <1>2, <2>1, <2>2
<1>4. ASSUME Grows(opChannel, opChannel'), opChannel' \in Owner,
             x.plane = "data" => Owns(opChannel', x.msg)
      PROVE  OwnerInv'
  <2>1. /\ OwnedIn(opChannel', c2g) /\ OwnedIn(opChannel', g2c)
        /\ Listed(opChannel', gRequests) /\ Listed(opChannel', gGoals)
        /\ \A c \in ChannelIds : Heard(opChannel', c, cDelivered[c])
    BY <1>1, <1>4, OwnerGrown
  <2>2. OwnedIn(opChannel', c2g')
    BY <1>1, <1>2, <1>4, <2>1, OwnedQueued
  <2> QED  BY <1>1, <1>4, <2>1, <2>2 DEF OwnerInv
<1>5. CASE /\ opChannel' = opChannel
           /\ x.plane = "data" => Owns(opChannel, x.msg)
           /\ \A op \in OpIds : x \notin Asking(op)
  <2>1. OwnerInv'
    BY <1>1, <1>4, <1>5, GrowsSame
  <2>2. ASSUME NEW op \in OpIds PROVE OnceOf(op)'
    <3>1. OnceOf(op) /\ Tally(c2g', Asking(op)) = Tally(c2g, Asking(op))
      BY <1>3, <1>5 DEF AnswerInv
    <3> QED  BY <1>1, <1>5, <3>1 DEF OnceOf
  <2> QED  BY <2>1, <2>2 DEF AnswerInv
<1>6. ASSUME NEW op \in OpIds, NEW c \in ChannelIds, Assigns(op, c),
             x.plane = "data", x.msg.opid = op, x.msg.ch = c
      PROVE  AnswerInv'
  <2>1. /\ Grows(opChannel, opChannel') /\ opChannel' \in Owner /\ opChannel'[op] = c
        /\ \A o \in OpIds : o # op => opChannel'[o] = opChannel[o]
    BY <1>1, <1>6, AssignsGrows
  <2>2. OwnerInv'
    BY <1>4, <1>6, <2>1 DEF Owns
  <2>3. ASSUME NEW o \in OpIds, o # op PROVE OnceOf(o)'
    <3>1. x \notin Asking(o)
      BY <1>6, <2>3 DEF Asking
    <3>2. OnceOf(o) /\ Tally(c2g', Asking(o)) = Tally(c2g, Asking(o))
      BY <1>3, <3>1 DEF AnswerInv
    <3> QED  BY <1>1, <2>1, <2>3, <3>2 DEF OnceOf
  <2>4. OnceOf(op)'
    <3>1. /\ Tally(c2g, Asking(op)) = 0 /\ Tally(g2c, Concluding(op)) = 0
          /\ Tally(cDelivered[c], Concluded(op)) = 0
      BY <1>1, <1>6, FreshOperation DEF Assigns
    <3>2. Tally(c2g', Asking(op)) \in {0, 1}
      BY <1>3, <3>1
    <3> QED  BY <1>1, <2>1, <3>1, <3>2 DEF OnceOf
  <2> QED  BY <2>2, <2>3, <2>4 DEF AnswerInv
<1> QED  BY <1>5, <1>6 DEF Speaks

-----------------------------------------------------------------------------
(* The engine. *)

\* The counts of one operation.
LEMMA TallyTypes ==
    ASSUME WireInv, ItemTypes, NEW op
    PROVE  /\ Tally(c2g, Asking(op)) \in Nat /\ Tally(g2c, Concluding(op)) \in Nat
           /\ \A c \in ChannelIds : Tally(cDelivered[c], Concluded(op)) \in Nat
<1>1. c2g \in Seq(ClientPacket) /\ g2c \in Seq(ServerPacket)
  BY DEF WireInv, LinkTypes
<1>2. ASSUME NEW c \in ChannelIds PROVE Tally(cDelivered[c], Concluded(op)) \in Nat
  BY TallyCounted DEF ItemTypes
<1> QED  BY <1>1, <1>2, TallyCounted

\* A heartbeat is no call.
LEMMA EchoedTally ==
    ASSUME WireInv, EngineReceive, NEW op \in OpIds
    PROVE  Tally(c2g', Asking(op)) = Tally(c2g, Asking(op))
<1> DEFINE x == Control(Heartbeat, cSeqOut)
<1>1. x \in ClientPacket /\ c2g \in Seq(ClientPacket) /\ (c2g' = c2g \/ c2g' = Append(c2g, x))
  BY EngineWrites DEF WireInv, LinkTypes
<1>2. x.plane = "control"
  BY ControlPacket
<1> HIDE DEF x
<1>3. x \notin Asking(op)
  BY <1>2, NotAsking
<1>4. Tally(c2g, Asking(op)) \in Nat
  BY <1>1, TallyCounted
<1>5. Tally(Append(c2g, x), Asking(op)) = Tally(c2g, Asking(op))
  BY <1>1, <1>3, <1>4, TallyQueued
<1> QED  BY <1>1, <1>5

\* Nothing is delivered, or the head is.
LEMMA OwnerReceive ==
    ASSUME WireInv, ItemTypes, OwnerInv, EngineReceive,
           cDelivered' = cDelivered \/ Delivers(Head(g2c))
    PROVE  OwnerInv'
<1> DEFINE x == Control(Heartbeat, cSeqOut)
           h == Head(g2c)
<1>1. /\ x \in ClientPacket /\ c2g \in Seq(ClientPacket) /\ g2c \in Seq(ServerPacket)
      /\ c2g' = c2g \/ c2g' = Append(c2g, x)
      /\ g2c # <<>> /\ g2c' = Tail(g2c)
      /\ UNCHANGED <<opChannel, gRequests, gGoals>>
  BY EngineWrites DEF WireInv, LinkTypes, EngineReceive, gatewayVars, historyVars
<1>2. x.plane = "control"
  BY ControlPacket
<1> HIDE DEF x
<1>3. OwnedIn(opChannel, c2g')
  BY <1>1, <1>2, OwnedQueued DEF OwnerInv
<1>4. OwnedIn(opChannel, g2c') /\ (h.plane = "data" => Owns(opChannel, h.msg))
  BY <1>1, OwnedTaken DEF OwnerInv
<1>5. h \in ServerPacket
  BY <1>1, Taken
<1> HIDE DEF h
<1>6. ASSUME NEW c \in ChannelIds PROVE Heard(opChannel, c, cDelivered'[c])
  <2>1. /\ Heard(opChannel, c, cDelivered[c]) /\ cDelivered[c] \in Seq(Item)
        /\ cDelivered \in [ChannelIds -> Seq(Item)]
    BY DEF OwnerInv, ItemTypes
  <2>2. CASE cDelivered'[c] = cDelivered[c]
    BY <2>1, <2>2
  <2>3. CASE cDelivered'[c] # cDelivered[c]
    <3>1. /\ h.plane = "data" /\ h.msg.ch = c
          /\ cDelivered'[c] = Append(cDelivered[c], ItemOf(h))
      BY <2>1, <2>3 DEF Delivers, h
    <3>2. ItemOf(h) \in Item /\ ItemOf(h).opid = h.msg.opid
      BY <1>5, <3>1, ItemOfPacket DEF ItemOf
    <3>3. ItemOf(h).opid # "none" => opChannel[ItemOf(h).opid] = c
      BY <1>4, <3>1, <3>2 DEF Owns
    <3> QED  BY <2>1, <3>1, <3>2, <3>3, HeardQueued
  <2> QED  BY <2>2, <2>3
<1> QED  BY <1>1, <1>3, <1>4, <1>6 DEF OwnerInv

\* An answer the engine takes moves from the link to the application.
LEMMA OnceReceive ==
    ASSUME WireInv, ItemTypes, AnswerInv, EngineReceive,
           cDelivered' = cDelivered \/ Delivers(Head(g2c)), NEW op \in OpIds
    PROVE  OnceOf(op)'
<1> SUFFICES ASSUME opChannel[op] # 0, opChannel' = opChannel
             PROVE  OnceOf(op)'
  BY DEF OnceOf, EngineReceive, historyVars
<1> DEFINE h == Head(g2c)
           c == opChannel[op]
           a == Tally(c2g, Asking(op))
           b == Tally(g2c, Concluding(op))
           d == Tally(cDelivered[c], Concluded(op))
<1>1. /\ c \in ChannelIds /\ OnceOf(op) /\ cDelivered \in [ChannelIds -> Seq(Item)]
      /\ g2c \in Seq(ServerPacket) /\ OwnedIn(opChannel, g2c)
  BY DEF AnswerInv, OwnerInv, Owner, ItemTypes, WireInv, LinkTypes
<1>2. g2c # <<>> /\ g2c' = Tail(g2c)
  BY EngineWrites
<1>3. a \in Nat /\ b \in Nat /\ d \in Nat /\ a + b + d <= 1
  BY <1>1, TallyTypes DEF OnceOf
<1>4. Tally(c2g', Asking(op)) = a
  BY EchoedTally
<1>5. /\ Tally(g2c', Concluding(op)) \in Nat
      /\ Tally(g2c', Concluding(op)) + (IF h \in Concluding(op) THEN 1 ELSE 0) <= b
  BY <1>1, <1>2, TallyTaken
<1>6. h \in ServerPacket /\ (h.plane = "data" => Owns(opChannel, h.msg))
  BY <1>1, <1>2, Taken, OwnedTaken
<1> HIDE DEF h
<1>7. /\ Tally(cDelivered'[c], Concluded(op)) \in Nat
      /\ Tally(cDelivered'[c], Concluded(op)) <= d + (IF h \in Concluding(op) THEN 1 ELSE 0)
  <2>1. CASE cDelivered'[c] = cDelivered[c]
    BY <1>3, <2>1
  <2>2. CASE cDelivered'[c] # cDelivered[c]
    <3> DEFINE y == ItemOf(h)
    <3>1. h.plane = "data" /\ cDelivered'[c] = Append(cDelivered[c], y)
      BY <1>1, <2>2 DEF Delivers, h
    <3>2. /\ y \in Item /\ y.opid = h.msg.opid /\ y.opcode = h.msg.opcode
      BY <1>6, <3>1, ItemOfPacket DEF ItemOf
    <3> HIDE DEF y
    <3>3. y \in Concluded(op) => h \in Concluding(op)
      BY <1>6, <3>1, <3>2 DEF Concluded, Concluding
    <3>4. Tally(cDelivered'[c], Concluded(op)) = d + (IF y \in Concluded(op) THEN 1 ELSE 0)
      BY <1>1, <3>1, <3>2, TallyQueued
    <3> QED  BY <1>3, <3>3, <3>4
  <2> QED  BY <2>1, <2>2
<1> HIDE DEF a, b, d
<1>8. /\ Tally(c2g', Asking(op)) + Tally(g2c', Concluding(op))
           + Tally(cDelivered'[c], Concluded(op)) <= 1
  BY <1>3, <1>4, <1>5, <1>7
<1> QED  BY <1>8 DEF OnceOf

\* The engine takes a packet.
LEMMA AnswerReceive ==
    ASSUME WireInv, FitInv, ItemTypes, AnswerInv, EngineReceive
    PROVE  AnswerInv'
<1>1. cDelivered' = cDelivered \/ Delivers(Head(g2c))
  BY ReceiveDelivers DEF EngineReceive
<1> QED  BY <1>1, OwnerReceive, OnceReceive DEF AnswerInv

-----------------------------------------------------------------------------
(* The gateway. *)

\* x may follow p on p's operation: it ends it only if p began it.
LEMMA ReplyOwned ==
    ASSUME NEW p \in ClientPacket, NEW x, Reply(p, x), p.plane = "data" => Owns(opChannel, p.msg)
    PROVE  /\ x \in ServerPacket /\ (x.plane = "data" => Owns(opChannel, x.msg))
           /\ \A op \in OpIds : x \in Concluding(op) => p \in Asking(op)
           /\ x.plane = "control" => \A op \in OpIds : x \notin Concluding(op)
<1>1. x \in ServerPacket /\ (x.plane = "data" => Owns(opChannel, x.msg))
  BY DEF Reply, Owns
<1>2. ASSUME NEW op \in OpIds, x \in Concluding(op) PROVE p \in Asking(op)
  BY <1>2 DEF Concluding, Asking, Reply, Answers
<1>3. x.plane = "control" => \A op \in OpIds : x \notin Concluding(op)
  BY DEF Concluding
<1> QED  BY <1>1, <1>2, <1>3

\* An answer takes the place of the call the gateway took.
LEMMA RepliesOwned ==
    ASSUME WireInv, NEW p \in ClientPacket, Replies(p), OwnedIn(opChannel, g2c),
           p.plane = "data" => Owns(opChannel, p.msg)
    PROVE  /\ OwnedIn(opChannel, g2c')
           /\ \A op \in OpIds :
                 /\ Tally(g2c', Concluding(op)) \in Nat
                 /\ Tally(g2c', Concluding(op))
                       <= Tally(g2c, Concluding(op)) + (IF p \in Asking(op) THEN 1 ELSE 0)
<1>1. g2c \in Seq(ServerPacket)
  BY DEF WireInv, LinkTypes
<1>2. \A op \in OpIds : Tally(g2c, Concluding(op)) \in Nat
  BY <1>1, TallyCounted
<1>3. CASE g2c' = g2c
  BY <1>2, <1>3
<1>4. ASSUME NEW x, Reply(p, x), g2c' = Append(g2c, x)
      PROVE  /\ OwnedIn(opChannel, g2c')
             /\ \A op \in OpIds :
                   /\ Tally(g2c', Concluding(op)) \in Nat
                   /\ Tally(g2c', Concluding(op))
                         <= Tally(g2c, Concluding(op)) + (IF p \in Asking(op) THEN 1 ELSE 0)
  <2>1. /\ x \in ServerPacket /\ (x.plane = "data" => Owns(opChannel, x.msg))
        /\ \A op \in OpIds : x \in Concluding(op) => p \in Asking(op)
    BY <1>4, ReplyOwned
  <2>2. OwnedIn(opChannel, g2c')
    BY <1>1, <1>4, <2>1, OwnedQueued
  <2>3. ASSUME NEW op \in OpIds
        PROVE  /\ Tally(g2c', Concluding(op)) \in Nat
               /\ Tally(g2c', Concluding(op))
                     <= Tally(g2c, Concluding(op)) + (IF p \in Asking(op) THEN 1 ELSE 0)
    <3>1. Tally(g2c', Concluding(op))
             = Tally(g2c, Concluding(op)) + (IF x \in Concluding(op) THEN 1 ELSE 0)
      BY <1>1, <1>4, <2>1, TallyQueued
    <3> QED  BY <1>2, <2>1, <3>1
  <2> QED  BY <2>2, <2>3
<1>5. ASSUME NEW x, NEW y, Reply(p, x), Reply(p, y), g2c' = Append(Append(g2c, x), y),
             x.plane = "control", y.plane = "control"
      PROVE  /\ OwnedIn(opChannel, g2c')
             /\ \A op \in OpIds : Tally(g2c', Concluding(op)) = Tally(g2c, Concluding(op))
  <2>1. /\ x \in ServerPacket /\ y \in ServerPacket
        /\ \A op \in OpIds : x \notin Concluding(op) /\ y \notin Concluding(op)
    BY <1>5, ReplyOwned
  <2>2. Append(g2c, x) \in Seq(ServerPacket) /\ OwnedIn(opChannel, Append(g2c, x))
    BY <1>1, <1>5, <2>1, Queued, OwnedQueued
  <2>3. OwnedIn(opChannel, g2c')
    BY <1>5, <2>1, <2>2, OwnedQueued
  <2>4. ASSUME NEW op \in OpIds
        PROVE  Tally(g2c', Concluding(op)) = Tally(g2c, Concluding(op))
    <3>1. Tally(Append(g2c, x), Concluding(op)) = Tally(g2c, Concluding(op))
      BY <1>1, <1>2, <2>1, TallyQueued
    <3>2. Tally(g2c', Concluding(op)) = Tally(Append(g2c, x), Concluding(op)) + 0
      BY <1>5, <2>1, <2>2, TallyQueued
    <3> QED  BY <1>2, <3>1, <3>2
  <2> QED  BY <2>3, <2>4
<1> QED  BY <1>2, <1>3, <1>4, <1>5 DEF Replies

\* The gateway takes a packet.
LEMMA AnswerTaking ==
    ASSUME WireInv, FitInv, ItemTypes, AnswerInv, GatewayReceive
    PROVE  AnswerInv'
<1> DEFINE p == Head(c2g)
<1>1. /\ c2g # <<>> /\ c2g' = Tail(c2g) /\ Inbound(p) /\ c2g \in Seq(ClientPacket)
      /\ UNCHANGED <<opChannel, cDelivered>>
  BY DEF GatewayReceive, Inbound, historyVars, clientVars, WireInv, LinkTypes
<1>2. Taking(p)
  BY <1>1, PacketTaken DEF GatewayReceive
<1>3. UNCHANGED <<gRequests, gGoals>>
  BY <1>2 DEF Taking, Ended, Greeted, Admitted, Refused, Released, Opened, Echoed, TookSample,
     TookOperation, TookData, sinkVars
<1>4. Replies(p) /\ p \in ClientPacket
  BY <1>1, <1>2, TakingReplies, Taken
<1>5. OwnedIn(opChannel, c2g') /\ (p.plane = "data" => Owns(opChannel, p.msg))
  BY <1>1, OwnedTaken DEF AnswerInv, OwnerInv
<1>6. /\ OwnedIn(opChannel, g2c')
      /\ \A op \in OpIds :
            /\ Tally(g2c', Concluding(op)) \in Nat
            /\ Tally(g2c', Concluding(op))
                  <= Tally(g2c, Concluding(op)) + (IF p \in Asking(op) THEN 1 ELSE 0)
  BY <1>4, <1>5, RepliesOwned DEF AnswerInv, OwnerInv
<1>7. \A op \in OpIds :
         /\ Tally(c2g', Asking(op)) \in Nat
         /\ Tally(c2g', Asking(op)) + (IF p \in Asking(op) THEN 1 ELSE 0)
               <= Tally(c2g, Asking(op))
  BY <1>1, TallyTaken
<1> HIDE DEF p
<1>8. OwnerInv'
  BY <1>1, <1>3, <1>5, <1>6 DEF AnswerInv, OwnerInv
<1>9. ASSUME NEW op \in OpIds, opChannel[op] # 0 PROVE OnceOf(op)'
  <2> DEFINE c == opChannel[op]
  <2>1. c \in ChannelIds /\ OnceOf(op)
    BY <1>9 DEF AnswerInv, OwnerInv, Owner
  <2>2. /\ Tally(c2g, Asking(op)) \in Nat /\ Tally(g2c, Concluding(op)) \in Nat
        /\ Tally(cDelivered[c], Concluded(op)) \in Nat
        /\ Tally(c2g, Asking(op)) + Tally(g2c, Concluding(op))
             + Tally(cDelivered[c], Concluded(op)) <= 1
    BY <1>9, <2>1, TallyTypes DEF OnceOf
  <2>3. Tally(c2g', Asking(op)) + Tally(g2c', Concluding(op))
          + Tally(cDelivered[c], Concluded(op)) <= 1
    BY <1>6, <1>7, <2>2
  <2> QED  BY <1>1, <2>3 DEF OnceOf
<1>10. ASSUME NEW op \in OpIds, opChannel[op] = 0 PROVE OnceOf(op)'
  BY <1>1, <1>10 DEF OnceOf
<1> QED  BY <1>8, <1>9, <1>10 DEF AnswerInv

\* What the gateway forwards ends no operation.
LEMMA AnswerForwarded ==
    ASSUME WireInv, ItemTypes, AnswerInv, UNCHANGED <<c2g, cDelivered, opChannel>>,
           Listed(opChannel, gRequests'), Listed(opChannel, gGoals'), NEW x \in ServerPacket,
           g2c' = g2c \/ g2c' = Append(g2c, x),
           x.plane = "data" => Owns(opChannel, x.msg) /\ x.msg.opcode \notin
                                  {"SERVICE_RESPONSE", "ACTION_RESULT"}
    PROVE  AnswerInv'
<1>1. g2c \in Seq(ServerPacket) /\ OwnerInv
  BY DEF WireInv, LinkTypes, AnswerInv
<1>2. OwnedIn(opChannel, g2c')
  BY <1>1, OwnedQueued DEF OwnerInv
<1>3. OwnerInv'
  BY <1>1, <1>2 DEF OwnerInv
<1>4. ASSUME NEW op \in OpIds PROVE OnceOf(op)'
  <2>1. x \notin Concluding(op) /\ Tally(g2c, Concluding(op)) \in Nat
    BY <1>1, TallyCounted DEF Concluding
  <2>2. Tally(Append(g2c, x), Concluding(op)) = Tally(g2c, Concluding(op))
    BY <1>1, <2>1, TallyQueued
  <2>3. OnceOf(op) /\ Tally(g2c', Concluding(op)) = Tally(g2c, Concluding(op))
    BY <2>2 DEF AnswerInv
  <2> QED  BY <2>3 DEF OnceOf
<1> QED  BY <1>3, <1>4 DEF AnswerInv

\* A sample belongs to no operation.
LEMMA AnswerSample ==
    ASSUME WireInv, ItemTypes, AnswerInv, NEW fits, GatewaySample(fits),
           UNCHANGED <<cDelivered, opChannel>>
    PROVE  AnswerInv'
<1> DEFINE s == Head(gSamples)
           rt == gRuntime[s.ch]
           f == Sample(s.ch, rt.reliable, s.from)
           x == Data(f, rt.seqOut)
<1>1. /\ gSamples # <<>> /\ UNCHANGED <<c2g, gRequests, gGoals>>
      /\ g2c' = g2c \/ (rt.kind = "TopicSubscribe" /\ g2c' = g2c \o <<x>>)
  BY DEF GatewaySample, Sent
<1>2. /\ gSamples \in Seq([ch : ChannelIds, from : Nat]) /\ g2c \in Seq(ServerPacket)
      /\ gRuntime \in [ChannelIds -> Runtime \cup {NoRuntime}]
      /\ Listed(opChannel, gRequests) /\ Listed(opChannel, gGoals)
  BY DEF WireInv, GatewayInv, BackendTypes, LinkTypes, AnswerInv, OwnerInv
<1>3. s \in [ch : ChannelIds, from : Nat]
  BY <1>1, <1>2, Taken
<1>4. s.ch \in ChannelIds /\ s.from \in Nat
  BY <1>3
<1> HIDE DEF s
<1>5. CASE g2c' = g2c
  <2>1. Bootstrap("ServerHello") \in ServerPacket /\ Bootstrap("ServerHello").plane = "bootstrap"
    BY DEF Bootstrap, ServerPacket
  <2> QED  BY <1>1, <1>2, <1>5, <2>1, AnswerForwarded
<1>6. CASE rt.kind = "TopicSubscribe" /\ g2c' = g2c \o <<x>>
  <2>1. rt # NoRuntime
    BY <1>6 DEF NoRuntime, NoKind
  <2>2. rt \in Runtime /\ rt.reliable \in BOOLEAN /\ rt.seqOut \in Nat
    BY <1>2, <1>4, <2>1 DEF Runtime
  <2>3. f \in Frame /\ f.opcode = "ROS_SAMPLE" /\ f.opid = "none"
    BY <1>4, <2>2 DEF Sample, Frame
  <2> HIDE DEF f
  <2>4. x \in ServerPacket /\ x.msg = f
    BY <2>2, <2>3, DataPacket DEF Data
  <2> HIDE DEF x
  <2>5. g2c' = Append(g2c, x)
    BY <1>2, <1>6, <2>4, SentOne
  <2> QED  BY <1>1, <1>2, <2>3, <2>4, <2>5, AnswerForwarded DEF Owns
<1> QED  BY <1>1, <1>5, <1>6

\* A request or a goal goes to the page that serves it.
LEMMA AnswerInbound ==
    ASSUME WireInv, FitInv, ItemTypes, AnswerInv, NEW s, s.ch \in ChannelIds, s.opid \in OpIds,
           opChannel[s.opid] = s.ch, NEW kind, NEW opcode, PushInbound(s, kind, opcode),
           \/ kind = "ServiceServer" /\ opcode = "SERVICE_REQUEST"
           \/ kind = "ActionServer" /\ opcode \in {"ACTION_GOAL", "ACTION_CANCEL"},
           gLoop = "running", UNCHANGED <<c2g, cDelivered, opChannel>>,
           Listed(opChannel, gRequests'), Listed(opChannel, gGoals')
    PROVE  AnswerInv'
<1> DEFINE f == Operation(opcode, s.ch, s.opid, TRUE)
<1>1. /\ f \in Frame
      /\ g2c' = g2c \/ \E n \in Nat : g2c' = Append(g2c, Data(f, n))
  BY InboundSends
<1>2. f.opid = s.opid /\ f.ch = s.ch /\ f.opcode = opcode
  BY DEF Operation
<1> HIDE DEF f
<1>3. ASSUME NEW n \in Nat
      PROVE  /\ Data(f, n) \in ServerPacket
             /\ Owns(opChannel, Data(f, n).msg)
             /\ Data(f, n).msg.opcode \notin {"SERVICE_RESPONSE", "ACTION_RESULT"}
  <2>1. Data(f, n) \in ServerPacket /\ Data(f, n).msg = f
    BY <1>1, DataPacket DEF Data
  <2> QED  BY <1>2, <2>1 DEF Owns
<1>4. CASE g2c' = g2c
  BY <1>3, <1>4, AnswerForwarded
<1>5. ASSUME NEW n \in Nat, g2c' = Append(g2c, Data(f, n)) PROVE AnswerInv'
  BY <1>3, <1>5, AnswerForwarded
<1> QED  BY <1>1, <1>4, <1>5

\* The gateway forwards what the backend queued.
LEMMA AnswerForward ==
    ASSUME WireInv, FitInv, ItemTypes, AnswerInv, GatewayForward
    PROVE  AnswerInv'
<1>1. UNCHANGED <<cDelivered, opChannel>>
  BY DEF GatewayForward, clientVars, historyVars
<1>2. /\ gRequests \in Seq(RequestItem) /\ gGoals \in Seq(GoalItem)
      /\ \A s \in RequestItem : s.ch \in ChannelIds /\ s.opid \in OpIds
      /\ \A s \in GoalItem : s.ch \in ChannelIds /\ s.opid \in OpIds
      /\ Listed(opChannel, gRequests) /\ Listed(opChannel, gGoals)
  BY SinkTypes DEF AnswerInv, OwnerInv
<1>3. ASSUME NEW fits \in Outcomes, GatewaySample(fits) PROVE AnswerInv'
  BY <1>1, <1>3, AnswerSample
<1>4. CASE GatewayRequest
  <2> DEFINE s == Head(gRequests)
  <2>1. /\ gLoop = "running" /\ gRequests # <<>> /\ gRequests' = Tail(gRequests)
        /\ UNCHANGED <<c2g, gGoals>>
        /\ PushInbound(s, "ServiceServer", "SERVICE_REQUEST")
    BY <1>4 DEF GatewayRequest
  <2>2. s \in RequestItem
    BY <1>2, <2>1, Taken
  <2>3. s.ch \in ChannelIds /\ s.opid \in OpIds
    BY <1>2, <2>2
  <2>4. Listed(opChannel, gRequests') /\ opChannel[s.opid] = s.ch
    BY <1>2, <2>1, ListedTaken
  <2> HIDE DEF s
  <2> QED  BY <1>1, <1>2, <2>1, <2>3, <2>4, AnswerInbound
<1>5. CASE GatewayGoal
  <2> DEFINE s == Head(gGoals)
  <2>1. /\ gLoop = "running" /\ gGoals # <<>> /\ gGoals' = Tail(gGoals)
        /\ UNCHANGED <<c2g, gRequests>>
        /\ PushInbound(s, "ActionServer", s.opcode)
    BY <1>5 DEF GatewayGoal
  <2>2. s \in GoalItem
    BY <1>2, <2>1, Taken
  <2>3. s.ch \in ChannelIds /\ s.opid \in OpIds /\ s.opcode \in {"ACTION_GOAL", "ACTION_CANCEL"}
    BY <2>2 DEF GoalItem
  <2>4. Listed(opChannel, gGoals') /\ opChannel[s.opid] = s.ch
    BY <1>2, <2>1, ListedTaken
  <2> HIDE DEF s
  <2> QED  BY <1>1, <1>2, <2>1, <2>3, <2>4, AnswerInbound
<1> QED  BY <1>3, <1>4, <1>5 DEF GatewayForward

\* The backend queues a request or a goal under an operation that has no
\* channel yet, or a cancel under one of its own.
LEMMA GraphAssigns ==
    ASSUME Graph
    PROVE  /\ UNCHANGED <<c2g, g2c, cDelivered>>
           /\ \/ UNCHANGED <<opChannel, gRequests, gGoals>>
              \/ \E e \in bLive, op \in OpIds :
                    /\ \/ opChannel[op] = 0 /\ opChannel' = [opChannel EXCEPT ![op] = e.ch]
                       \/ opChannel[op] = e.ch /\ opChannel' = opChannel
                    /\ \/ /\ gRequests' = TrySend(gRequests, [ch |-> e.ch, opid |-> op])
                          /\ gGoals' = gGoals
                       \/ /\ gRequests' = gRequests
                          /\ \E opcode \in {"ACTION_GOAL", "ACTION_CANCEL"} :
                                gGoals' = TrySend(gGoals, [ch |-> e.ch, opcode |-> opcode,
                                                           opid |-> op])
  BY DEF Graph, BackendSample, BackendRequest, BackendGoal, linkVars, clientVars

\* A request or a goal from the graph.
LEMMA AnswerGraph ==
    ASSUME WireInv, ItemTypes, AnswerInv, Graph
    PROVE  AnswerInv'
<1>1. OwnerInv /\ opChannel \in Owner /\ UNCHANGED <<c2g, g2c, cDelivered>>
  BY GraphAssigns DEF AnswerInv, OwnerInv
<1>2. CASE UNCHANGED <<opChannel, gRequests, gGoals>>
  BY <1>1, <1>2 DEF AnswerInv, OwnerInv, OnceOf
<1>3. ASSUME NEW e \in bLive, NEW op \in OpIds,
             \/ opChannel[op] = 0 /\ opChannel' = [opChannel EXCEPT ![op] = e.ch]
             \/ opChannel[op] = e.ch /\ opChannel' = opChannel,
             \/ /\ gRequests' = TrySend(gRequests, [ch |-> e.ch, opid |-> op])
                /\ gGoals' = gGoals
             \/ /\ gRequests' = gRequests
                /\ \E opcode \in {"ACTION_GOAL", "ACTION_CANCEL"} :
                      gGoals' = TrySend(gGoals, [ch |-> e.ch, opcode |-> opcode, opid |-> op])
      PROVE  AnswerInv'
  <2>1. e.ch \in ChannelIds
    BY DEF WireInv, GatewayInv, BackendTypes
  <2>2. /\ Grows(opChannel, opChannel') /\ opChannel' \in Owner /\ opChannel'[op] = e.ch
        /\ \A o \in OpIds : o # op => opChannel'[o] = opChannel[o]
    BY <1>1, <1>3, <2>1 DEF Owner, Grows
  <2>3. /\ OwnedIn(opChannel', c2g) /\ OwnedIn(opChannel', g2c)
        /\ Listed(opChannel', gRequests) /\ Listed(opChannel', gGoals)
        /\ \A c \in ChannelIds : Heard(opChannel', c, cDelivered[c])
    BY <1>1, <2>2, OwnerGrown
  <2>4. Listed(opChannel', gRequests')
    <3> DEFINE s == [ch |-> e.ch, opid |-> op]
    <3>1. s \in RequestItem /\ s.ch = e.ch /\ s.opid = op
      BY <2>1 DEF RequestItem
    <3>2. gRequests' = gRequests \/ gRequests' = Append(gRequests, s)
      BY <1>3 DEF TrySend
    <3> HIDE DEF s
    <3>3. Listed(opChannel', Append(gRequests, s))
      BY <2>2, <2>3, <3>1, SinkTypes, ListedQueued
    <3> QED  BY <2>3, <3>2, <3>3
  <2>5. Listed(opChannel', gGoals')
    <3>1. ASSUME NEW opcode \in {"ACTION_GOAL", "ACTION_CANCEL"},
                 gGoals' = TrySend(gGoals, [ch |-> e.ch, opcode |-> opcode, opid |-> op])
          PROVE  Listed(opChannel', gGoals')
      <4> DEFINE s == [ch |-> e.ch, opcode |-> opcode, opid |-> op]
      <4>1. s \in GoalItem /\ s.ch = e.ch /\ s.opid = op
        BY <2>1 DEF GoalItem
      <4>2. gGoals' = gGoals \/ gGoals' = Append(gGoals, s)
        BY <3>1 DEF TrySend
      <4> HIDE DEF s
      <4>3. Listed(opChannel', Append(gGoals, s))
        BY <2>2, <2>3, <4>1, SinkTypes, ListedQueued
      <4> QED  BY <2>3, <4>2, <4>3
    <3> QED  BY <1>3, <2>3, <3>1
  <2>6. OwnerInv'
    BY <1>1, <2>2, <2>3, <2>4, <2>5 DEF OwnerInv
  <2>7. ASSUME NEW o \in OpIds, opChannel'[o] = opChannel[o] PROVE OnceOf(o)'
    BY <1>1, <2>7 DEF AnswerInv, OnceOf
  <2>8. ASSUME opChannel[op] = 0 PROVE OnceOf(op)'
    <3>1. /\ Tally(c2g, Asking(op)) = 0 /\ Tally(g2c, Concluding(op)) = 0
          /\ Tally(cDelivered[e.ch], Concluded(op)) = 0
      BY <1>1, <2>1, <2>8, FreshOperation
    <3> QED  BY <1>1, <2>2, <3>1 DEF OnceOf
  <2>9. opChannel'[op] = opChannel[op] \/ opChannel[op] = 0
    BY <1>3, <2>2
  <2> QED  BY <2>2, <2>6, <2>7, <2>8, <2>9 DEF AnswerInv
<1> QED  BY <1>2, <1>3, GraphAssigns

\* The transport breaks.
LEMMA AnswerLost ==
    ASSUME WireInv, ItemTypes, AnswerInv, c2g' = <<>>, g2c' = <<>>,
           UNCHANGED <<opChannel, cDelivered, gRequests, gGoals>>
    PROVE  AnswerInv'
<1>1. DOMAIN c2g' = {} /\ DOMAIN g2c' = {}
  OBVIOUS
<1>2. OwnedIn(opChannel, c2g') /\ OwnedIn(opChannel, g2c')
  BY <1>1, Zenon DEF OwnedIn
<1>3. OwnerInv'
  BY <1>2 DEF AnswerInv, OwnerInv
<1>4. ASSUME NEW op \in OpIds, opChannel[op] # 0 PROVE OnceOf(op)'
  <2> DEFINE c == opChannel[op]
  <2>1. c \in ChannelIds /\ OnceOf(op)
    BY <1>4 DEF AnswerInv, OwnerInv, Owner
  <2>2. /\ Tally(c2g, Asking(op)) \in Nat /\ Tally(g2c, Concluding(op)) \in Nat
        /\ Tally(cDelivered[c], Concluded(op)) \in Nat
        /\ Tally(c2g, Asking(op)) + Tally(g2c, Concluding(op))
             + Tally(cDelivered[c], Concluded(op)) <= 1
    BY <1>4, <2>1, TallyTypes DEF OnceOf
  <2>3. Tally(c2g', Asking(op)) = 0 /\ Tally(g2c', Concluding(op)) = 0
    BY TallyNone
  <2>4. Tally(c2g', Asking(op)) + Tally(g2c', Concluding(op))
          + Tally(cDelivered[c], Concluded(op)) <= 1
    BY <2>2, <2>3
  <2> QED  BY <2>4 DEF OnceOf
<1>5. ASSUME NEW op \in OpIds, opChannel[op] = 0 PROVE OnceOf(op)'
  BY <1>5 DEF OnceOf
<1> QED  BY <1>3, <1>4, <1>5 DEF AnswerInv

\* No operation has been called in the initial state.
LEMMA AnswerInitially == Init => AnswerInv
<1> SUFFICES ASSUME Init PROVE AnswerInv
  OBVIOUS
<1>1. /\ c2g = <<>> /\ g2c = <<>> /\ gRequests = <<>> /\ gGoals = <<>>
      /\ opChannel = [o \in OpIds |-> 0] /\ \A c \in ChannelIds : cDelivered[c] = <<>>
  BY DEF Init, LinkInit, ClientInit, GatewayInit
<1>2. /\ DOMAIN c2g = {} /\ DOMAIN g2c = {} /\ DOMAIN gRequests = {} /\ DOMAIN gGoals = {}
      /\ \A c \in ChannelIds : DOMAIN cDelivered[c] = {}
  BY <1>1
<1>3. opChannel \in Owner /\ \A op \in OpIds : opChannel[op] = 0
  BY <1>1 DEF Owner
<1>4. /\ OwnedIn(opChannel, c2g) /\ OwnedIn(opChannel, g2c)
      /\ Listed(opChannel, gRequests) /\ Listed(opChannel, gGoals)
      /\ \A c \in ChannelIds : Heard(opChannel, c, cDelivered[c])
  BY <1>2, Zenon DEF OwnedIn, Listed, Heard
<1> QED  BY <1>3, <1>4 DEF AnswerInv, OwnerInv, OnceOf

\* Every step keeps the answers.
LEMMA AnswerStep ==
    ASSUME Disciplined, WireInv, FitInv, ItemTypes, AnswerInv, [Next]_vars
    PROVE  AnswerInv'
<1>1. CASE App
  BY <1>1, AppSpeaks, AnswerSpeaks DEF AnswerInv
<1>2. CASE EngineReceive
  BY <1>2, AnswerReceive
<1>3. CASE GatewayReceive
  BY <1>3, AnswerTaking
<1>4. CASE GatewayForward
  BY <1>4, AnswerForward
<1>5. CASE GatewayLeave \/ UNCHANGED vars
  <2>1. UNCHANGED <<c2g, g2c, cDelivered, opChannel, gRequests, gGoals>>
    BY <1>5 DEF GatewayLeave, GatewayTransportGone, GatewayTeardown, linkVars, historyVars,
       clientVars, gatewayVars, sinkVars, vars
  <2> QED  BY <2>1 DEF AnswerInv, OwnerInv, OnceOf
<1>6. CASE Graph
  BY <1>6, AnswerGraph
<1>7. CASE Lose
  BY <1>7, AnswerLost DEF Lose, TransportLost, historyVars, clientVars, gatewayVars
<1> QED  BY <1>1, <1>2, <1>3, <1>4, <1>5, <1>6, <1>7 DEF Next

\* What the application was given answers each operation once.
LEMMA AnsweredOnce ==
    ASSUME WireInv, ItemTypes, AnswerInv
    PROVE  OperationAnswers
<1> SUFFICES ASSUME NEW c \in ChannelIds, NEW i \in DOMAIN cDelivered[c],
                    NEW j \in DOMAIN cDelivered[c]
             PROVE  LET a == cDelivered[c][i]
                        b == cDelivered[c][j]
                        terminal == {"SERVICE_RESPONSE", "ACTION_RESULT"}
                    IN  /\ a.opid # "none" => opChannel[a.opid] = c
                        /\ /\ a.opid = b.opid
                           /\ {a.opcode, b.opcode} \subseteq terminal
                           => i = j
  BY DEF OperationAnswers
<1> DEFINE a == cDelivered[c][i]
           b == cDelivered[c][j]
<1>1. cDelivered[c] \in Seq(Item) /\ Heard(opChannel, c, cDelivered[c])
  BY DEF ItemTypes, AnswerInv, OwnerInv
<1>2. a \in Item /\ b \in Item
  BY <1>1, LenProperties, ElementOfSeq
<1>3. a.opid # "none" => opChannel[a.opid] = c
  BY <1>1 DEF Heard
<1>4. ASSUME a.opid = b.opid,
             {a.opcode, b.opcode} \subseteq {"SERVICE_RESPONSE", "ACTION_RESULT"}
      PROVE  i = j
  <2> DEFINE op == a.opid
  <2>1. a \in Concluded(op) /\ b \in Concluded(op)
    BY <1>2, <1>4 DEF Concluded
  <2>2. op \in OpIds
    BY <1>2, <1>4 DEF Item
  <2>3. opChannel[op] = c /\ opChannel[op] # 0
    BY <1>3, <2>2, OperationIds
  <2>4. /\ Tally(c2g, Asking(op)) \in Nat /\ Tally(g2c, Concluding(op)) \in Nat
        /\ Tally(cDelivered[c], Concluded(op)) \in Nat
        /\ Tally(c2g, Asking(op)) + Tally(g2c, Concluding(op))
             + Tally(cDelivered[c], Concluded(op)) <= 1
    BY <2>2, <2>3, TallyTypes DEF AnswerInv, OnceOf
  <2>5. Tally(cDelivered[c], Concluded(op)) <= 1
    BY <2>4
  <2> QED  BY <1>1, <2>1, <2>5, TallyTwo
<1> QED  BY <1>3, <1>4

(***************************************************************************)
(* Whatever is dropped or lost: when the application uses its session as   *)
(* it should, a call or a goal is answered at most once, and on the        *)
(* channel that made it.                                                   *)
(***************************************************************************)
THEOREM AnswersOnce == ASSUME Disciplined PROVE Spec => []OperationAnswers
<1>1. WireInv /\ FitInv /\ ItemTypes /\ AnswerInv /\ [Next]_vars => AnswerInv'
  BY AnswerStep
<1>2. FullInv /\ StreamInv => WireInv /\ FitInv /\ ItemTypes
  BY DEF FullInv, StreamInv
<1>3. WireInv /\ ItemTypes /\ AnswerInv => OperationAnswers
  BY AnsweredOnce
<1> QED  BY <1>1, <1>2, <1>3, AnswerInitially, StreamInvariant, PTL DEF Spec
=============================================================================
