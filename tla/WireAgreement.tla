--------------------------- MODULE WireAgreement ---------------------------
(***************************************************************************)
(* Proofs about R2wpWire: the two copies of the session, the tables of the *)
(* engine and the entities of the gateway, for every set of channels and   *)
(* operation ids, every length of the queues and of the streams, an        *)
(* application that may issue any command at any time, a backend that may  *)
(* fail and a transport that may break.                                    *)
(*                                                                         *)
(* The first part holds facts about values: which packets may be on the    *)
(* wire, how the two copies of the session are related while packets are   *)
(* in flight, and how one message more or less in a stream keeps that      *)
(* relation.  The second part is the invariant WireInv and the theorems    *)
(* that follow from it; WireProofs builds on both.                         *)
(***************************************************************************)
EXTENDS R2wpWire, SequenceTheorems, TLAPS

-----------------------------------------------------------------------------
(* What may be on the wire. *)

\* An entry of the channel table: a kind is known from the open on.
Entry ==
    {UnusedEntry} \cup [state : ChannelState \ {"Unused"}, kind : OperationKind]

\* A session, with any number for a generation.
Shape == [phase : Phase, chan : [ChannelIds -> Entry], generation : Int]

ClientControl ==
    {[type |-> "Authenticate"], Heartbeat}
      \cup [type : {"OpenChannel"}, ch : ChannelIds, kind : OperationKind]
      \cup [type : {"CloseChannel"}, ch : ChannelIds]

ServerControl ==
    {[type |-> "SessionReady"], Heartbeat, SessionError}
      \cup [type : {"GraphSnapshot"}, gen : Int]
      \cup [type : {"GraphDelta"}, base : Int, gen : Int]
      \cup [type : {"ChannelReady"}, ch : ChannelIds, result : {"Allow", "Error"},
            reliable : BOOLEAN]
      \cup [type : {"Error"}, ch : ChannelIds, scope : {"channel"}]

Frame ==
    [opcode : {"ROS_SAMPLE"}, ch : ChannelIds, opid : {"none"},
     reliable : BOOLEAN, from : Nat]
      \cup [opcode : ServiceActionOpcode, ch : ChannelIds, opid : OpIds,
            reliable : BOOLEAN, from : {0}]

ClientPacket ==
    [plane : {"bootstrap"}, msg : [type : {"ClientHello"}], seq : {0}]
      \cup [plane : {"control"}, msg : ClientControl, seq : Nat]
      \cup [plane : {"data"}, msg : Frame, seq : Nat]

ServerPacket ==
    [plane : {"bootstrap"}, msg : [type : {"ServerHello", "BootstrapError"}],
     seq : {0}]
      \cup [plane : {"control"}, msg : ServerControl, seq : Nat]
      \cup [plane : {"data"}, msg : Frame, seq : Nat]

-----------------------------------------------------------------------------
(* The relation between the engine's session and the gateway's, with what  *)
(* is in flight from the client (out) and from the gateway (in).           *)

\* p is a control message of this type about channel c.
About(p, type, c) ==
    p.plane = "control" /\ p.msg.type = type /\ p.msg.ch = c

ResultState(result) == IF IsSuccess(result) THEN "Active" ELSE "Failed"

ViewPairs ==
    {<<"Unused", "Unused">>, <<"Pending", "Unused">>,
     <<"Pending", "Active">>, <<"Pending", "Failed">>,
     <<"Active", "Active">>, <<"Failed", "Failed">>,
     <<"Closed", "Active">>, <<"Closed", "Closed">>}

\* The packets of channel c in flight are consistent with its two entries,
\* a at the engine and b at the gateway.
ExplainedOut(c, a, b, out) ==
    \A i \in DOMAIN out :
        /\ About(out[i], "OpenChannel", c) =>
              /\ a.state # "Unused"
              /\ b.state = "Unused" => out[i].msg.kind = a.kind
        /\ About(out[i], "CloseChannel", c) => a.state = "Closed"

ExplainedIn(c, a, b, in) ==
    \A i \in DOMAIN in :
        /\ About(in[i], "ChannelReady", c) =>
              /\ a.state # "Unused"
              /\ a.state = "Pending" => b.state = ResultState(in[i].msg.result)
        /\ About(in[i], "Error", c) =>
              /\ b.state \in {"Active", "Closed"}
              /\ a.state = "Pending" =>
                    \E j \in DOMAIN in : j < i /\ About(in[j], "ChannelReady", c)

\* The message that will end the difference between them is in flight.
UnderwayOut(c, a, b, out) ==
    /\ a.state = "Pending" /\ b.state = "Unused" =>
          \E i \in DOMAIN out : About(out[i], "OpenChannel", c)
    /\ a.state = "Closed" /\ b.state = "Active" =>
          \E i \in DOMAIN out : About(out[i], "CloseChannel", c)

UnderwayIn(c, a, b, in) ==
    a.state = "Pending" /\ b.state # "Unused" =>
        \E i \in DOMAIN in : About(in[i], "ChannelReady", c)

View(c, a, b, out, in) ==
    /\ <<a.state, b.state>> \in ViewPairs
    /\ b.state # "Unused" => a.kind = b.kind
    /\ ExplainedOut(c, a, b, out)
    /\ ExplainedIn(c, a, b, in)
    /\ UnderwayOut(c, a, b, out)
    /\ UnderwayIn(c, a, b, in)

IsBootstrap(p, type) == p.plane = "bootstrap" /\ p.msg.type = type
IsControl(p, type) == p.plane = "control" /\ p.msg.type = type

\* The phases of the two, one message apart.
PhasePairs ==
    {<<"AwaitClientHello", "AwaitClientHello">>,
     <<"AwaitServerHello", "AwaitClientHello">>,
     <<"AwaitServerHello", "SelectedAwaitAuthenticate">>,
     <<"SelectedAwaitAuthenticate", "SelectedAwaitAuthenticate">>,
     <<"SelectedAwaitSessionReady", "SelectedAwaitAuthenticate">>,
     <<"SelectedAwaitSessionReady", "Ready">>,
     <<"Ready", "Ready">>}

PhasesOut(a, b, out) ==
    /\ \A i \in DOMAIN out :
          /\ IsBootstrap(out[i], "ClientHello") => a # "AwaitClientHello"
          /\ IsControl(out[i], "Authenticate") =>
                a \in {"SelectedAwaitSessionReady", "Ready"}
    /\ a = "AwaitServerHello" /\ b = "AwaitClientHello" =>
          \E i \in DOMAIN out : IsBootstrap(out[i], "ClientHello")
    /\ a = "SelectedAwaitSessionReady" /\ b = "SelectedAwaitAuthenticate" =>
          \E i \in DOMAIN out : IsControl(out[i], "Authenticate")

PhasesIn(a, b, in) ==
    /\ \A i \in DOMAIN in :
          /\ IsBootstrap(in[i], "ServerHello") => b # "AwaitClientHello"
          /\ IsControl(in[i], "SessionReady") => b = "Ready"
    /\ a = "AwaitServerHello" /\ b # "AwaitClientHello" =>
          \E i \in DOMAIN in : IsBootstrap(in[i], "ServerHello")
    /\ a = "SelectedAwaitSessionReady" /\ b = "Ready" =>
          \E i \in DOMAIN in : IsControl(in[i], "SessionReady")

Phases(a, b, out, in) ==
    <<a, b>> \in PhasePairs /\ PhasesOut(a, b, out) /\ PhasesIn(a, b, in)

\* The last graph message in flight has the gateway's generation.
IsGraph(p) == p.plane = "control" /\ p.msg.type \in {"GraphSnapshot", "GraphDelta"}

Generations(a, b, in) ==
    /\ (\A i \in DOMAIN in : ~IsGraph(in[i])) => a = b
    /\ \A i \in DOMAIN in :
          IsGraph(in[i]) /\ (\A j \in DOMAIN in : i < j => ~IsGraph(in[j]))
          => in[i].msg.gen = b

Joint(s, t, out, in) ==
    /\ \A c \in ChannelIds : View(c, s.chan[c], t.chan[c], out, in)
    /\ Phases(s.phase, t.phase, out, in)
    /\ Generations(s.generation, t.generation, in)

\* The control packets of a stream are numbered from lo to hi, without gap: n
\* counts along the stream.
Numbering(link, lo, hi, n) ==
    /\ n[0] = lo /\ n[Len(link)] = hi
    /\ \A i \in 1 .. Len(link) :
          IF link[i].plane = "control"
          THEN link[i].seq = n[i - 1] /\ n[i] = n[i - 1] + 1
          ELSE n[i] = n[i - 1]

Numbered(link, lo, hi) ==
    \E n \in [0 .. Len(link) -> 0 .. hi] : Numbering(link, lo, hi, n)

-----------------------------------------------------------------------------
(* Streams: one more packet at the end, one less at the head. *)

\* A stream with one element more.
LEMMA Queued ==
    ASSUME NEW S, NEW q \in Seq(S), NEW x \in S
    PROVE  /\ Append(q, x) \in Seq(S)
           /\ Len(q) \in Nat /\ Len(Append(q, x)) = Len(q) + 1
           /\ DOMAIN q = 1 .. Len(q) /\ DOMAIN Append(q, x) = 1 .. Len(q) + 1
           /\ \A i \in 1 .. Len(q) : Append(q, x)[i] = q[i]
           /\ Append(q, x)[Len(q) + 1] = x
  BY AppendProperties, LenProperties

\* A stream without its head.
LEMMA Taken ==
    ASSUME NEW S, NEW q \in Seq(S), q # <<>>
    PROVE  /\ Tail(q) \in Seq(S) /\ Head(q) = q[1] /\ Head(q) \in S
           /\ Len(q) \in Nat \ {0} /\ Len(Tail(q)) = Len(q) - 1
           /\ DOMAIN q = 1 .. Len(q) /\ DOMAIN Tail(q) = 1 .. Len(q) - 1
           /\ \A i \in 1 .. Len(q) - 1 : Tail(q)[i] = q[i + 1]
<1>1. Len(q) \in Nat /\ Len(q) # 0 /\ DOMAIN q = 1 .. Len(q)
  BY LenProperties, EmptySeq
<1>2. Tail(q) \in Seq(S) /\ Len(Tail(q)) = Len(q) - 1 /\ Head(q) \in S
  BY HeadTailProperties
<1>3. DOMAIN Tail(q) = 1 .. Len(q) - 1
  BY <1>1, <1>2, LenProperties
<1>4. \A i \in 1 .. Len(Tail(q)) : Tail(q)[i] = q[i + 1]
  BY HeadTailProperties
<1>5. Head(q) = q[1]
  BY <1>1
<1> QED  BY <1>1, <1>2, <1>3, <1>4, <1>5

\* What is sent is appended.
LEMMA SentOne ==
    ASSUME NEW S, NEW q \in Seq(S), NEW x \in S
    PROVE  q \o <<x>> = Append(q, x)
  OBVIOUS

\* Nothing in flight: what was sent is what is expected next.
LEMMA NumberedSame ==
    ASSUME NEW lo, NEW hi, Numbered(<<>>, lo, hi)
    PROVE  lo = hi
  BY DEF Numbered, Numbering

\* No numbers are missing in an empty stream.
LEMMA NumberedNone ==
    ASSUME NEW n \in Nat
    PROVE  Numbered(<<>>, n, n)
<1> DEFINE f == [i \in 0 .. 0 |-> n]
<1>1. f \in [0 .. Len(<<>>) -> 0 .. n] /\ f[0] = n
  OBVIOUS
<1> HIDE DEF f
<1> QED  BY <1>1 DEF Numbered, Numbering

\* A control frame queued with the next number.
LEMMA NumberedQueueControl ==
    ASSUME NEW S, NEW q \in Seq(S), NEW x \in S, NEW lo \in Nat, NEW hi \in Nat,
           Numbered(q, lo, hi), x.plane = "control", x.seq = hi
    PROVE  Numbered(Append(q, x), lo, hi + 1)
<1> DEFINE r == Append(q, x)
<1>1. /\ Len(q) \in Nat /\ Len(r) = Len(q) + 1
      /\ \A i \in 1 .. Len(q) : r[i] = q[i]
      /\ r[Len(q) + 1] = x
  BY Queued
<1> HIDE DEF r
<1>2. PICK n \in [0 .. Len(q) -> 0 .. hi] : Numbering(q, lo, hi, n)
  BY DEF Numbered
<1> DEFINE m == [i \in 0 .. Len(r) |-> IF i = Len(r) THEN hi + 1 ELSE n[i]]
<1>3. /\ m \in [0 .. Len(r) -> 0 .. hi + 1]
      /\ \A i \in 0 .. Len(q) : m[i] = n[i]
      /\ m[Len(q) + 1] = hi + 1
  BY <1>1
<1> HIDE DEF m
<1>4. Numbering(r, lo, hi + 1, m)
  <2>1. m[0] = lo /\ m[Len(r)] = hi + 1
    BY <1>1, <1>2, <1>3 DEF Numbering
  <2>2. ASSUME NEW i \in 1 .. Len(q)
        PROVE  IF r[i].plane = "control"
               THEN r[i].seq = m[i - 1] /\ m[i] = m[i - 1] + 1
               ELSE m[i] = m[i - 1]
    <3>1. m[i] = n[i] /\ m[i - 1] = n[i - 1] /\ r[i] = q[i]
      BY <1>1, <1>3
    <3> QED  BY <1>2, <3>1 DEF Numbering
  <2>3. m[Len(q)] = hi /\ m[Len(q) + 1] = hi + 1 /\ r[Len(q) + 1] = x
    BY <1>1, <1>2, <1>3 DEF Numbering
  <2>4. ASSUME NEW i \in 1 .. Len(r)
        PROVE  IF r[i].plane = "control"
               THEN r[i].seq = m[i - 1] /\ m[i] = m[i - 1] + 1
               ELSE m[i] = m[i - 1]
    <3>1. CASE i = Len(q) + 1
      <4>1. i - 1 = Len(q)
        BY <1>1, <3>1
      <4> QED  BY <2>3, <3>1, <4>1
    <3>2. CASE i # Len(q) + 1
      <4>1. i \in 1 .. Len(q)
        BY <1>1, <3>2
      <4> QED  BY <2>2, <4>1
    <3> QED  BY <3>1, <3>2
  <2> QED  BY <2>1, <2>4 DEF Numbering
<1> QED  BY <1>3, <1>4 DEF Numbered, r

\* Other frames carry no number of the control sequence.
LEMMA NumberedQueueOther ==
    ASSUME NEW S, NEW q \in Seq(S), NEW x \in S, NEW lo \in Nat, NEW hi \in Nat,
           Numbered(q, lo, hi), x.plane # "control"
    PROVE  Numbered(Append(q, x), lo, hi)
<1> DEFINE r == Append(q, x)
<1>1. /\ Len(q) \in Nat /\ Len(r) = Len(q) + 1
      /\ \A i \in 1 .. Len(q) : r[i] = q[i]
      /\ r[Len(q) + 1] = x
  BY Queued
<1> HIDE DEF r
<1>2. PICK n \in [0 .. Len(q) -> 0 .. hi] : Numbering(q, lo, hi, n)
  BY DEF Numbered
<1> DEFINE m == [i \in 0 .. Len(r) |-> IF i = Len(r) THEN hi ELSE n[i]]
<1>3. /\ m \in [0 .. Len(r) -> 0 .. hi]
      /\ \A i \in 0 .. Len(q) : m[i] = n[i]
      /\ m[Len(q) + 1] = hi
  BY <1>1
<1> HIDE DEF m
<1>4. Numbering(r, lo, hi, m)
  <2>1. m[0] = lo /\ m[Len(r)] = hi
    BY <1>1, <1>2, <1>3 DEF Numbering
  <2>2. ASSUME NEW i \in 1 .. Len(q)
        PROVE  IF r[i].plane = "control"
               THEN r[i].seq = m[i - 1] /\ m[i] = m[i - 1] + 1
               ELSE m[i] = m[i - 1]
    <3>1. m[i] = n[i] /\ m[i - 1] = n[i - 1] /\ r[i] = q[i]
      BY <1>1, <1>3
    <3> QED  BY <1>2, <3>1 DEF Numbering
  <2>3. m[Len(q)] = hi /\ m[Len(q) + 1] = hi /\ r[Len(q) + 1] = x
    BY <1>1, <1>2, <1>3 DEF Numbering
  <2>4. ASSUME NEW i \in 1 .. Len(r)
        PROVE  IF r[i].plane = "control"
               THEN r[i].seq = m[i - 1] /\ m[i] = m[i - 1] + 1
               ELSE m[i] = m[i - 1]
    <3>1. CASE i = Len(q) + 1
      <4>1. i - 1 = Len(q)
        BY <1>1, <3>1
      <4> QED  BY <2>3, <3>1, <4>1
    <3>2. CASE i # Len(q) + 1
      <4>1. i \in 1 .. Len(q)
        BY <1>1, <3>2
      <4> QED  BY <2>2, <4>1
    <3> QED  BY <3>1, <3>2
  <2> QED  BY <2>1, <2>4 DEF Numbering
<1> QED  BY <1>3, <1>4 DEF Numbered, r

\* The head of a numbered stream carries the number that is expected.
LEMMA NumberedTake ==
    ASSUME NEW S, NEW q \in Seq(S), q # <<>>, NEW lo \in Nat, NEW hi \in Nat,
           Numbered(q, lo, hi)
    PROVE  /\ Head(q).plane = "control" =>
                 Head(q).seq = lo /\ Numbered(Tail(q), lo + 1, hi)
           /\ Head(q).plane # "control" => Numbered(Tail(q), lo, hi)
<1> DEFINE r == Tail(q)
<1>1. /\ Len(q) \in Nat \ {0} /\ Len(r) = Len(q) - 1 /\ Head(q) = q[1]
      /\ \A i \in 1 .. Len(q) - 1 : r[i] = q[i + 1]
  BY Taken
<1> HIDE DEF r
<1>2. PICK n \in [0 .. Len(q) -> 0 .. hi] : Numbering(q, lo, hi, n)
  BY DEF Numbered
<1> DEFINE m == [i \in 0 .. Len(r) |-> n[i + 1]]
<1>3. /\ m \in [0 .. Len(r) -> 0 .. hi]
      /\ \A i \in 0 .. Len(r) : m[i] = n[i + 1]
  BY <1>1
<1> HIDE DEF m
<1>4. /\ n[0] = lo
      /\ IF q[1].plane = "control" THEN q[1].seq = n[0] /\ n[1] = n[0] + 1
                                   ELSE n[1] = n[0]
  <2>1. 1 \in 1 .. Len(q) /\ 1 - 1 = 0
    BY <1>1
  <2> QED  BY <1>2, <2>1 DEF Numbering
<1>5. m[0] = n[1] /\ m[Len(r)] = hi
  BY <1>1, <1>2, <1>3 DEF Numbering
<1>6. ASSUME NEW i \in 1 .. Len(r)
      PROVE  IF r[i].plane = "control"
             THEN r[i].seq = m[i - 1] /\ m[i] = m[i - 1] + 1
             ELSE m[i] = m[i - 1]
  <2>1. /\ m[i] = n[i + 1] /\ m[i - 1] = n[i] /\ r[i] = q[i + 1]
        /\ i + 1 \in 1 .. Len(q) /\ (i + 1) - 1 = i
    BY <1>1, <1>3
  <2> QED  BY <1>2, <2>1 DEF Numbering
<1>7. Numbering(r, n[1], hi, m)
  BY <1>5, <1>6 DEF Numbering
<1>8. Numbered(r, n[1], hi)
  BY <1>3, <1>7 DEF Numbered
<1> QED  BY <1>1, <1>4, <1>8 DEF r

-----------------------------------------------------------------------------
(* A packet that is not about a channel leaves its two views as they were. *)

\* A packet that is not about channel c, in either direction, leaves its
\* view as it was.
LEMMA ViewQueueOut ==
    ASSUME NEW S, NEW out \in Seq(S), NEW x \in S, NEW in,
           NEW c, NEW a, NEW b,
           View(c, a, b, out, in),
           ~About(x, "OpenChannel", c), ~About(x, "CloseChannel", c)
    PROVE  View(c, a, b, Append(out, x), in)
<1> DEFINE r == Append(out, x)
<1>1. /\ Len(out) \in Nat /\ DOMAIN out = 1 .. Len(out)
      /\ DOMAIN r = 1 .. Len(out) + 1
      /\ \A i \in 1 .. Len(out) : r[i] = out[i]
      /\ r[Len(out) + 1] = x
  BY Queued
<1> HIDE DEF r
<1>2. ExplainedOut(c, a, b, r)
  BY <1>1 DEF View, ExplainedOut
<1>3. UnderwayOut(c, a, b, r)
  BY <1>1 DEF View, UnderwayOut
<1> QED  BY <1>2, <1>3 DEF View, r

LEMMA ViewTakeOut ==
    ASSUME NEW S, NEW out \in Seq(S), out # <<>>, NEW in,
           NEW c, NEW a, NEW b,
           View(c, a, b, out, in),
           ~About(Head(out), "OpenChannel", c), ~About(Head(out), "CloseChannel", c)
    PROVE  View(c, a, b, Tail(out), in)
<1> DEFINE r == Tail(out)
<1>1. /\ Len(out) \in Nat \ {0} /\ DOMAIN out = 1 .. Len(out)
      /\ DOMAIN r = 1 .. Len(out) - 1 /\ Head(out) = out[1]
      /\ \A i \in 1 .. Len(out) - 1 : r[i] = out[i + 1]
  BY Taken
<1> HIDE DEF r
<1>2. ExplainedOut(c, a, b, r)
  BY <1>1 DEF View, ExplainedOut
<1>3. \A i \in DOMAIN out : i # 1 => i - 1 \in DOMAIN r /\ r[i - 1] = out[i]
  BY <1>1
<1>4. UnderwayOut(c, a, b, r)
  BY <1>1, <1>3 DEF View, UnderwayOut
<1> QED  BY <1>2, <1>4 DEF View, r

LEMMA ViewQueueIn ==
    ASSUME NEW S, NEW in \in Seq(S), NEW x \in S, NEW out,
           NEW c, NEW a, NEW b,
           View(c, a, b, out, in),
           ~About(x, "ChannelReady", c), ~About(x, "Error", c)
    PROVE  View(c, a, b, out, Append(in, x))
<1> DEFINE r == Append(in, x)
<1>1. /\ Len(in) \in Nat /\ DOMAIN in = 1 .. Len(in)
      /\ DOMAIN r = 1 .. Len(in) + 1
      /\ \A i \in 1 .. Len(in) : r[i] = in[i]
      /\ r[Len(in) + 1] = x
  BY Queued
<1> HIDE DEF r
<1>2. ExplainedIn(c, a, b, r)
  BY <1>1 DEF View, ExplainedIn
<1>3. UnderwayIn(c, a, b, r)
  BY <1>1 DEF View, UnderwayIn
<1> QED  BY <1>2, <1>3 DEF View, r

LEMMA ViewTakeIn ==
    ASSUME NEW S, NEW in \in Seq(S), in # <<>>, NEW out,
           NEW c, NEW a, NEW b,
           View(c, a, b, out, in),
           ~About(Head(in), "ChannelReady", c), ~About(Head(in), "Error", c)
    PROVE  View(c, a, b, out, Tail(in))
<1> DEFINE r == Tail(in)
<1>1. /\ Len(in) \in Nat \ {0} /\ DOMAIN in = 1 .. Len(in)
      /\ DOMAIN r = 1 .. Len(in) - 1 /\ Head(in) = in[1]
      /\ \A i \in 1 .. Len(in) - 1 : r[i] = in[i + 1]
  BY Taken
<1> HIDE DEF r
<1>2. \A i \in DOMAIN in : i # 1 => i - 1 \in DOMAIN r /\ r[i - 1] = in[i]
  BY <1>1
<1>3. ExplainedIn(c, a, b, r)
  <2> SUFFICES ASSUME NEW i \in DOMAIN r
               PROVE  /\ About(r[i], "ChannelReady", c) =>
                            /\ a.state # "Unused"
                            /\ a.state = "Pending" =>
                                  b.state = ResultState(r[i].msg.result)
                      /\ About(r[i], "Error", c) =>
                            /\ b.state \in {"Active", "Closed"}
                            /\ a.state = "Pending" =>
                                  \E j \in DOMAIN r :
                                      j < i /\ About(r[j], "ChannelReady", c)
    BY DEF ExplainedIn
  <2>1. i + 1 \in DOMAIN in /\ r[i] = in[i + 1]
    BY <1>1
  <2>2. ASSUME NEW j \in DOMAIN in, j < i + 1, About(in[j], "ChannelReady", c)
        PROVE  j - 1 \in DOMAIN r /\ j - 1 < i /\ About(r[j - 1], "ChannelReady", c)
    BY <1>1, <1>2, <2>2
  <2> QED  BY <2>1, <2>2 DEF View, ExplainedIn
<1>4. UnderwayIn(c, a, b, r)
  BY <1>1, <1>2 DEF View, UnderwayIn
<1> QED  BY <1>3, <1>4 DEF View, r

-----------------------------------------------------------------------------
(* The life of a channel, as the two views of it. *)

\* The engine opens it.
LEMMA ViewOpened ==
    ASSUME NEW S, NEW out \in Seq(S), NEW x \in S, NEW in,
           NEW c, NEW a, NEW b, NEW a2, NEW kind,
           View(c, a, b, out, in),
           a.state = "Unused", a2.state = "Pending", a2.kind = kind,
           About(x, "OpenChannel", c), x.msg.kind = kind
    PROVE  View(c, a2, b, Append(out, x), in)
<1> DEFINE r == Append(out, x)
<1>1. /\ Len(out) \in Nat /\ DOMAIN out = 1 .. Len(out)
      /\ DOMAIN r = 1 .. Len(out) + 1
      /\ \A i \in 1 .. Len(out) : r[i] = out[i]
      /\ r[Len(out) + 1] = x
  BY Queued
<1> HIDE DEF r
<1>2. b.state = "Unused"
  BY DEF View, ViewPairs
<1>3. \A i \in DOMAIN out : /\ ~About(out[i], "OpenChannel", c)
                           /\ ~About(out[i], "CloseChannel", c)
  BY DEF View, ExplainedOut
<1>4. \A i \in DOMAIN in : /\ ~About(in[i], "ChannelReady", c)
                          /\ ~About(in[i], "Error", c)
  BY <1>2 DEF View, ExplainedIn
<1>5. ~About(x, "CloseChannel", c)
  BY DEF About
<1>6. ExplainedOut(c, a2, b, r)
  BY <1>1, <1>3, <1>5 DEF ExplainedOut
<1>7. ExplainedIn(c, a2, b, in)
  BY <1>4 DEF ExplainedIn
<1>8. UnderwayOut(c, a2, b, r)
  BY <1>1 DEF UnderwayOut
<1>9. UnderwayIn(c, a2, b, in)
  BY <1>2 DEF UnderwayIn
<1> QED  BY <1>2, <1>6, <1>7, <1>8, <1>9 DEF View, ViewPairs, r

\* The engine closes it.
LEMMA ViewClosed ==
    ASSUME NEW S, NEW out \in Seq(S), NEW x \in S, NEW in,
           NEW c, NEW a, NEW b, NEW a2,
           View(c, a, b, out, in),
           a.state = "Active", a2.state = "Closed", a2.kind = a.kind,
           About(x, "CloseChannel", c)
    PROVE  View(c, a2, b, Append(out, x), in)
<1> DEFINE r == Append(out, x)
<1>1. /\ Len(out) \in Nat /\ DOMAIN out = 1 .. Len(out)
      /\ DOMAIN r = 1 .. Len(out) + 1
      /\ \A i \in 1 .. Len(out) : r[i] = out[i]
      /\ r[Len(out) + 1] = x
  BY Queued
<1> HIDE DEF r
<1>2. b.state = "Active" /\ a2.kind = b.kind
  BY DEF View, ViewPairs
<1>3. ExplainedOut(c, a2, b, r)
  BY <1>1, <1>2 DEF View, ExplainedOut, About
<1>4. ExplainedIn(c, a2, b, in)
  BY <1>2 DEF View, ExplainedIn
<1>5. UnderwayOut(c, a2, b, r)
  BY <1>1 DEF UnderwayOut
<1>6. UnderwayIn(c, a2, b, in)
  BY DEF UnderwayIn
<1> QED  BY <1>2, <1>3, <1>4, <1>5, <1>6 DEF View, ViewPairs, r

\* The engine takes the answer to its open.
LEMMA ViewAnswered ==
    ASSUME NEW S, NEW in \in Seq(S), in # <<>>, NEW out,
           NEW c, NEW a, NEW b, NEW a2,
           View(c, a, b, out, in),
           About(Head(in), "ChannelReady", c),
           a.state = "Pending", a2.state = ResultState(Head(in).msg.result),
           a2.kind = a.kind
    PROVE  View(c, a2, b, out, Tail(in))
<1> DEFINE r == Tail(in)
<1>1. /\ Len(in) \in Nat \ {0} /\ DOMAIN in = 1 .. Len(in)
      /\ DOMAIN r = 1 .. Len(in) - 1 /\ Head(in) = in[1]
      /\ \A i \in 1 .. Len(in) - 1 : r[i] = in[i + 1]
  BY Taken
<1> HIDE DEF r
<1>2. b.state = a2.state /\ a2.state \in {"Active", "Failed"}
  <2>1. 1 \in DOMAIN in /\ About(in[1], "ChannelReady", c)
    BY <1>1
  <2>2. b.state = ResultState(in[1].msg.result)
    BY <2>1 DEF View, ExplainedIn
  <2> QED  BY <1>1, <2>2 DEF ResultState
<1>3. a2.kind = b.kind
  BY <1>2 DEF View
<1>4. ExplainedOut(c, a2, b, out)
  <2>1. \A i \in DOMAIN out : ~About(out[i], "CloseChannel", c)
    BY DEF View, ExplainedOut
  <2> QED  BY <1>2, <2>1 DEF ExplainedOut
<1>5. ExplainedIn(c, a2, b, r)
  <2>1. \A i \in DOMAIN r : i + 1 \in DOMAIN in /\ r[i] = in[i + 1]
    BY <1>1
  <2> QED  BY <1>2, <2>1 DEF View, ExplainedIn
<1>6. UnderwayOut(c, a2, b, out) /\ UnderwayIn(c, a2, b, r)
  BY <1>2 DEF UnderwayOut, UnderwayIn
<1> QED  BY <1>2, <1>3, <1>4, <1>5, <1>6 DEF View, ViewPairs, r

\* The gateway takes the open and answers it.
LEMMA ViewServed ==
    ASSUME NEW S, NEW out \in Seq(S), out # <<>>,
           NEW T, NEW in \in Seq(T), NEW x \in T,
           NEW c, NEW a, NEW b, NEW b2,
           View(c, a, b, out, in),
           About(Head(out), "OpenChannel", c), b.state = "Unused",
           About(x, "ChannelReady", c), b2.state = ResultState(x.msg.result),
           b2.kind = Head(out).msg.kind
    PROVE  View(c, a, b2, Tail(out), Append(in, x))
<1> DEFINE q == Tail(out)
           r == Append(in, x)
<1>1. /\ Len(out) \in Nat \ {0} /\ DOMAIN out = 1 .. Len(out)
      /\ DOMAIN q = 1 .. Len(out) - 1 /\ Head(out) = out[1]
      /\ \A i \in 1 .. Len(out) - 1 : q[i] = out[i + 1]
  BY Taken
<1>2. /\ Len(in) \in Nat /\ DOMAIN in = 1 .. Len(in)
      /\ DOMAIN r = 1 .. Len(in) + 1
      /\ \A i \in 1 .. Len(in) : r[i] = in[i]
      /\ r[Len(in) + 1] = x
  BY Queued
<1> HIDE DEF q, r
<1>3. a.state = "Pending" /\ a.kind = b2.kind
  <2>1. 1 \in DOMAIN out /\ About(out[1], "OpenChannel", c)
    BY <1>1
  <2>2. a.state # "Unused" /\ out[1].msg.kind = a.kind
    BY <2>1 DEF View, ExplainedOut
  <2> QED  BY <1>1, <2>2 DEF View, ViewPairs
<1>4. b2.state \in {"Active", "Failed"}
  BY DEF ResultState
<1>5. \A i \in DOMAIN in : ~About(in[i], "ChannelReady", c)
  BY <1>3 DEF View, ExplainedIn, ResultState
<1>6. \A i \in DOMAIN in : ~About(in[i], "Error", c)
  BY DEF View, ExplainedIn
<1>7. ~About(x, "Error", c)
  BY DEF About
<1>8. ExplainedIn(c, a, b2, r)
  BY <1>2, <1>3, <1>5, <1>6, <1>7 DEF ExplainedIn
<1>9. ExplainedOut(c, a, b2, q)
  <2>1. \A i \in DOMAIN q : i + 1 \in DOMAIN out /\ q[i] = out[i + 1]
    BY <1>1
  <2> QED  BY <1>3, <1>4, <2>1 DEF View, ExplainedOut
<1>10. UnderwayOut(c, a, b2, q)
  BY <1>3, <1>4 DEF UnderwayOut
<1>11. UnderwayIn(c, a, b2, r)
  BY <1>2 DEF UnderwayIn
<1> QED  BY <1>3, <1>4, <1>8, <1>9, <1>10, <1>11 DEF View, ViewPairs, q, r

\* The gateway takes the close.
LEMMA ViewReleased ==
    ASSUME NEW S, NEW out \in Seq(S), out # <<>>, NEW in,
           NEW c, NEW a, NEW b, NEW b2,
           View(c, a, b, out, in),
           About(Head(out), "CloseChannel", c),
           b2.state = "Closed", b2.kind = b.kind, b.state = "Active"
    PROVE  View(c, a, b2, Tail(out), in)
<1> DEFINE q == Tail(out)
<1>1. /\ Len(out) \in Nat \ {0} /\ DOMAIN out = 1 .. Len(out)
      /\ DOMAIN q = 1 .. Len(out) - 1 /\ Head(out) = out[1]
      /\ \A i \in 1 .. Len(out) - 1 : q[i] = out[i + 1]
  BY Taken
<1> HIDE DEF q
<1>2. a.state = "Closed"
  BY <1>1 DEF View, ExplainedOut
<1>3. a.kind = b2.kind
  BY DEF View
<1>4. ExplainedOut(c, a, b2, q)
  <2>1. \A i \in DOMAIN q : i + 1 \in DOMAIN out /\ q[i] = out[i + 1]
    BY <1>1
  <2> QED  BY <1>2, <2>1 DEF View, ExplainedOut
<1>5. ExplainedIn(c, a, b2, in)
  BY <1>2 DEF View, ExplainedIn
<1>6. UnderwayOut(c, a, b2, q) /\ UnderwayIn(c, a, b2, in)
  BY <1>2 DEF UnderwayOut, UnderwayIn
<1> QED  BY <1>2, <1>3, <1>4, <1>5, <1>6 DEF View, ViewPairs, q

\* The gateway reports a failed call on an active channel.
LEMMA ViewReported ==
    ASSUME NEW S, NEW in \in Seq(S), NEW x \in S, NEW out,
           NEW c, NEW a, NEW b,
           View(c, a, b, out, in),
           About(x, "Error", c), b.state = "Active"
    PROVE  View(c, a, b, out, Append(in, x))
<1> DEFINE r == Append(in, x)
<1>1. /\ Len(in) \in Nat /\ DOMAIN in = 1 .. Len(in)
      /\ DOMAIN r = 1 .. Len(in) + 1
      /\ \A i \in 1 .. Len(in) : r[i] = in[i]
      /\ r[Len(in) + 1] = x
  BY Queued
<1> HIDE DEF r
<1>2. ~About(x, "ChannelReady", c)
  BY DEF About
<1>3. a.state = "Pending" => \E i \in DOMAIN in : About(in[i], "ChannelReady", c)
  BY DEF View, UnderwayIn
<1>4. ExplainedIn(c, a, b, r)
  BY <1>1, <1>2, <1>3 DEF View, ExplainedIn
<1>5. UnderwayIn(c, a, b, r)
  BY <1>1 DEF View, UnderwayIn
<1> QED  BY <1>4, <1>5 DEF View, r

-----------------------------------------------------------------------------
(* The phases: packets that do not move them, and the five that do. *)

\* A packet that moves no phase leaves the phases as they were.
LEMMA PhasesQueueOut ==
    ASSUME NEW S, NEW out \in Seq(S), NEW x \in S, NEW in, NEW a, NEW b,
           Phases(a, b, out, in),
           ~IsBootstrap(x, "ClientHello"), ~IsControl(x, "Authenticate")
    PROVE  Phases(a, b, Append(out, x), in)
<1> DEFINE r == Append(out, x)
<1>1. /\ Len(out) \in Nat /\ DOMAIN out = 1 .. Len(out)
      /\ DOMAIN r = 1 .. Len(out) + 1
      /\ \A i \in 1 .. Len(out) : r[i] = out[i]
      /\ r[Len(out) + 1] = x
  BY Queued
<1> HIDE DEF r
<1> QED  BY <1>1 DEF Phases, PhasesOut, r

LEMMA PhasesTakeOut ==
    ASSUME NEW S, NEW out \in Seq(S), out # <<>>, NEW in, NEW a, NEW b,
           Phases(a, b, out, in),
           ~IsBootstrap(Head(out), "ClientHello"),
           ~IsControl(Head(out), "Authenticate")
    PROVE  Phases(a, b, Tail(out), in)
<1> DEFINE r == Tail(out)
<1>1. /\ Len(out) \in Nat \ {0} /\ DOMAIN out = 1 .. Len(out)
      /\ DOMAIN r = 1 .. Len(out) - 1 /\ Head(out) = out[1]
      /\ \A i \in 1 .. Len(out) - 1 : r[i] = out[i + 1]
  BY Taken
<1> HIDE DEF r
<1>2. \A i \in DOMAIN out : i # 1 => i - 1 \in DOMAIN r /\ r[i - 1] = out[i]
  BY <1>1
<1>3. \A i \in DOMAIN r : i + 1 \in DOMAIN out /\ r[i] = out[i + 1]
  BY <1>1
<1> QED  BY <1>1, <1>2, <1>3 DEF Phases, PhasesOut, r

LEMMA PhasesQueueIn ==
    ASSUME NEW S, NEW in \in Seq(S), NEW x \in S, NEW out, NEW a, NEW b,
           Phases(a, b, out, in),
           ~IsBootstrap(x, "ServerHello"), ~IsControl(x, "SessionReady")
    PROVE  Phases(a, b, out, Append(in, x))
<1> DEFINE r == Append(in, x)
<1>1. /\ Len(in) \in Nat /\ DOMAIN in = 1 .. Len(in)
      /\ DOMAIN r = 1 .. Len(in) + 1
      /\ \A i \in 1 .. Len(in) : r[i] = in[i]
      /\ r[Len(in) + 1] = x
  BY Queued
<1> HIDE DEF r
<1> QED  BY <1>1 DEF Phases, PhasesIn, r

LEMMA PhasesTakeIn ==
    ASSUME NEW S, NEW in \in Seq(S), in # <<>>, NEW out, NEW a, NEW b,
           Phases(a, b, out, in),
           ~IsBootstrap(Head(in), "ServerHello"), ~IsControl(Head(in), "SessionReady")
    PROVE  Phases(a, b, out, Tail(in))
<1> DEFINE r == Tail(in)
<1>1. /\ Len(in) \in Nat \ {0} /\ DOMAIN in = 1 .. Len(in)
      /\ DOMAIN r = 1 .. Len(in) - 1 /\ Head(in) = in[1]
      /\ \A i \in 1 .. Len(in) - 1 : r[i] = in[i + 1]
  BY Taken
<1> HIDE DEF r
<1>2. \A i \in DOMAIN in : i # 1 => i - 1 \in DOMAIN r /\ r[i - 1] = in[i]
  BY <1>1
<1>3. \A i \in DOMAIN r : i + 1 \in DOMAIN in /\ r[i] = in[i + 1]
  BY <1>1
<1> QED  BY <1>1, <1>2, <1>3 DEF Phases, PhasesIn, r

\* The engine starts.
LEMMA PhasesHello ==
    ASSUME NEW S, NEW out \in Seq(S), NEW x \in S, NEW in, NEW b,
           Phases("AwaitClientHello", b, out, in),
           IsBootstrap(x, "ClientHello")
    PROVE  Phases("AwaitServerHello", b, Append(out, x), in)
<1> DEFINE r == Append(out, x)
<1>1. /\ Len(out) \in Nat /\ DOMAIN out = 1 .. Len(out)
      /\ DOMAIN r = 1 .. Len(out) + 1
      /\ \A i \in 1 .. Len(out) : r[i] = out[i]
      /\ r[Len(out) + 1] = x
  BY Queued
<1> HIDE DEF r
<1>2. b = "AwaitClientHello"
  BY DEF Phases, PhasePairs
<1>3. ~IsControl(x, "Authenticate")
  BY DEF IsBootstrap, IsControl
<1>4. \A i \in DOMAIN out : ~IsControl(out[i], "Authenticate")
  BY DEF Phases, PhasesOut
<1>5. PhasesOut("AwaitServerHello", b, r)
  BY <1>1, <1>2, <1>3, <1>4 DEF PhasesOut
<1>6. PhasesIn("AwaitServerHello", b, in)
  BY <1>2 DEF Phases, PhasesIn
<1> QED  BY <1>2, <1>5, <1>6 DEF Phases, PhasePairs, r

\* The gateway takes the ClientHello and answers it.
LEMMA PhasesHelloServed ==
    ASSUME NEW S, NEW out \in Seq(S), out # <<>>,
           NEW V, NEW in \in Seq(V), NEW x \in V, NEW a,
           Phases(a, "AwaitClientHello", out, in),
           IsBootstrap(Head(out), "ClientHello"), IsBootstrap(x, "ServerHello")
    PROVE  Phases(a, "SelectedAwaitAuthenticate", Tail(out), Append(in, x))
<1> DEFINE r == Tail(out)
<1>1. /\ Len(out) \in Nat \ {0} /\ DOMAIN out = 1 .. Len(out)
      /\ DOMAIN r = 1 .. Len(out) - 1 /\ Head(out) = out[1]
      /\ \A i \in 1 .. Len(out) - 1 : r[i] = out[i + 1]
  BY Taken
<1> HIDE DEF r
<1>2. \A i \in DOMAIN out : i # 1 => i - 1 \in DOMAIN r /\ r[i - 1] = out[i]
  BY <1>1
<1>3. \A i \in DOMAIN r : i + 1 \in DOMAIN out /\ r[i] = out[i + 1]
  BY <1>1
<1> DEFINE w == Append(in, x)
<1>4. /\ Len(in) \in Nat /\ DOMAIN in = 1 .. Len(in)
      /\ DOMAIN w = 1 .. Len(in) + 1
      /\ \A i \in 1 .. Len(in) : w[i] = in[i]
      /\ w[Len(in) + 1] = x
  BY Queued
<1> HIDE DEF w
<1>5. a = "AwaitServerHello"
  <2>1. 1 \in DOMAIN out /\ IsBootstrap(out[1], "ClientHello")
    BY <1>1
  <2> QED  BY <2>1 DEF Phases, PhasesOut, PhasePairs
<1>6. PhasesOut(a, "SelectedAwaitAuthenticate", r)
  BY <1>3, <1>5 DEF Phases, PhasesOut
<1>7. ~IsControl(x, "SessionReady")
  BY DEF IsBootstrap, IsControl
<1>8. \A i \in DOMAIN in : ~IsControl(in[i], "SessionReady")
  BY DEF Phases, PhasesIn
<1>9. PhasesIn(a, "SelectedAwaitAuthenticate", w)
  BY <1>4, <1>5, <1>7, <1>8 DEF PhasesIn
<1> QED  BY <1>5, <1>6, <1>9 DEF Phases, PhasePairs, r, w

\* The engine takes the ServerHello.
LEMMA PhasesHelloTaken ==
    ASSUME NEW S, NEW in \in Seq(S), in # <<>>, NEW out, NEW b,
           Phases("AwaitServerHello", b, out, in),
           IsBootstrap(Head(in), "ServerHello")
    PROVE  Phases("SelectedAwaitAuthenticate", b, out, Tail(in))
<1> DEFINE r == Tail(in)
<1>1. /\ Len(in) \in Nat \ {0} /\ DOMAIN in = 1 .. Len(in)
      /\ DOMAIN r = 1 .. Len(in) - 1 /\ Head(in) = in[1]
      /\ \A i \in 1 .. Len(in) - 1 : r[i] = in[i + 1]
  BY Taken
<1> HIDE DEF r
<1>2. \A i \in DOMAIN in : i # 1 => i - 1 \in DOMAIN r /\ r[i - 1] = in[i]
  BY <1>1
<1>3. \A i \in DOMAIN r : i + 1 \in DOMAIN in /\ r[i] = in[i + 1]
  BY <1>1
<1>4. b = "SelectedAwaitAuthenticate"
  <2>1. 1 \in DOMAIN in /\ IsBootstrap(in[1], "ServerHello")
    BY <1>1
  <2> QED  BY <2>1 DEF Phases, PhasesIn, PhasePairs
<1>5. PhasesOut("SelectedAwaitAuthenticate", b, out)
  BY <1>4 DEF Phases, PhasesOut
<1>6. PhasesIn("SelectedAwaitAuthenticate", b, r)
  BY <1>3, <1>4 DEF Phases, PhasesIn
<1> QED  BY <1>4, <1>5, <1>6 DEF Phases, PhasePairs, r

\* The engine authenticates.
LEMMA PhasesAuthenticate ==
    ASSUME NEW S, NEW out \in Seq(S), NEW x \in S, NEW in, NEW b,
           Phases("SelectedAwaitAuthenticate", b, out, in),
           IsControl(x, "Authenticate")
    PROVE  Phases("SelectedAwaitSessionReady", b, Append(out, x), in)
<1> DEFINE r == Append(out, x)
<1>1. /\ Len(out) \in Nat /\ DOMAIN out = 1 .. Len(out)
      /\ DOMAIN r = 1 .. Len(out) + 1
      /\ \A i \in 1 .. Len(out) : r[i] = out[i]
      /\ r[Len(out) + 1] = x
  BY Queued
<1> HIDE DEF r
<1>2. b = "SelectedAwaitAuthenticate"
  BY DEF Phases, PhasePairs
<1>3. PhasesOut("SelectedAwaitSessionReady", b, r)
  BY <1>1, <1>2 DEF Phases, PhasesOut
<1>4. PhasesIn("SelectedAwaitSessionReady", b, in)
  BY <1>2 DEF Phases, PhasesIn
<1> QED  BY <1>2, <1>3, <1>4 DEF Phases, PhasePairs, r

\* The gateway takes the Authenticate and answers it.
LEMMA PhasesServed ==
    ASSUME NEW S, NEW out \in Seq(S), out # <<>>,
           NEW V, NEW in \in Seq(V), NEW x \in V, NEW a,
           Phases(a, "SelectedAwaitAuthenticate", out, in),
           IsControl(Head(out), "Authenticate"), IsControl(x, "SessionReady")
    PROVE  Phases(a, "Ready", Tail(out), Append(in, x))
<1> DEFINE r == Tail(out)
<1>1. /\ Len(out) \in Nat \ {0} /\ DOMAIN out = 1 .. Len(out)
      /\ DOMAIN r = 1 .. Len(out) - 1 /\ Head(out) = out[1]
      /\ \A i \in 1 .. Len(out) - 1 : r[i] = out[i + 1]
  BY Taken
<1> HIDE DEF r
<1>2. \A i \in DOMAIN out : i # 1 => i - 1 \in DOMAIN r /\ r[i - 1] = out[i]
  BY <1>1
<1>3. \A i \in DOMAIN r : i + 1 \in DOMAIN out /\ r[i] = out[i + 1]
  BY <1>1
<1> DEFINE w == Append(in, x)
<1>4. /\ Len(in) \in Nat /\ DOMAIN in = 1 .. Len(in)
      /\ DOMAIN w = 1 .. Len(in) + 1
      /\ \A i \in 1 .. Len(in) : w[i] = in[i]
      /\ w[Len(in) + 1] = x
  BY Queued
<1> HIDE DEF w
<1>5. a = "SelectedAwaitSessionReady"
  <2>1. 1 \in DOMAIN out /\ IsControl(out[1], "Authenticate")
    BY <1>1
  <2> QED  BY <2>1 DEF Phases, PhasesOut, PhasePairs
<1>6. PhasesOut(a, "Ready", r)
  BY <1>3, <1>5 DEF Phases, PhasesOut
<1>7. PhasesIn(a, "Ready", w)
  BY <1>4, <1>5 DEF PhasesIn
<1> QED  BY <1>5, <1>6, <1>7 DEF Phases, PhasePairs, r, w

\* The engine takes the SessionReady.
LEMMA PhasesReady ==
    ASSUME NEW S, NEW in \in Seq(S), in # <<>>, NEW out, NEW b,
           Phases("SelectedAwaitSessionReady", b, out, in),
           IsControl(Head(in), "SessionReady")
    PROVE  Phases("Ready", b, out, Tail(in))
<1> DEFINE r == Tail(in)
<1>1. /\ Len(in) \in Nat \ {0} /\ DOMAIN in = 1 .. Len(in)
      /\ DOMAIN r = 1 .. Len(in) - 1 /\ Head(in) = in[1]
      /\ \A i \in 1 .. Len(in) - 1 : r[i] = in[i + 1]
  BY Taken
<1> HIDE DEF r
<1>2. \A i \in DOMAIN in : i # 1 => i - 1 \in DOMAIN r /\ r[i - 1] = in[i]
  BY <1>1
<1>3. \A i \in DOMAIN r : i + 1 \in DOMAIN in /\ r[i] = in[i + 1]
  BY <1>1
<1>4. b = "Ready"
  <2>1. 1 \in DOMAIN in /\ IsControl(in[1], "SessionReady")
    BY <1>1
  <2> QED  BY <2>1 DEF Phases, PhasesIn
<1>5. PhasesOut("Ready", b, out)
  BY <1>4 DEF Phases, PhasesOut
<1>6. PhasesIn("Ready", b, r)
  BY <1>3, <1>4 DEF Phases, PhasesIn
<1> QED  BY <1>4, <1>5, <1>6 DEF Phases, PhasePairs, r

-----------------------------------------------------------------------------
(* The graph generations. *)

\* A packet that is no graph message leaves the generations as they were.
LEMMA GenerationsQueue ==
    ASSUME NEW S, NEW in \in Seq(S), NEW x \in S, NEW a, NEW b,
           Generations(a, b, in), ~IsGraph(x)
    PROVE  Generations(a, b, Append(in, x))
<1> DEFINE r == Append(in, x)
<1>1. /\ Len(in) \in Nat /\ DOMAIN in = 1 .. Len(in)
      /\ DOMAIN r = 1 .. Len(in) + 1
      /\ \A i \in 1 .. Len(in) : r[i] = in[i]
      /\ r[Len(in) + 1] = x
  BY Queued
<1> HIDE DEF r
<1>2. (\A i \in DOMAIN r : ~IsGraph(r[i])) => a = b
  BY <1>1 DEF Generations
<1>3. ASSUME NEW i \in DOMAIN r, IsGraph(r[i]),
             \A j \in DOMAIN r : i < j => ~IsGraph(r[j])
      PROVE  r[i].msg.gen = b
  <2>1. i \in DOMAIN in /\ r[i] = in[i]
    BY <1>1, <1>3
  <2>2. \A j \in DOMAIN in : i < j => ~IsGraph(in[j])
    BY <1>1, <1>3
  <2> QED  BY <1>3, <2>1, <2>2 DEF Generations
<1> QED  BY <1>2, <1>3 DEF Generations, r

\* The gateway announces a generation.
LEMMA GenerationsSent ==
    ASSUME NEW S, NEW in \in Seq(S), NEW x \in S, NEW a, NEW b,
           IsGraph(x), x.msg.gen = b
    PROVE  Generations(a, b, Append(in, x))
<1> DEFINE r == Append(in, x)
<1>1. /\ Len(in) \in Nat /\ DOMAIN in = 1 .. Len(in)
      /\ DOMAIN r = 1 .. Len(in) + 1
      /\ \A i \in 1 .. Len(in) : r[i] = in[i]
      /\ r[Len(in) + 1] = x
  BY Queued
<1> HIDE DEF r
<1>2. \E i \in DOMAIN r : IsGraph(r[i])
  BY <1>1
<1>3. ASSUME NEW i \in DOMAIN r,
             \A j \in DOMAIN r : i < j => ~IsGraph(r[j])
      PROVE  r[i].msg.gen = b
  <2>1. ~(i < Len(in) + 1)
    BY <1>1, <1>3
  <2>2. i = Len(in) + 1
    BY <1>1, <2>1
  <2> QED  BY <1>1, <2>2
<1> QED  BY <1>2, <1>3 DEF Generations, r

LEMMA GenerationsTake ==
    ASSUME NEW S, NEW in \in Seq(S), in # <<>>, NEW a, NEW b,
           Generations(a, b, in), ~IsGraph(Head(in))
    PROVE  Generations(a, b, Tail(in))
<1> DEFINE r == Tail(in)
<1>1. /\ Len(in) \in Nat \ {0} /\ DOMAIN in = 1 .. Len(in)
      /\ DOMAIN r = 1 .. Len(in) - 1 /\ Head(in) = in[1]
      /\ \A i \in 1 .. Len(in) - 1 : r[i] = in[i + 1]
  BY Taken
<1> HIDE DEF r
<1>2. \A i \in DOMAIN in : i # 1 => i - 1 \in DOMAIN r /\ r[i - 1] = in[i]
  BY <1>1
<1>3. \A i \in DOMAIN r : i + 1 \in DOMAIN in /\ r[i] = in[i + 1]
  BY <1>1
<1>4. (\A i \in DOMAIN r : ~IsGraph(r[i])) => a = b
  BY <1>1, <1>2 DEF Generations
<1>5. ASSUME NEW i \in DOMAIN r, IsGraph(r[i]),
             \A j \in DOMAIN r : i < j => ~IsGraph(r[j])
      PROVE  r[i].msg.gen = b
  <2>1. i + 1 \in DOMAIN in /\ r[i] = in[i + 1]
    BY <1>3
  <2>2. ASSUME NEW j \in DOMAIN in, i + 1 < j
        PROVE  ~IsGraph(in[j])
    <3>1. j - 1 \in DOMAIN r /\ r[j - 1] = in[j] /\ i < j - 1
      BY <1>1, <1>2, <2>2
    <3> QED  BY <1>5, <3>1
  <2> QED  BY <1>5, <2>1, <2>2 DEF Generations
<1> QED  BY <1>4, <1>5 DEF Generations, r

\* The engine takes one.
LEMMA GenerationsTaken ==
    ASSUME NEW S, NEW in \in Seq(S), in # <<>>, NEW a, NEW b,
           Generations(a, b, in), IsGraph(Head(in))
    PROVE  Generations(Head(in).msg.gen, b, Tail(in))
<1> DEFINE r == Tail(in)
<1>1. /\ Len(in) \in Nat \ {0} /\ DOMAIN in = 1 .. Len(in)
      /\ DOMAIN r = 1 .. Len(in) - 1 /\ Head(in) = in[1]
      /\ \A i \in 1 .. Len(in) - 1 : r[i] = in[i + 1]
  BY Taken
<1> HIDE DEF r
<1>2. \A i \in DOMAIN in : i # 1 => i - 1 \in DOMAIN r /\ r[i - 1] = in[i]
  BY <1>1
<1>3. \A i \in DOMAIN r : i + 1 \in DOMAIN in /\ r[i] = in[i + 1]
  BY <1>1
<1>4. ASSUME \A i \in DOMAIN r : ~IsGraph(r[i])
      PROVE  Head(in).msg.gen = b
  <2>1. 1 \in DOMAIN in /\ IsGraph(in[1])
    BY <1>1
  <2>2. \A j \in DOMAIN in : 1 < j => ~IsGraph(in[j])
    BY <1>1, <1>2, <1>4
  <2>3. in[1].msg.gen = b
    BY <2>1, <2>2 DEF Generations
  <2> QED  BY <1>1, <2>3
<1>5. ASSUME NEW i \in DOMAIN r, IsGraph(r[i]),
             \A j \in DOMAIN r : i < j => ~IsGraph(r[j])
      PROVE  r[i].msg.gen = b
  <2>1. i + 1 \in DOMAIN in /\ r[i] = in[i + 1]
    BY <1>3
  <2>2. ASSUME NEW j \in DOMAIN in, i + 1 < j
        PROVE  ~IsGraph(in[j])
    <3>1. j - 1 \in DOMAIN r /\ r[j - 1] = in[j] /\ i < j - 1
      BY <1>1, <1>2, <2>2
    <3> QED  BY <1>5, <3>1
  <2> QED  BY <1>5, <2>1, <2>2 DEF Generations
<1> QED  BY <1>4, <1>5 DEF Generations, r

-----------------------------------------------------------------------------
(* What a control message does to a session, by its type. *)

Rephased(s, t, phase) ==
    /\ t \in Shape
    /\ t.phase = phase /\ t.chan = s.chan /\ t.generation = s.generation

Moved(s, t, c, state, kind) ==
    /\ t \in Shape
    /\ t.phase = s.phase /\ t.generation = s.generation
    /\ t.chan[c].state = state /\ t.chan[c].kind = kind
    /\ \A d \in ChannelIds : d # c => t.chan[d] = s.chan[d]

Dated(s, t, generation) ==
    /\ t \in Shape
    /\ t.phase = s.phase /\ t.chan = s.chan /\ t.generation = generation

\* What changing one entry of the table makes of a session.
LEMMA MovedBy ==
    ASSUME NEW s \in Shape, NEW c \in ChannelIds,
           NEW e \in [state : ChannelState \ {"Unused"}, kind : OperationKind]
    PROVE  Moved(s, [s EXCEPT !.chan[c] = e], c, e.state, e.kind)
<1> DEFINE f == [s.chan EXCEPT ![c] = e]
<1>1. /\ f \in [ChannelIds -> Entry] /\ f[c] = e
      /\ \A d \in ChannelIds : d # c => f[d] = s.chan[d]
  <2>1. s.chan \in [ChannelIds -> Entry] /\ e \in Entry
    BY DEF Shape, Entry
  <2> QED  BY <2>1
<1>2. [s EXCEPT !.chan[c] = e] = [s EXCEPT !.chan = f]
  OBVIOUS
<1> HIDE DEF f
<1>3. /\ [s EXCEPT !.chan = f] \in Shape
      /\ [s EXCEPT !.chan = f].chan = f
      /\ [s EXCEPT !.chan = f].phase = s.phase
      /\ [s EXCEPT !.chan = f].generation = s.generation
  BY <1>1 DEF Shape
<1> QED  BY <1>1, <1>2, <1>3 DEF Moved

\* The state of an open channel changes and its kind stays.
LEMMA MovedTo ==
    ASSUME NEW s \in Shape, NEW c \in ChannelIds, s.chan[c].state # "Unused",
           NEW state \in ChannelState \ {"Unused"}
    PROVE  Moved(s, [s EXCEPT !.chan[c].state = state], c, state, s.chan[c].kind)
<1> DEFINE e == [s.chan[c] EXCEPT !.state = state]
<1>1. s.chan[c] \in [state : ChannelState \ {"Unused"}, kind : OperationKind]
  BY DEF Shape, Entry, UnusedEntry
<1>2. /\ e \in [state : ChannelState \ {"Unused"}, kind : OperationKind]
      /\ e.state = state /\ e.kind = s.chan[c].kind
  BY <1>1
<1>3. [s EXCEPT !.chan[c].state = state] = [s EXCEPT !.chan[c] = e]
  OBVIOUS
<1> HIDE DEF e
<1>4. Moved(s, [s EXCEPT !.chan[c] = e], c, e.state, e.kind)
  BY <1>2, MovedBy
<1> QED  BY <1>2, <1>3, <1>4

\* What the session makes of each control message it accepts.
LEMMA AfterOpen ==
    ASSUME NEW s \in Shape, NEW m, NEW role, m.type = "OpenChannel",
           m.ch \in ChannelIds, m.kind \in OperationKind,
           AcceptsControl(s, m, role)
    PROVE  /\ s.phase = "Ready" /\ s.chan[m.ch].state = "Unused"
           /\ Moved(s, AfterControl(s, m), m.ch, "Pending", m.kind)
<1> DEFINE e == [state |-> "Pending", kind |-> m.kind]
<1>1. /\ e \in [state : ChannelState \ {"Unused"}, kind : OperationKind]
      /\ e.state = "Pending" /\ e.kind = m.kind
  BY DEF ChannelState
<1>2. AfterControl(s, m) = [s EXCEPT !.chan[m.ch] = e]
  BY DEF AfterControl, AfterOpenChannel
<1> HIDE DEF e
<1>3. Moved(s, [s EXCEPT !.chan[m.ch] = e], m.ch, e.state, e.kind)
  BY <1>1, MovedBy
<1>4. s.phase = "Ready" /\ s.chan[m.ch].state = "Unused"
  BY DEF AcceptsControl, AcceptsOpenChannel, ReadyRequired
<1> QED  BY <1>1, <1>2, <1>3, <1>4

LEMMA AfterReady ==
    ASSUME NEW s \in Shape, NEW m, NEW role, m.type = "ChannelReady",
           m.ch \in ChannelIds, AcceptsControl(s, m, role)
    PROVE  /\ s.phase = "Ready" /\ s.chan[m.ch].state = "Pending"
           /\ Moved(s, AfterControl(s, m), m.ch, ResultState(m.result),
                    s.chan[m.ch].kind)
<1>1. s.phase = "Ready" /\ s.chan[m.ch].state = "Pending"
  BY DEF AcceptsControl, AcceptsChannelReady, ReadyRequired
<1>2. AfterControl(s, m) = [s EXCEPT !.chan[m.ch].state = ResultState(m.result)]
  BY DEF AfterControl, AfterChannelReady, ResultState
<1>3. ResultState(m.result) \in ChannelState \ {"Unused"}
  BY DEF ResultState, ChannelState
<1> HIDE DEF ResultState
<1>4. Moved(s, [s EXCEPT !.chan[m.ch].state = ResultState(m.result)], m.ch,
            ResultState(m.result), s.chan[m.ch].kind)
  BY <1>1, <1>3, MovedTo
<1> QED  BY <1>1, <1>2, <1>4

LEMMA AfterClose ==
    ASSUME NEW s \in Shape, NEW m, NEW role, m.type = "CloseChannel",
           m.ch \in ChannelIds, AcceptsControl(s, m, role)
    PROVE  /\ s.phase = "Ready" /\ s.chan[m.ch].state = "Active"
           /\ Moved(s, AfterControl(s, m), m.ch, "Closed", s.chan[m.ch].kind)
<1>1. s.phase = "Ready" /\ s.chan[m.ch].state = "Active"
  BY DEF AcceptsControl, AcceptsCloseChannel, ReadyRequired
<1>2. AfterControl(s, m) = [s EXCEPT !.chan[m.ch].state = "Closed"]
  BY DEF AfterControl, AfterCloseChannel
<1>3. "Closed" \in ChannelState \ {"Unused"}
  BY DEF ChannelState
<1>4. Moved(s, [s EXCEPT !.chan[m.ch].state = "Closed"], m.ch,
            "Closed", s.chan[m.ch].kind)
  BY <1>1, <1>3, MovedTo
<1> QED  BY <1>1, <1>2, <1>4

LEMMA AfterGraphMessage ==
    ASSUME NEW s \in Shape, NEW m, NEW role,
           m.type \in {"GraphSnapshot", "GraphDelta"}, m.gen \in Int,
           AcceptsControl(s, m, role)
    PROVE  s.phase = "Ready" /\ Dated(s, AfterControl(s, m), m.gen)
<1>1. s.phase = "Ready"
  BY DEF AcceptsControl, ReadyRequired
<1>2. AfterControl(s, m) = [s EXCEPT !.generation = m.gen]
  BY DEF AfterControl, AfterGraph
<1>3. Dated(s, [s EXCEPT !.generation = m.gen], m.gen)
  BY DEF Dated, Shape
<1> QED  BY <1>1, <1>2, <1>3

LEMMA AfterPhase ==
    ASSUME NEW s \in Shape, NEW phase \in Phase
    PROVE  Rephased(s, [s EXCEPT !.phase = phase], phase)
  BY DEF Rephased, Shape

LEMMA AfterAuthentication ==
    ASSUME NEW s \in Shape, NEW m, NEW role, m.type = "Authenticate",
           AcceptsControl(s, m, role)
    PROVE  /\ s.phase = "SelectedAwaitAuthenticate"
           /\ Rephased(s, AfterControl(s, m), "SelectedAwaitSessionReady")
<1>1. s.phase = "SelectedAwaitAuthenticate"
  BY DEF AcceptsControl
<1>2. AfterControl(s, m) = [s EXCEPT !.phase = "SelectedAwaitSessionReady"]
  BY DEF AfterControl
<1>3. "SelectedAwaitSessionReady" \in Phase
  BY DEF Phase
<1> QED  BY <1>1, <1>2, <1>3, AfterPhase

LEMMA AfterSessionReady ==
    ASSUME NEW s \in Shape, NEW m, NEW role, m.type = "SessionReady",
           AcceptsControl(s, m, role)
    PROVE  /\ s.phase = "SelectedAwaitSessionReady"
           /\ Rephased(s, AfterControl(s, m), "Ready")
<1>1. s.phase = "SelectedAwaitSessionReady"
  BY DEF AcceptsControl
<1>2. AfterControl(s, m) = [s EXCEPT !.phase = "Ready"]
  BY DEF AfterControl
<1>3. "Ready" \in Phase
  BY DEF Phase
<1> QED  BY <1>1, <1>2, <1>3, AfterPhase

LEMMA AfterHeartbeat ==
    ASSUME NEW s \in Shape, NEW m, NEW role, m.type = "Heartbeat"
    PROVE  /\ AcceptsControl(s, m, role) => s.phase = "Ready"
           /\ AfterControl(s, m) = s
<1>1. AcceptsControl(s, m, role) => s.phase = "Ready"
  BY DEF AcceptsControl, ReadyRequired
<1>2. AfterControl(s, m) = s
  BY DEF AfterControl
<1> QED  BY <1>1, <1>2

\* An Error fails the session, fails a pending channel or changes nothing.
LEMMA AfterErrorMessage ==
    ASSUME NEW s \in Shape, NEW m, m.type = "Error",
           m.ch \in ChannelIds \cup {NoChannel}
    PROVE  /\ AfterControl(s, m) \in Shape
           /\ FailsPendingChannel(s, m) =>
                 /\ m.ch \in ChannelIds /\ s.chan[m.ch].state = "Pending"
                 /\ Moved(s, AfterControl(s, m), m.ch, "Failed", s.chan[m.ch].kind)
           /\ ~FailsPendingChannel(s, m) =>
                 /\ AfterControl(s, m).chan = s.chan
                 /\ s.phase = "Ready" => AfterControl(s, m) = s
<1>1. AfterControl(s, m) = AfterError(s, m)
  BY DEF AfterControl
<1>2. CASE s.phase # "Ready"
  <2>1. AfterError(s, m) = [s EXCEPT !.phase = "Failed"]
    BY <1>2 DEF AfterError, FailsPendingChannel
  <2>2. "Failed" \in Phase
    BY DEF Phase
  <2>3. Rephased(s, AfterControl(s, m), "Failed")
    BY <1>1, <2>1, <2>2, AfterPhase
  <2>4. ~FailsPendingChannel(s, m)
    BY <1>2 DEF FailsPendingChannel
  <2> QED  BY <1>2, <2>3, <2>4 DEF Rephased
<1>3. CASE s.phase = "Ready" /\ FailsPendingChannel(s, m)
  <2>1. AfterError(s, m) = [s EXCEPT !.chan[m.ch].state = "Failed"]
    BY <1>3 DEF AfterError
  <2>2. m.ch \in ChannelIds /\ s.chan[m.ch].state = "Pending"
    BY <1>3 DEF FailsPendingChannel
  <2>3. "Failed" \in ChannelState \ {"Unused"}
    BY DEF ChannelState
  <2>4. Moved(s, [s EXCEPT !.chan[m.ch].state = "Failed"], m.ch, "Failed",
              s.chan[m.ch].kind)
    BY <2>2, <2>3, MovedTo
  <2>5. Moved(s, AfterControl(s, m), m.ch, "Failed", s.chan[m.ch].kind)
    BY <1>1, <2>1, <2>4
  <2> QED  BY <1>3, <2>2, <2>5 DEF Moved
<1>4. CASE s.phase = "Ready" /\ ~FailsPendingChannel(s, m)
  <2>1. AfterError(s, m) = s
    BY <1>4 DEF AfterError
  <2> QED  BY <1>1, <1>4, <2>1
<1> QED  BY <1>2, <1>3, <1>4

\* The types that occur, and what each carries.
LEMMA ClientControlTypes ==
    ASSUME NEW m \in ClientControl
    PROVE  /\ m.type \in {"Authenticate", "Heartbeat", "OpenChannel", "CloseChannel"}
           /\ m.type \in {"OpenChannel", "CloseChannel"} => m.ch \in ChannelIds
           /\ m.type = "OpenChannel" => m.kind \in OperationKind
           /\ m.type = "Heartbeat" => m = Heartbeat
  BY DEF ClientControl, Heartbeat

\* The fields of a message, from its type.
LEMMA ServerControlTypes ==
    ASSUME NEW m \in ServerControl
    PROVE  /\ m.type \in {"SessionReady", "Heartbeat", "GraphSnapshot", "GraphDelta",
                          "ChannelReady", "Error"}
           /\ m.type \in {"GraphSnapshot", "GraphDelta"} => m.gen \in Int
           /\ m.type = "ChannelReady" =>
                 m.ch \in ChannelIds /\ m.reliable \in BOOLEAN
           /\ m.type = "Error" =>
                 /\ m.ch \in ChannelIds \cup {NoChannel}
                 /\ m.scope # "operation"
           /\ m.type = "Heartbeat" => m = Heartbeat
  BY DEF ServerControl, Heartbeat, SessionError

\* Every message that is accepted leaves a session.
LEMMA ShapeKept ==
    ASSUME NEW s \in Shape, NEW m \in ClientControl \cup ServerControl, NEW role,
           AcceptsControl(s, m, role)
    PROVE  AfterControl(s, m) \in Shape
<1>1. m.type \in {"Authenticate", "SessionReady", "Heartbeat", "OpenChannel",
                 "CloseChannel", "ChannelReady", "GraphSnapshot", "GraphDelta",
                 "Error"}
  BY ClientControlTypes, ServerControlTypes
<1>2. CASE m.type = "Authenticate"
  BY <1>2, AfterAuthentication DEF Rephased
<1>3. CASE m.type = "SessionReady"
  BY <1>3, AfterSessionReady DEF Rephased
<1>4. CASE m.type = "Heartbeat"
  BY <1>4, AfterHeartbeat
<1>5. CASE m.type = "OpenChannel"
  <2>1. m.ch \in ChannelIds /\ m.kind \in OperationKind
    BY <1>5, ClientControlTypes, ServerControlTypes
  <2> QED  BY <1>5, <2>1, AfterOpen DEF Moved
<1>6. CASE m.type = "CloseChannel"
  <2>1. m.ch \in ChannelIds
    BY <1>6, ClientControlTypes, ServerControlTypes
  <2> QED  BY <1>6, <2>1, AfterClose DEF Moved
<1>7. CASE m.type = "ChannelReady"
  <2>1. m.ch \in ChannelIds
    BY <1>7, ClientControlTypes, ServerControlTypes
  <2> QED  BY <1>7, <2>1, AfterReady DEF Moved
<1>8. CASE m.type \in {"GraphSnapshot", "GraphDelta"}
  <2>1. m.gen \in Int
    BY <1>8, ClientControlTypes, ServerControlTypes
  <2> QED  BY <1>8, <2>1, AfterGraphMessage DEF Dated
<1>9. CASE m.type = "Error"
  <2>1. m.ch \in ChannelIds \cup {NoChannel}
    BY <1>9, ClientControlTypes, ServerControlTypes
  <2> QED  BY <1>9, <2>1, AfterErrorMessage
<1> QED  BY <1>1, <1>2, <1>3, <1>4, <1>5, <1>6, <1>7, <1>8, <1>9

-----------------------------------------------------------------------------
(* The two sessions together. *)

\* Heartbeats and data frames change neither session.
Quiet(p) == p.plane = "data" \/ IsControl(p, "Heartbeat")

\* Such a packet is none of those that the relation speaks of.
LEMMA QuietPacket ==
    ASSUME NEW p, Quiet(p)
    PROVE  /\ \A c : /\ ~About(p, "OpenChannel", c) /\ ~About(p, "CloseChannel", c)
                    /\ ~About(p, "ChannelReady", c) /\ ~About(p, "Error", c)
           /\ ~IsBootstrap(p, "ClientHello") /\ ~IsBootstrap(p, "ServerHello")
           /\ ~IsControl(p, "Authenticate") /\ ~IsControl(p, "SessionReady")
           /\ ~IsGraph(p)
  BY DEF Quiet, About, IsBootstrap, IsControl, IsGraph

\* It comes and goes without consequence, in both directions.
LEMMA QuietQueueOut ==
    ASSUME NEW S, NEW out \in Seq(S), NEW x \in S, NEW in, NEW s, NEW t,
           Joint(s, t, out, in), Quiet(x)
    PROVE  Joint(s, t, Append(out, x), in)
  BY QuietPacket, ViewQueueOut, PhasesQueueOut DEF Joint

LEMMA QuietTakeOut ==
    ASSUME NEW S, NEW out \in Seq(S), out # <<>>, NEW in, NEW s, NEW t,
           Joint(s, t, out, in), Quiet(Head(out))
    PROVE  Joint(s, t, Tail(out), in)
  BY QuietPacket, ViewTakeOut, PhasesTakeOut DEF Joint

LEMMA QuietQueueIn ==
    ASSUME NEW S, NEW in \in Seq(S), NEW x \in S, NEW out, NEW s, NEW t,
           Joint(s, t, out, in), Quiet(x)
    PROVE  Joint(s, t, out, Append(in, x))
  BY QuietPacket, ViewQueueIn, PhasesQueueIn, GenerationsQueue DEF Joint

LEMMA QuietTakeIn ==
    ASSUME NEW S, NEW in \in Seq(S), in # <<>>, NEW out, NEW s, NEW t,
           Joint(s, t, out, in), Quiet(Head(in))
    PROVE  Joint(s, t, out, Tail(in))
  BY QuietPacket, ViewTakeIn, PhasesTakeIn, GenerationsTake DEF Joint

\* The engine starts.
LEMMA JointHello ==
    ASSUME NEW S, NEW out \in Seq(S), NEW x \in S, NEW in,
           NEW s, NEW t, NEW s2, Joint(s, t, out, in),
           s.phase = "AwaitClientHello", Rephased(s, s2, "AwaitServerHello"),
           IsBootstrap(x, "ClientHello")
    PROVE  Joint(s2, t, Append(out, x), in)
<1>1. s2.chan = s.chan /\ s2.generation = s.generation /\ s2.phase = "AwaitServerHello"
  BY DEF Rephased
<1>2. \A c : ~About(x, "OpenChannel", c) /\ ~About(x, "CloseChannel", c)
  BY DEF About, IsBootstrap
<1>3. ASSUME NEW c \in ChannelIds
      PROVE  View(c, s.chan[c], t.chan[c], Append(out, x), in)
  BY <1>2, ViewQueueOut DEF Joint
<1>4. Phases("AwaitServerHello", t.phase, Append(out, x), in)
  BY PhasesHello DEF Joint
<1> QED  BY <1>1, <1>3, <1>4 DEF Joint

\* The engine sends a control message its own session accepts.
LEMMA JointSends ==
    ASSUME NEW S, NEW out \in Seq(S), NEW x \in S, NEW in,
           NEW s \in Shape, NEW t, NEW m \in ClientControl, NEW role,
           Joint(s, t, out, in), AcceptsControl(s, m, role),
           x.plane = "control", x.msg = m
    PROVE  Joint(AfterControl(s, m), t, Append(out, x), in)
<1> DEFINE s2 == AfterControl(s, m)
<1>1. /\ \A c \in ChannelIds : View(c, s.chan[c], t.chan[c], out, in)
      /\ Phases(s.phase, t.phase, out, in)
      /\ Generations(s.generation, t.generation, in)
  BY DEF Joint
<1>2. CASE m.type = "Authenticate"
  <2>1. s.phase = "SelectedAwaitAuthenticate"
        /\ Rephased(s, s2, "SelectedAwaitSessionReady")
    BY <1>2, AfterAuthentication
  <2> HIDE DEF s2
  <2>2. /\ s2.chan = s.chan /\ s2.generation = s.generation
        /\ s2.phase = "SelectedAwaitSessionReady"
    BY <2>1 DEF Rephased
  <2>3. IsControl(x, "Authenticate")
        /\ \A c : ~About(x, "OpenChannel", c) /\ ~About(x, "CloseChannel", c)
    BY <1>2 DEF About, IsControl
  <2>4. ASSUME NEW c \in ChannelIds
        PROVE  View(c, s.chan[c], t.chan[c], Append(out, x), in)
    BY <1>1, <2>3, ViewQueueOut
  <2>5. Phases("SelectedAwaitSessionReady", t.phase, Append(out, x), in)
    BY <1>1, <2>1, <2>3, PhasesAuthenticate
  <2>6. Joint(s2, t, Append(out, x), in)
    BY <1>1, <2>2, <2>4, <2>5 DEF Joint
  <2> QED  BY <2>6 DEF s2
<1>3. CASE m.type = "Heartbeat"
  <2>1. s2 = s /\ Quiet(x)
    BY <1>3, AfterHeartbeat DEF Quiet, IsControl
  <2> QED  BY <2>1, QuietQueueOut
<1>4. CASE m.type = "OpenChannel"
  <2>0. m.ch \in ChannelIds /\ m.kind \in OperationKind
    BY <1>4, ClientControlTypes
  <2>1. s.chan[m.ch].state = "Unused" /\ Moved(s, s2, m.ch, "Pending", m.kind)
    BY <1>4, <2>0, AfterOpen
  <2> HIDE DEF s2
  <2>2. /\ s2.phase = s.phase /\ s2.generation = s.generation
        /\ s2.chan[m.ch].state = "Pending" /\ s2.chan[m.ch].kind = m.kind
        /\ \A d \in ChannelIds : d # m.ch => s2.chan[d] = s.chan[d]
    BY <2>1 DEF Moved
  <2>3. /\ ~IsControl(x, "Authenticate") /\ ~IsBootstrap(x, "ClientHello")
        /\ About(x, "OpenChannel", m.ch) /\ x.msg.kind = m.kind
        /\ \A d : d # m.ch => ~About(x, "OpenChannel", d)
        /\ \A d : ~About(x, "CloseChannel", d)
    BY <1>4 DEF About, IsControl, IsBootstrap
  <2>4. ASSUME NEW d \in ChannelIds
        PROVE  View(d, s2.chan[d], t.chan[d], Append(out, x), in)
    <3>1. CASE d = m.ch
      BY <1>1, <2>1, <2>2, <2>3, <3>1, ViewOpened
    <3>2. CASE d # m.ch
      <4>1. View(d, s.chan[d], t.chan[d], Append(out, x), in)
        BY <1>1, <2>3, <3>2, ViewQueueOut
      <4> QED  BY <2>2, <3>2, <4>1
    <3> QED  BY <3>1, <3>2
  <2>5. Phases(s.phase, t.phase, Append(out, x), in)
    BY <1>1, <2>3, PhasesQueueOut
  <2>6. Joint(s2, t, Append(out, x), in)
    BY <1>1, <2>2, <2>4, <2>5 DEF Joint
  <2> QED  BY <2>6 DEF s2
<1>5. CASE m.type = "CloseChannel"
  <2>0. m.ch \in ChannelIds
    BY <1>5, ClientControlTypes
  <2>1. /\ s.chan[m.ch].state = "Active"
        /\ Moved(s, s2, m.ch, "Closed", s.chan[m.ch].kind)
    BY <1>5, <2>0, AfterClose
  <2> HIDE DEF s2
  <2>2. /\ s2.phase = s.phase /\ s2.generation = s.generation
        /\ s2.chan[m.ch].state = "Closed" /\ s2.chan[m.ch].kind = s.chan[m.ch].kind
        /\ \A d \in ChannelIds : d # m.ch => s2.chan[d] = s.chan[d]
    BY <2>1 DEF Moved
  <2>3. /\ ~IsControl(x, "Authenticate") /\ ~IsBootstrap(x, "ClientHello")
        /\ About(x, "CloseChannel", m.ch)
        /\ \A d : d # m.ch => ~About(x, "CloseChannel", d)
        /\ \A d : ~About(x, "OpenChannel", d)
    BY <1>5 DEF About, IsControl, IsBootstrap
  <2>4. ASSUME NEW d \in ChannelIds
        PROVE  View(d, s2.chan[d], t.chan[d], Append(out, x), in)
    <3>1. CASE d = m.ch
      BY <1>1, <2>1, <2>2, <2>3, <3>1, ViewClosed
    <3>2. CASE d # m.ch
      <4>1. View(d, s.chan[d], t.chan[d], Append(out, x), in)
        BY <1>1, <2>3, <3>2, ViewQueueOut
      <4> QED  BY <2>2, <3>2, <4>1
    <3> QED  BY <3>1, <3>2
  <2>5. Phases(s.phase, t.phase, Append(out, x), in)
    BY <1>1, <2>3, PhasesQueueOut
  <2>6. Joint(s2, t, Append(out, x), in)
    BY <1>1, <2>2, <2>4, <2>5 DEF Joint
  <2> QED  BY <2>6 DEF s2
<1> QED  BY <1>2, <1>3, <1>4, <1>5, ClientControlTypes

\* The engine takes the ServerHello.
LEMMA JointHelloTaken ==
    ASSUME NEW S, NEW in \in Seq(S), in # <<>>, NEW out,
           NEW s, NEW t, NEW s2, Joint(s, t, out, in),
           s.phase = "AwaitServerHello",
           Rephased(s, s2, "SelectedAwaitAuthenticate"),
           IsBootstrap(Head(in), "ServerHello")
    PROVE  Joint(s2, t, out, Tail(in))
<1>1. /\ s2.chan = s.chan /\ s2.generation = s.generation
      /\ s2.phase = "SelectedAwaitAuthenticate"
  BY DEF Rephased
<1>2. /\ \A c : ~About(Head(in), "ChannelReady", c) /\ ~About(Head(in), "Error", c)
      /\ ~IsGraph(Head(in))
  BY DEF About, IsBootstrap, IsGraph
<1>3. ASSUME NEW c \in ChannelIds
      PROVE  View(c, s.chan[c], t.chan[c], out, Tail(in))
  BY <1>2, ViewTakeIn DEF Joint
<1>4. Phases("SelectedAwaitAuthenticate", t.phase, out, Tail(in))
  BY PhasesHelloTaken DEF Joint
<1>5. Generations(s.generation, t.generation, Tail(in))
  BY <1>2, GenerationsTake DEF Joint
<1> QED  BY <1>1, <1>3, <1>4, <1>5 DEF Joint

\* The engine takes a control message that does not end it.
LEMMA JointTakes ==
    ASSUME NEW S, NEW in \in Seq(S), in # <<>>, NEW out,
           NEW s \in Shape, NEW t, NEW m \in ServerControl, NEW role,
           Joint(s, t, out, in), AcceptsControl(s, m, role),
           ~IsSessionError(s, m),
           Head(in).plane = "control", Head(in).msg = m
    PROVE  Joint(AfterControl(s, m), t, out, Tail(in))
<1> DEFINE s2 == AfterControl(s, m)
<1>1. /\ \A c \in ChannelIds : View(c, s.chan[c], t.chan[c], out, in)
      /\ Phases(s.phase, t.phase, out, in)
      /\ Generations(s.generation, t.generation, in)
  BY DEF Joint
<1>2. CASE m.type = "SessionReady"
  <2>1. s.phase = "SelectedAwaitSessionReady" /\ Rephased(s, s2, "Ready")
    BY <1>2, AfterSessionReady
  <2> HIDE DEF s2
  <2>2. s2.chan = s.chan /\ s2.generation = s.generation /\ s2.phase = "Ready"
    BY <2>1 DEF Rephased
  <2>3. /\ IsControl(Head(in), "SessionReady") /\ ~IsGraph(Head(in))
        /\ \A c : ~About(Head(in), "ChannelReady", c) /\ ~About(Head(in), "Error", c)
    BY <1>2 DEF About, IsControl, IsGraph
  <2>4. ASSUME NEW c \in ChannelIds
        PROVE  View(c, s.chan[c], t.chan[c], out, Tail(in))
    BY <1>1, <2>3, ViewTakeIn
  <2>5. Phases("Ready", t.phase, out, Tail(in))
    BY <1>1, <2>1, <2>3, PhasesReady
  <2>6. Generations(s.generation, t.generation, Tail(in))
    BY <1>1, <2>3, GenerationsTake
  <2>7. Joint(s2, t, out, Tail(in))
    BY <2>2, <2>4, <2>5, <2>6 DEF Joint
  <2> QED  BY <2>7 DEF s2
<1>3. CASE m.type = "Heartbeat"
  <2>1. s2 = s /\ Quiet(Head(in))
    BY <1>3, AfterHeartbeat DEF Quiet, IsControl
  <2> QED  BY <2>1, QuietTakeIn
<1>4. CASE m.type \in {"GraphSnapshot", "GraphDelta"}
  <2>0. m.gen \in Int
    BY <1>4, ServerControlTypes
  <2>1. Dated(s, s2, m.gen)
    BY <1>4, <2>0, AfterGraphMessage
  <2> HIDE DEF s2
  <2>2. s2.chan = s.chan /\ s2.phase = s.phase /\ s2.generation = Head(in).msg.gen
    BY <2>1 DEF Dated
  <2>3. /\ IsGraph(Head(in)) /\ ~IsControl(Head(in), "SessionReady")
        /\ ~IsBootstrap(Head(in), "ServerHello")
        /\ \A c : ~About(Head(in), "ChannelReady", c) /\ ~About(Head(in), "Error", c)
    BY <1>4 DEF About, IsControl, IsBootstrap, IsGraph
  <2>4. ASSUME NEW c \in ChannelIds
        PROVE  View(c, s.chan[c], t.chan[c], out, Tail(in))
    BY <1>1, <2>3, ViewTakeIn
  <2>5. Phases(s.phase, t.phase, out, Tail(in))
    BY <1>1, <2>3, PhasesTakeIn
  <2>6. Generations(Head(in).msg.gen, t.generation, Tail(in))
    BY <1>1, <2>3, GenerationsTaken
  <2>7. Joint(s2, t, out, Tail(in))
    BY <2>2, <2>4, <2>5, <2>6 DEF Joint
  <2> QED  BY <2>7 DEF s2
<1>5. CASE m.type = "ChannelReady"
  <2>0. m.ch \in ChannelIds
    BY <1>5, ServerControlTypes
  <2>1. /\ s.chan[m.ch].state = "Pending"
        /\ Moved(s, s2, m.ch, ResultState(m.result), s.chan[m.ch].kind)
    BY <1>5, <2>0, AfterReady
  <2> HIDE DEF s2
  <2>2. /\ s2.phase = s.phase /\ s2.generation = s.generation
        /\ s2.chan[m.ch].state = ResultState(Head(in).msg.result)
        /\ s2.chan[m.ch].kind = s.chan[m.ch].kind
        /\ \A d \in ChannelIds : d # m.ch => s2.chan[d] = s.chan[d]
    BY <2>1 DEF Moved
  <2>3. /\ ~IsControl(Head(in), "SessionReady") /\ ~IsBootstrap(Head(in), "ServerHello")
        /\ About(Head(in), "ChannelReady", m.ch) /\ ~IsGraph(Head(in))
        /\ \A d : d # m.ch => ~About(Head(in), "ChannelReady", d)
        /\ \A d : ~About(Head(in), "Error", d)
    BY <1>5 DEF About, IsControl, IsBootstrap, IsGraph
  <2>4. ASSUME NEW d \in ChannelIds
        PROVE  View(d, s2.chan[d], t.chan[d], out, Tail(in))
    <3>1. CASE d = m.ch
      BY <1>1, <2>1, <2>2, <2>3, <3>1, ViewAnswered
    <3>2. CASE d # m.ch
      <4>1. View(d, s.chan[d], t.chan[d], out, Tail(in))
        BY <1>1, <2>3, <3>2, ViewTakeIn
      <4> QED  BY <2>2, <3>2, <4>1
    <3> QED  BY <3>1, <3>2
  <2>5. Phases(s.phase, t.phase, out, Tail(in))
    BY <1>1, <2>3, PhasesTakeIn
  <2>6. Generations(s.generation, t.generation, Tail(in))
    BY <1>1, <2>3, GenerationsTake
  <2>7. Joint(s2, t, out, Tail(in))
    BY <2>2, <2>4, <2>5, <2>6 DEF Joint
  <2> QED  BY <2>7 DEF s2
<1>6. CASE m.type = "Error"
  <2>1. ~CancelsOperation(s, m)
    BY <1>6, ServerControlTypes DEF CancelsOperation
  <2>2. FailsPendingChannel(s, m)
    BY <1>6, <2>1 DEF IsSessionError
  <2>3. m.ch \in ChannelIds /\ s.chan[m.ch].state = "Pending"
    BY <2>2 DEF FailsPendingChannel
  <2>4. 1 \in DOMAIN in /\ Head(in) = in[1]
        /\ \A j \in DOMAIN in : ~(j < 1)
    BY Taken
  <2>5. About(in[1], "Error", m.ch)
    BY <1>6, <2>4 DEF About
  <2>6. \E j \in DOMAIN in : j < 1 /\ About(in[j], "ChannelReady", m.ch)
    <3>1. View(m.ch, s.chan[m.ch], t.chan[m.ch], out, in)
      BY <1>1, <2>3
    <3> QED  BY <2>3, <2>4, <2>5, <3>1 DEF View, ExplainedIn
  <2> QED  BY <2>4, <2>6
<1> QED  BY <1>2, <1>3, <1>4, <1>5, <1>6, ServerControlTypes

\* The gateway takes the ClientHello and answers it.
LEMMA JointHelloServed ==
    ASSUME NEW S, NEW out \in Seq(S), out # <<>>,
           NEW V, NEW in \in Seq(V), NEW x \in V,
           NEW s, NEW t, NEW t2, Joint(s, t, out, in),
           t.phase = "AwaitClientHello",
           Rephased(t, t2, "SelectedAwaitAuthenticate"),
           IsBootstrap(Head(out), "ClientHello"), IsBootstrap(x, "ServerHello")
    PROVE  Joint(s, t2, Tail(out), Append(in, x))
<1>1. /\ t2.chan = t.chan /\ t2.generation = t.generation
      /\ t2.phase = "SelectedAwaitAuthenticate"
  BY DEF Rephased
<1>2. /\ \A c : ~About(Head(out), "OpenChannel", c) /\ ~About(Head(out), "CloseChannel", c)
      /\ \A c : ~About(x, "ChannelReady", c) /\ ~About(x, "Error", c)
      /\ ~IsGraph(x)
  BY DEF About, IsBootstrap, IsGraph
<1>3. ASSUME NEW c \in ChannelIds
      PROVE  View(c, s.chan[c], t.chan[c], Tail(out), Append(in, x))
  <2>1. View(c, s.chan[c], t.chan[c], Tail(out), in)
    BY <1>2, ViewTakeOut DEF Joint
  <2> QED  BY <1>2, <2>1, ViewQueueIn
<1>4. Phases(s.phase, "SelectedAwaitAuthenticate", Tail(out), Append(in, x))
  BY PhasesHelloServed DEF Joint
<1>5. Generations(s.generation, t.generation, Append(in, x))
  BY <1>2, GenerationsQueue DEF Joint
<1> QED  BY <1>1, <1>3, <1>4, <1>5 DEF Joint

\* The gateway takes the Authenticate and answers it.
LEMMA JointServed ==
    ASSUME NEW S, NEW out \in Seq(S), out # <<>>,
           NEW V, NEW in \in Seq(V), NEW x \in V,
           NEW s, NEW t, NEW t2, Joint(s, t, out, in),
           t.phase = "SelectedAwaitAuthenticate", Rephased(t, t2, "Ready"),
           IsControl(Head(out), "Authenticate"), IsControl(x, "SessionReady")
    PROVE  Joint(s, t2, Tail(out), Append(in, x))
<1>1. t2.chan = t.chan /\ t2.generation = t.generation /\ t2.phase = "Ready"
  BY DEF Rephased
<1>2. /\ \A c : ~About(Head(out), "OpenChannel", c) /\ ~About(Head(out), "CloseChannel", c)
      /\ \A c : ~About(x, "ChannelReady", c) /\ ~About(x, "Error", c)
      /\ ~IsGraph(x)
  BY DEF About, IsControl, IsGraph
<1>3. ASSUME NEW c \in ChannelIds
      PROVE  View(c, s.chan[c], t.chan[c], Tail(out), Append(in, x))
  <2>1. View(c, s.chan[c], t.chan[c], Tail(out), in)
    BY <1>2, ViewTakeOut DEF Joint
  <2> QED  BY <1>2, <2>1, ViewQueueIn
<1>4. Phases(s.phase, "Ready", Tail(out), Append(in, x))
  BY PhasesServed DEF Joint
<1>5. Generations(s.generation, t.generation, Append(in, x))
  BY <1>2, GenerationsQueue DEF Joint
<1> QED  BY <1>1, <1>3, <1>4, <1>5 DEF Joint

\* The gateway takes an open and answers it.
LEMMA JointOpened ==
    ASSUME NEW S, NEW out \in Seq(S), out # <<>>,
           NEW V, NEW in \in Seq(V), NEW x \in V,
           NEW s, NEW t, NEW t2, Joint(s, t, out, in),
           NEW c \in ChannelIds, t.chan[c].state = "Unused",
           Moved(t, t2, c, ResultState(x.msg.result), Head(out).msg.kind),
           About(Head(out), "OpenChannel", c), About(x, "ChannelReady", c)
    PROVE  Joint(s, t2, Tail(out), Append(in, x))
<1>1. /\ t2.phase = t.phase /\ t2.generation = t.generation
      /\ t2.chan[c].state = ResultState(x.msg.result)
      /\ t2.chan[c].kind = Head(out).msg.kind
      /\ \A d \in ChannelIds : d # c => t2.chan[d] = t.chan[d]
  BY DEF Moved
<1>2. /\ \A d : d # c => ~About(Head(out), "OpenChannel", d)
      /\ \A d : ~About(Head(out), "CloseChannel", d)
      /\ \A d : d # c => ~About(x, "ChannelReady", d)
      /\ \A d : ~About(x, "Error", d)
      /\ ~IsBootstrap(Head(out), "ClientHello") /\ ~IsControl(Head(out), "Authenticate")
      /\ ~IsBootstrap(x, "ServerHello") /\ ~IsControl(x, "SessionReady")
      /\ ~IsGraph(x)
  BY DEF About, IsControl, IsBootstrap, IsGraph
<1>3. ASSUME NEW d \in ChannelIds
      PROVE  View(d, s.chan[d], t2.chan[d], Tail(out), Append(in, x))
  <2>0. View(d, s.chan[d], t.chan[d], out, in)
    BY DEF Joint
  <2>1. CASE d = c
    BY <1>1, <2>0, <2>1, ViewServed
  <2>2. CASE d # c
    <3>1. View(d, s.chan[d], t.chan[d], Tail(out), in)
      BY <1>2, <2>0, <2>2, ViewTakeOut
    <3>2. View(d, s.chan[d], t.chan[d], Tail(out), Append(in, x))
      BY <1>2, <2>2, <3>1, ViewQueueIn
    <3> QED  BY <1>1, <2>2, <3>2
  <2> QED  BY <2>1, <2>2
<1>4. Phases(s.phase, t.phase, Tail(out), Append(in, x))
  <2>1. Phases(s.phase, t.phase, Tail(out), in)
    BY <1>2, PhasesTakeOut DEF Joint
  <2> QED  BY <1>2, <2>1, PhasesQueueIn
<1>5. Generations(s.generation, t.generation, Append(in, x))
  BY <1>2, GenerationsQueue DEF Joint
<1> QED  BY <1>1, <1>3, <1>4, <1>5 DEF Joint

\* The gateway takes a close.
LEMMA JointReleased ==
    ASSUME NEW S, NEW out \in Seq(S), out # <<>>, NEW in,
           NEW s, NEW t, NEW t2, Joint(s, t, out, in),
           NEW c \in ChannelIds, t.chan[c].state = "Active",
           Moved(t, t2, c, "Closed", t.chan[c].kind),
           About(Head(out), "CloseChannel", c)
    PROVE  Joint(s, t2, Tail(out), in)
<1>1. /\ t2.phase = t.phase /\ t2.generation = t.generation
      /\ t2.chan[c].state = "Closed" /\ t2.chan[c].kind = t.chan[c].kind
      /\ \A d \in ChannelIds : d # c => t2.chan[d] = t.chan[d]
  BY DEF Moved
<1>2. /\ \A d : d # c => ~About(Head(out), "CloseChannel", d)
      /\ \A d : ~About(Head(out), "OpenChannel", d)
      /\ ~IsBootstrap(Head(out), "ClientHello") /\ ~IsControl(Head(out), "Authenticate")
  BY DEF About, IsControl, IsBootstrap
<1>3. ASSUME NEW d \in ChannelIds
      PROVE  View(d, s.chan[d], t2.chan[d], Tail(out), in)
  <2>0. View(d, s.chan[d], t.chan[d], out, in)
    BY DEF Joint
  <2>1. CASE d = c
    BY <1>1, <2>0, <2>1, ViewReleased
  <2>2. CASE d # c
    <3>1. View(d, s.chan[d], t.chan[d], Tail(out), in)
      BY <1>2, <2>0, <2>2, ViewTakeOut
    <3> QED  BY <1>1, <2>2, <3>1
  <2> QED  BY <2>1, <2>2
<1>4. Phases(s.phase, t.phase, Tail(out), in)
  BY <1>2, PhasesTakeOut DEF Joint
<1> QED  BY <1>1, <1>3, <1>4 DEF Joint

\* The gateway announces a generation of the graph.
LEMMA JointAnnounced ==
    ASSUME NEW S, NEW in \in Seq(S), NEW x \in S, NEW out,
           NEW s, NEW t, NEW t2, Joint(s, t, out, in),
           IsGraph(x), Dated(t, t2, x.msg.gen)
    PROVE  Joint(s, t2, out, Append(in, x))
<1>1. t2.phase = t.phase /\ t2.chan = t.chan /\ t2.generation = x.msg.gen
  BY DEF Dated
<1>2. /\ \A d : ~About(x, "ChannelReady", d) /\ ~About(x, "Error", d)
      /\ ~IsBootstrap(x, "ServerHello") /\ ~IsControl(x, "SessionReady")
  BY DEF About, IsControl, IsBootstrap, IsGraph
<1>3. ASSUME NEW c \in ChannelIds
      PROVE  View(c, s.chan[c], t.chan[c], out, Append(in, x))
  BY <1>2, ViewQueueIn DEF Joint
<1>4. Phases(s.phase, t.phase, out, Append(in, x))
  BY <1>2, PhasesQueueIn DEF Joint
<1>5. Generations(s.generation, x.msg.gen, Append(in, x))
  BY GenerationsSent
<1> QED  BY <1>1, <1>3, <1>4, <1>5 DEF Joint

\* The gateway reports a failed call on an active channel.
LEMMA JointReported ==
    ASSUME NEW S, NEW in \in Seq(S), NEW x \in S, NEW out,
           NEW s, NEW t, Joint(s, t, out, in),
           NEW c \in ChannelIds, t.chan[c].state = "Active", About(x, "Error", c)
    PROVE  Joint(s, t, out, Append(in, x))
<1>1. /\ \A d : ~About(x, "ChannelReady", d)
      /\ \A d : d # c => ~About(x, "Error", d)
      /\ ~IsBootstrap(x, "ServerHello") /\ ~IsControl(x, "SessionReady")
      /\ ~IsGraph(x)
  BY DEF About, IsControl, IsBootstrap, IsGraph
<1>2. ASSUME NEW d \in ChannelIds
      PROVE  View(d, s.chan[d], t.chan[d], out, Append(in, x))
  <2>0. View(d, s.chan[d], t.chan[d], out, in)
    BY DEF Joint
  <2>1. CASE d = c
    BY <2>0, <2>1, ViewReported
  <2>2. CASE d # c
    BY <1>1, <2>0, <2>2, ViewQueueIn
  <2> QED  BY <2>1, <2>2
<1>3. Phases(s.phase, t.phase, out, Append(in, x))
  BY <1>1, PhasesQueueIn DEF Joint
<1>4. Generations(s.generation, t.generation, Append(in, x))
  BY <1>1, GenerationsQueue DEF Joint
<1> QED  BY <1>2, <1>3, <1>4 DEF Joint

\* With nothing in flight the two sessions are equal.
LEMMA JointAtRest ==
    ASSUME NEW s \in Shape, NEW t \in Shape, Joint(s, t, <<>>, <<>>)
    PROVE  s = t
<1>1. s.phase = t.phase
  BY DEF Joint, Phases, PhasesOut, PhasesIn, PhasePairs
<1>2. s.generation = t.generation
  BY DEF Joint, Generations
<1>3. ASSUME NEW c \in ChannelIds
      PROVE  s.chan[c] = t.chan[c]
  <2>1. View(c, s.chan[c], t.chan[c], <<>>, <<>>)
    BY DEF Joint
  <2>2. s.chan[c].state = t.chan[c].state
    BY <2>1 DEF View, ViewPairs, UnderwayOut, UnderwayIn
  <2>3. s.chan[c] \in Entry /\ t.chan[c] \in Entry
    BY DEF Shape
  <2>4. CASE t.chan[c].state = "Unused"
    BY <2>2, <2>3, <2>4 DEF Entry, UnusedEntry
  <2>5. CASE t.chan[c].state # "Unused"
    <3>1. s.chan[c].kind = t.chan[c].kind
      BY <2>1, <2>5 DEF View
    <3> QED  BY <2>2, <2>3, <2>5, <3>1 DEF Entry, UnusedEntry
  <2> QED  BY <2>4, <2>5
<1>4. s.chan = t.chan
  BY <1>3 DEF Shape
<1> QED  BY <1>1, <1>2, <1>4 DEF Shape

-----------------------------------------------------------------------------
\* p is a data frame of channel c.
OnChannel(p, c) == p.plane = "data" /\ p.msg.ch = c

\* The i-th packet on its way to the gateway is one its session t will accept:
\* nothing in front of it opens the session twice, answers it twice, or opens or
\* closes its channel first.
FitsOut(t, out, i) ==
    /\ out[i].plane = "bootstrap" =>
          /\ t.phase = "AwaitClientHello"
          /\ \A j \in 1 .. i - 1 : out[j].plane # "bootstrap"
    /\ out[i].plane = "control" => AcceptsControl(t, out[i].msg, Client)
    /\ out[i].plane = "data" => AcceptsData(t, out[i].msg, Client)
    /\ IsControl(out[i], "Authenticate") =>
          \A j \in 1 .. i - 1 : ~IsControl(out[j], "Authenticate")
    /\ \A c \in ChannelIds : About(out[i], "OpenChannel", c) =>
          \A j \in 1 .. i - 1 : ~About(out[j], "OpenChannel", c)
    /\ \A c \in ChannelIds : About(out[i], "CloseChannel", c) \/ OnChannel(out[i], c) =>
          \A j \in 1 .. i - 1 : ~About(out[j], "CloseChannel", c)

\* What the engine accepts only in a session that is ready.
NeedsReady(p) ==
    \/ p.plane = "data"
    \/ p.plane = "control" /\ p.msg.type \notin {"SessionReady", "Error"}

\* The i-th packet on its way to the engine comes in the phase it belongs to.
ReadyFits(s, in, i) ==
    /\ in[i].plane = "bootstrap" =>
          /\ ~InSelectedPlane(s.phase)
          /\ \A j \in 1 .. i - 1 : ~IsBootstrap(in[j], "ServerHello")
    /\ IsControl(in[i], "SessionReady") =>
          /\ s.phase = "SelectedAwaitSessionReady"
          /\ \A j \in 1 .. i - 1 : ~IsControl(in[j], "SessionReady")
    /\ NeedsReady(in[i]) =>
          \/ s.phase = "Ready"
          \/ \E j \in 1 .. i - 1 : IsControl(in[j], "SessionReady")

\* The i-th packet finds channel c of the engine in a state that allows it.
ChannelFits(s, in, i, c) ==
    /\ About(in[i], "ChannelReady", c) =>
          /\ s.chan[c].state = "Pending"
          /\ \A j \in 1 .. i - 1 : ~About(in[j], "ChannelReady", c)
    /\ About(in[i], "Error", c) =>
          /\ s.chan[c].state # "Unused"
          /\ s.chan[c].state = "Pending" =>
                \E j \in 1 .. i - 1 : About(in[j], "ChannelReady", c)
    /\ OnChannel(in[i], c) =>
          /\ s.chan[c].state \in {"Pending", "Active", "Closed"}
          /\ s.chan[c].state = "Pending" =>
                \E j \in 1 .. i - 1 : /\ About(in[j], "ChannelReady", c)
                                      /\ IsSuccess(in[j].msg.result)
          /\ Server \in OpcodeSenders(s.chan[c].kind, in[i].msg.opcode)
          /\ in[i].msg.opcode \in ServiceActionOpcode =>
                /\ in[i].msg.opid # "none"
                /\ in[i].msg.opid = "zero" => in[i].msg.opcode = "ACTION_STATUS"
          /\ in[i].msg.opcode \in ReliableRequired => in[i].msg.reliable

\* The i-th packet, when a change of the graph, continues the graph before it.
DeltaFits(s, in, i) ==
    IsControl(in[i], "GraphDelta") =>
        /\ in[i].msg.base # NoGeneration
        /\ in[i].msg.gen = SaturatingSucc(in[i].msg.base)
        /\ (\A j \in 1 .. i - 1 : ~IsGraph(in[j])) => in[i].msg.base = s.generation
        /\ \A j \in 1 .. i - 1 :
              IsGraph(in[j]) /\ (\A k \in j + 1 .. i - 1 : ~IsGraph(in[k]))
              => in[i].msg.base = in[j].msg.gen

\* The i-th packet on its way to the engine is one its session s will accept.
FitsIn(s, in, i) ==
    /\ ReadyFits(s, in, i)
    /\ \A c \in ChannelIds : ChannelFits(s, in, i, c)
    /\ DeltaFits(s, in, i)

\* p is a sample of channel c.
IsSample(p, c) == p.plane = "data" /\ p.msg.opcode = "ROS_SAMPLE" /\ p.msg.ch = c

\* The samples of channel c on the link are numbered from lo without a gap.
Stepwise(link, c, lo) ==
    \A i \in DOMAIN link : IsSample(link[i], c) =>
        /\ (\A j \in 1 .. i - 1 : ~IsSample(link[j], c)) => link[i].seq = lo
        /\ \A j \in 1 .. i - 1 :
              IsSample(link[j], c) /\ (\A k \in j + 1 .. i - 1 : ~IsSample(link[k], c))
              => link[i].seq = link[j].seq + 1

\* The next sample behind those of channel c on the link has the number hi.
UpTo(link, c, lo, hi) ==
    /\ (\A j \in DOMAIN link : ~IsSample(link[j], c)) => lo = hi
    /\ \A j \in DOMAIN link :
          IsSample(link[j], c) /\ (\A k \in j + 1 .. Len(link) : ~IsSample(link[k], c))
          => link[j].seq + 1 = hi

-----------------------------------------------------------------------------
\* A packet is fit for what is before it, whatever comes behind.
LEMMA FitsOutQueued ==
    ASSUME NEW S, NEW out \in Seq(S), NEW x \in S, NEW t,
           \A i \in DOMAIN out : FitsOut(t, out, i),
           FitsOut(t, Append(out, x), Len(out) + 1)
    PROVE  \A i \in DOMAIN Append(out, x) : FitsOut(t, Append(out, x), i)
<1> DEFINE r == Append(out, x)
<1>1. /\ Len(out) \in Nat /\ DOMAIN out = 1 .. Len(out) /\ DOMAIN r = 1 .. Len(out) + 1
      /\ \A i \in 1 .. Len(out) : r[i] = out[i]
  BY Queued
<1> HIDE DEF r
<1>2. ASSUME NEW i \in 1 .. Len(out)
      PROVE  FitsOut(t, r, i)
  <2>1. FitsOut(t, out, i) /\ r[i] = out[i] /\ \A j \in 1 .. i - 1 : r[j] = out[j]
    BY <1>1
  <2> QED  BY <2>1, Zenon DEF FitsOut
<1>3. \A i \in DOMAIN r : i \in 1 .. Len(out) \/ i = Len(out) + 1
  BY <1>1
<1>4. FitsOut(t, r, Len(out) + 1)
  BY DEF r
<1> QED  BY <1>2, <1>3, <1>4 DEF r

\* The gateway's session, behind the engine's by what is in flight, will
\* take what the engine's own session lets it send: the hello,
LEMMA HelloFits ==
    ASSUME NEW out \in Seq(ClientPacket), NEW in, NEW s, NEW t, NEW x \in ClientPacket,
           Joint(s, t, out, in), s.phase = "AwaitClientHello",
           x.plane = "bootstrap"
    PROVE  FitsOut(t, Append(out, x), Len(out) + 1)
<1> DEFINE r == Append(out, x)
           n == Len(out) + 1
<1>1. /\ Len(out) \in Nat /\ DOMAIN out = 1 .. Len(out)
      /\ \A i \in 1 .. Len(out) : r[i] = out[i] /\ out[i] \in ClientPacket
      /\ r[n] = x /\ \A j \in 1 .. n - 1 : j \in 1 .. Len(out)
  BY Queued
<1> HIDE DEF r, n
<1>2. \A p \in ClientPacket : p.plane = "bootstrap" => IsBootstrap(p, "ClientHello")
  BY DEF ClientPacket, IsBootstrap
<1>3. t.phase = "AwaitClientHello"
  BY DEF Joint, Phases, PhasePairs
<1>4. \A i \in 1 .. Len(out) : out[i].plane # "bootstrap"
  BY <1>1, <1>2 DEF Joint, Phases, PhasesOut
<1>5. \A c : /\ ~About(x, "OpenChannel", c) /\ ~About(x, "CloseChannel", c)
             /\ ~OnChannel(x, c) /\ ~IsControl(x, "Authenticate")
  BY DEF About, OnChannel, IsControl
<1>6. FitsOut(t, r, n)
  BY <1>1, <1>3, <1>4, <1>5 DEF FitsOut
<1> QED  BY <1>6 DEF r, n

\* a control message,
LEMMA ControlFits ==
    ASSUME NEW out \in Seq(ClientPacket), NEW in, NEW s, NEW t, NEW x \in ClientPacket,
           NEW m \in ClientControl, Joint(s, t, out, in),
           AcceptsControl(s, m, Client), x.plane = "control", x.msg = m
    PROVE  FitsOut(t, Append(out, x), Len(out) + 1)
<1> DEFINE r == Append(out, x)
           n == Len(out) + 1
<1>1. /\ Len(out) \in Nat /\ DOMAIN out = 1 .. Len(out)
      /\ \A i \in 1 .. Len(out) : r[i] = out[i]
      /\ r[n] = x /\ \A j \in 1 .. n - 1 : j \in 1 .. Len(out)
  BY Queued
<1> HIDE DEF r, n
<1>2. /\ m.type \in {"Authenticate", "Heartbeat", "OpenChannel", "CloseChannel"}
      /\ m.type \in {"OpenChannel", "CloseChannel"} => m.ch \in ChannelIds
  BY ClientControlTypes
<1>3. /\ ~IsTerminal(s.phase) /\ InSelectedPlane(s.phase)
      /\ Client \in ControlSenders(m.type)
      /\ m.type \in {"Heartbeat", "OpenChannel", "CloseChannel"} => s.phase = "Ready"
      /\ m.type = "Authenticate" => s.phase = "SelectedAwaitAuthenticate"
      /\ m.type = "OpenChannel" => m.ch # 0 /\ s.chan[m.ch].state = "Unused"
      /\ m.type = "CloseChannel" => s.chan[m.ch].state = "Active"
  BY DEF AcceptsControl, ReadyRequired, AcceptsOpenChannel, AcceptsCloseChannel
<1>4. /\ m.type \in {"Heartbeat", "OpenChannel", "CloseChannel"} => t.phase = "Ready"
      /\ m.type = "Authenticate" => t.phase = "SelectedAwaitAuthenticate"
  BY <1>3 DEF Joint, Phases, PhasePairs
<1>5. /\ m.type = "OpenChannel" => t.chan[m.ch].state = "Unused"
      /\ m.type = "CloseChannel" => t.chan[m.ch].state = "Active"
  BY <1>2, <1>3 DEF Joint, View, ViewPairs
<1>6. AcceptsControl(t, m, Client)
  BY <1>2, <1>3, <1>4, <1>5 DEF AcceptsControl, ReadyRequired, AcceptsOpenChannel,
     AcceptsCloseChannel, IsTerminal, InSelectedPlane
<1>7. ASSUME m.type = "Authenticate", NEW j \in 1 .. Len(out)
      PROVE  ~IsControl(out[j], "Authenticate")
  BY <1>1, <1>3, <1>7 DEF Joint, Phases, PhasesOut
<1>8. ASSUME m.type = "OpenChannel", NEW j \in 1 .. Len(out)
      PROVE  ~About(out[j], "OpenChannel", m.ch)
  BY <1>1, <1>2, <1>3, <1>8 DEF Joint, View, ExplainedOut
<1>9. ASSUME m.type = "CloseChannel", NEW j \in 1 .. Len(out)
      PROVE  ~About(out[j], "CloseChannel", m.ch)
  BY <1>1, <1>2, <1>3, <1>9 DEF Joint, View, ExplainedOut
<1>10. \A c : /\ About(x, "OpenChannel", c) => m.type = "OpenChannel" /\ c = m.ch
              /\ About(x, "CloseChannel", c) => m.type = "CloseChannel" /\ c = m.ch
              /\ ~OnChannel(x, c)
              /\ IsControl(x, "Authenticate") => m.type = "Authenticate"
  BY DEF About, OnChannel, IsControl
<1>11. FitsOut(t, r, n)
  BY <1>1, <1>6, <1>7, <1>8, <1>9, <1>10 DEF FitsOut
<1> QED  BY <1>11 DEF r, n

\* and a data frame.
LEMMA DataFits ==
    ASSUME NEW out \in Seq(ClientPacket), NEW in, NEW s, NEW t, NEW x \in ClientPacket,
           Joint(s, t, out, in), AcceptsData(s, x.msg, Client), x.plane = "data"
    PROVE  FitsOut(t, Append(out, x), Len(out) + 1)
<1> DEFINE r == Append(out, x)
           n == Len(out) + 1
           f == x.msg
<1>1. /\ Len(out) \in Nat /\ DOMAIN out = 1 .. Len(out)
      /\ \A i \in 1 .. Len(out) : r[i] = out[i]
      /\ r[n] = x /\ \A j \in 1 .. n - 1 : j \in 1 .. Len(out)
  BY Queued
<1> HIDE DEF r, n
<1>2. s.phase = "Ready" /\ f.ch \in ChannelIds /\ s.chan[f.ch].state = "Active"
  BY DEF AcceptsData
<1>3. t.phase = "Ready"
  BY <1>2 DEF Joint, Phases, PhasePairs
<1>4. /\ t.chan[f.ch].state = "Active" /\ t.chan[f.ch].kind = s.chan[f.ch].kind
      /\ \A j \in 1 .. Len(out) : ~About(out[j], "CloseChannel", f.ch)
  BY <1>1, <1>2 DEF Joint, View, ViewPairs, ExplainedOut
<1>5. AcceptsData(t, f, Client)
  BY <1>2, <1>3, <1>4 DEF AcceptsData
<1>6. \A c : /\ ~About(x, "OpenChannel", c) /\ ~About(x, "CloseChannel", c)
             /\ OnChannel(x, c) => c = f.ch
             /\ ~IsControl(x, "Authenticate")
  BY DEF About, OnChannel, IsControl
<1>7. FitsOut(t, r, n)
  BY <1>1, <1>4, <1>5, <1>6 DEF FitsOut
<1> QED  BY <1>7 DEF r, n

\* Before the session is ready the client has one packet in flight: nothing
\* fits behind a hello or an Authenticate.
LEMMA FitsOutAlone ==
    ASSUME NEW out \in Seq(ClientPacket), out # <<>>, NEW t,
           \A i \in DOMAIN out : FitsOut(t, out, i), t.phase # "Ready"
    PROVE  DOMAIN Tail(out) = {}
<1>1. /\ Len(out) \in Nat \ {0} /\ DOMAIN out = 1 .. Len(out)
      /\ DOMAIN Tail(out) = 1 .. Len(out) - 1
      /\ \A i \in 1 .. Len(out) : out[i] \in ClientPacket
  BY Taken
<1>2. ASSUME NEW i \in 1 .. Len(out)
      PROVE  \/ out[i].plane = "bootstrap" /\ t.phase = "AwaitClientHello"
             \/ /\ IsControl(out[i], "Authenticate")
                /\ t.phase = "SelectedAwaitAuthenticate"
  <2>1. FitsOut(t, out, i) /\ out[i] \in ClientPacket
    BY <1>1
  <2>2. \/ out[i].plane = "bootstrap"
        \/ out[i].plane = "control" /\ out[i].msg \in ClientControl
        \/ out[i].plane = "data"
    BY <2>1 DEF ClientPacket
  <2>3. CASE out[i].plane = "control" /\ out[i].msg \in ClientControl
    <3>1. AcceptsControl(t, out[i].msg, Client)
      BY <2>1, <2>3 DEF FitsOut
    <3>2. out[i].msg.type \in {"Authenticate", "Heartbeat", "OpenChannel", "CloseChannel"}
      BY <2>3, ClientControlTypes
    <3> QED  BY <2>3, <3>1, <3>2 DEF AcceptsControl, ReadyRequired, IsControl
  <2> QED  BY <2>1, <2>2, <2>3 DEF FitsOut, AcceptsData
<1>3. ASSUME Len(out) > 1 PROVE FALSE
  <2>1. 1 \in 1 .. Len(out) /\ 2 \in 1 .. Len(out) /\ 1 \in 1 .. 2 - 1
    BY <1>1, <1>3
  <2>2. FitsOut(t, out, 2)
    BY <1>1, <2>1
  <2> QED  BY <1>2, <2>1, <2>2 DEF FitsOut
<1> QED  BY <1>1, <1>3

\* The gateway's session takes the head: the others still fit, whether the
\* head opened a channel, closed one or changed nothing.
LEMMA FitsOutTaken ==
    ASSUME NEW out \in Seq(ClientPacket), out # <<>>, NEW t, NEW t2,
           \A i \in DOMAIN out : FitsOut(t, out, i),
           t.phase = "Ready" => t2.phase = "Ready",
           \A d \in ChannelIds : \/ t2.chan[d] = t.chan[d]
                                 \/ About(Head(out), "OpenChannel", d)
                                 \/ About(Head(out), "CloseChannel", d)
    PROVE  \A i \in DOMAIN Tail(out) : FitsOut(t2, Tail(out), i)
<1> DEFINE r == Tail(out)
<1>1. /\ Len(out) \in Nat \ {0} /\ DOMAIN out = 1 .. Len(out) /\ Head(out) = out[1]
      /\ DOMAIN r = 1 .. Len(out) - 1
      /\ \A i \in 1 .. Len(out) - 1 : r[i] = out[i + 1]
      /\ \A i \in 1 .. Len(out) : out[i] \in ClientPacket
  BY Taken
<1>2. CASE t.phase # "Ready"
  BY <1>2, FitsOutAlone
<1>3. ASSUME t.phase = "Ready", NEW i \in DOMAIN r
      PROVE  FitsOut(t2, r, i)
  <2> DEFINE p == out[i + 1]
             h == out[1]
  <2> HIDE DEF r
  <2>1. /\ FitsOut(t, out, i + 1) /\ r[i] = p /\ p \in ClientPacket
        /\ \A j \in 1 .. i - 1 : r[j] = out[j + 1] /\ j + 1 \in 1 .. (i + 1) - 1
        /\ 1 \in 1 .. (i + 1) - 1
        /\ FitsOut(t, out, 1) /\ h \in ClientPacket
    <3>1. i \in 1 .. Len(out) - 1 /\ i + 1 \in DOMAIN out /\ 1 \in DOMAIN out
      BY <1>1, <1>3
    <3>2. \A j \in 1 .. i - 1 : j \in 1 .. Len(out) - 1 /\ j + 1 \in 1 .. (i + 1) - 1
      BY <1>1, <3>1
    <3>3. 1 \in 1 .. (i + 1) - 1
      BY <3>1
    <3> QED  BY <1>1, <3>1, <3>2, <3>3
  <2> HIDE DEF p, h
  <2>2. p.plane # "bootstrap"
    BY <1>3, <2>1 DEF FitsOut, p
  <2>3. ASSUME NEW d \in ChannelIds, About(p, "OpenChannel", d)
        PROVE  t2.chan[d] = t.chan[d]
    <3>1. t.chan[d].state = "Unused"
      BY <2>1, <2>3 DEF FitsOut, About, AcceptsControl, AcceptsOpenChannel, p
    <3>2. ~About(h, "OpenChannel", d)
      BY <2>1, <2>3 DEF FitsOut, p, h
    <3>3. ~About(h, "CloseChannel", d)
      BY <2>1, <3>1 DEF FitsOut, About, AcceptsControl, AcceptsCloseChannel, h
    <3> QED  BY <1>1, <3>2, <3>3 DEF h
  <2>4. ASSUME NEW d \in ChannelIds, About(p, "CloseChannel", d) \/ OnChannel(p, d)
        PROVE  t2.chan[d] = t.chan[d]
    <3>1. t.chan[d].state = "Active"
      BY <2>1, <2>4 DEF FitsOut, About, OnChannel, AcceptsControl, AcceptsCloseChannel,
         AcceptsData, p
    <3>2. ~About(h, "CloseChannel", d)
      BY <2>1, <2>4 DEF FitsOut, p, h
    <3>3. ~About(h, "OpenChannel", d)
      BY <2>1, <3>1 DEF FitsOut, About, AcceptsControl, AcceptsOpenChannel, h
    <3> QED  BY <1>1, <3>2, <3>3 DEF h
  <2>5. p.plane = "control" => AcceptsControl(t2, p.msg, Client)
    <3> SUFFICES ASSUME p.plane = "control" PROVE AcceptsControl(t2, p.msg, Client)
      OBVIOUS
    <3>1. AcceptsControl(t, p.msg, Client) /\ p.msg \in ClientControl
      BY <2>1 DEF FitsOut, p, ClientPacket
    <3>2. /\ p.msg.type \in {"Authenticate", "Heartbeat", "OpenChannel", "CloseChannel"}
          /\ p.msg.type \in {"OpenChannel", "CloseChannel"} =>
                p.msg.ch \in ChannelIds /\ t2.chan[p.msg.ch] = t.chan[p.msg.ch]
      BY <2>3, <2>4, <3>1, ClientControlTypes DEF About
    <3> QED  BY <1>3, <3>1, <3>2 DEF AcceptsControl, AcceptsOpenChannel,
             AcceptsCloseChannel
  <2>6. p.plane = "data" => AcceptsData(t2, p.msg, Client)
    <3> SUFFICES ASSUME p.plane = "data" PROVE AcceptsData(t2, p.msg, Client)
      OBVIOUS
    <3>1. AcceptsData(t, p.msg, Client)
      BY <2>1 DEF FitsOut, p
    <3>2. p.msg.ch \in ChannelIds /\ OnChannel(p, p.msg.ch)
      BY <3>1 DEF AcceptsData, OnChannel
    <3>3. t2.chan[p.msg.ch] = t.chan[p.msg.ch]
      BY <2>4, <3>2
    <3> QED  BY <1>3, <3>1, <3>3 DEF AcceptsData
  <2>7. /\ IsControl(p, "Authenticate") =>
              \A j \in 1 .. i - 1 : ~IsControl(r[j], "Authenticate")
        /\ \A c \in ChannelIds : About(p, "OpenChannel", c) =>
              \A j \in 1 .. i - 1 : ~About(r[j], "OpenChannel", c)
        /\ \A c \in ChannelIds : About(p, "CloseChannel", c) \/ OnChannel(p, c) =>
              \A j \in 1 .. i - 1 : ~About(r[j], "CloseChannel", c)
    BY <2>1 DEF FitsOut, p
  <2> QED  BY <2>1, <2>2, <2>5, <2>6, <2>7 DEF FitsOut
<1> QED  BY <1>2, <1>3 DEF r

-----------------------------------------------------------------------------
(* The packets in flight to the engine. *)

\* The engine has heard, or will have heard, that the session is ready.
ReadyAhead(s, in) ==
    s.phase = "Ready" \/ \E j \in DOMAIN in : IsControl(in[j], "SessionReady")

\* What is before a packet does not change when another is queued.
LEMMA FitsInQueued ==
    ASSUME NEW S, NEW in \in Seq(S), NEW x \in S, NEW s,
           \A i \in DOMAIN in : FitsIn(s, in, i),
           FitsIn(s, Append(in, x), Len(in) + 1)
    PROVE  \A i \in DOMAIN Append(in, x) : FitsIn(s, Append(in, x), i)
<1> DEFINE r == Append(in, x)
<1>1. /\ Len(in) \in Nat /\ DOMAIN in = 1 .. Len(in) /\ DOMAIN r = 1 .. Len(in) + 1
      /\ \A i \in 1 .. Len(in) : r[i] = in[i]
  BY Queued
<1> HIDE DEF r
<1>2. ASSUME NEW i \in 1 .. Len(in)
      PROVE  FitsIn(s, r, i)
  <2>1. FitsIn(s, in, i) /\ r[i] = in[i] /\ \A j \in 1 .. i - 1 : r[j] = in[j]
    BY <1>1
  <2>2. ReadyFits(s, r, i)
    BY <2>1, Zenon DEF FitsIn, ReadyFits
  <2>3. \A c \in ChannelIds : ChannelFits(s, r, i, c)
    BY <2>1, Zenon DEF FitsIn, ChannelFits
  <2>4. DeltaFits(s, r, i)
    <3>1. \A j \in 1 .. i - 1 : \A k \in j + 1 .. i - 1 : k \in 1 .. i - 1
      BY <1>1
    <3> QED  BY <2>1, <3>1, Zenon DEF FitsIn, DeltaFits
  <2> QED  BY <2>2, <2>3, <2>4 DEF FitsIn
<1>3. \A i \in DOMAIN r : i \in 1 .. Len(in) \/ i = Len(in) + 1
  BY <1>1
<1>4. FitsIn(s, r, Len(in) + 1)
  BY DEF r
<1> QED  BY <1>2, <1>3, <1>4 DEF r

\* A packet that is neither about a channel nor a change of the graph.
LEMMA PlainFits ==
    ASSUME NEW S, NEW in \in Seq(S), NEW x \in S, NEW s,
           \/ /\ x.plane = "bootstrap" /\ ~InSelectedPlane(s.phase)
              /\ \A j \in DOMAIN in : ~IsBootstrap(in[j], "ServerHello")
           \/ /\ IsControl(x, "SessionReady") /\ s.phase = "SelectedAwaitSessionReady"
              /\ \A j \in DOMAIN in : ~IsControl(in[j], "SessionReady")
           \/ /\ IsControl(x, "Heartbeat") \/ IsControl(x, "GraphSnapshot")
              /\ ReadyAhead(s, in)
           \/ x.plane = "control" /\ x.msg = SessionError
    PROVE  FitsIn(s, Append(in, x), Len(in) + 1)
<1> DEFINE r == Append(in, x)
           n == Len(in) + 1
<1>1. /\ Len(in) \in Nat /\ DOMAIN in = 1 .. Len(in)
      /\ \A i \in 1 .. Len(in) : r[i] = in[i]
      /\ r[n] = x /\ 1 .. n - 1 = 1 .. Len(in)
  BY Queued
<1> HIDE DEF r, n
<1>2. /\ \A c \in ChannelIds : c # NoChannel
      /\ SessionError.type = "Error" /\ SessionError.ch = NoChannel
  BY ChannelIdsAssumption DEF NoChannel, SessionError
<1>3. \A c \in ChannelIds : /\ ~About(x, "ChannelReady", c) /\ ~About(x, "Error", c)
                            /\ ~OnChannel(x, c)
  BY <1>2 DEF About, OnChannel, IsControl
<1>4. ~IsControl(x, "GraphDelta")
  BY <1>2 DEF IsControl
<1>5. ReadyFits(s, r, n)
  BY <1>1, <1>2 DEF ReadyFits, ReadyAhead, NeedsReady, IsControl, IsBootstrap
<1>6. FitsIn(s, r, n)
  BY <1>1, <1>3, <1>4, <1>5 DEF FitsIn, ChannelFits, DeltaFits
<1> QED  BY <1>6 DEF r, n

\* An update of the graph, on the generation the last one left.
LEMMA DeltaPushed ==
    ASSUME NEW S, NEW in \in Seq(S), NEW x \in S, NEW s,
           IsControl(x, "GraphDelta"), ReadyAhead(s, in),
           x.msg.base # NoGeneration, x.msg.gen = SaturatingSucc(x.msg.base),
           Generations(s.generation, x.msg.base, in)
    PROVE  FitsIn(s, Append(in, x), Len(in) + 1)
<1> DEFINE r == Append(in, x)
           n == Len(in) + 1
<1>1. /\ Len(in) \in Nat /\ DOMAIN in = 1 .. Len(in)
      /\ \A i \in 1 .. Len(in) : r[i] = in[i]
      /\ r[n] = x /\ 1 .. n - 1 = 1 .. Len(in) /\ n - 1 = Len(in)
  BY Queued
<1> HIDE DEF r, n
<1>2. \A c : /\ ~About(x, "ChannelReady", c) /\ ~About(x, "Error", c)
             /\ ~OnChannel(x, c)
  BY DEF About, OnChannel, IsControl
<1>3. ReadyFits(s, r, n)
  BY <1>1 DEF ReadyFits, ReadyAhead, NeedsReady, IsControl
<1>4. (\A j \in 1 .. n - 1 : ~IsGraph(r[j])) => x.msg.base = s.generation
  BY <1>1 DEF Generations
<1>5. ASSUME NEW j \in 1 .. n - 1, IsGraph(r[j]),
             \A k \in j + 1 .. n - 1 : ~IsGraph(r[k])
      PROVE  x.msg.base = r[j].msg.gen
  <2>1. j \in DOMAIN in /\ r[j] = in[j]
    BY <1>1
  <2>2. ASSUME NEW k \in DOMAIN in, j < k PROVE ~IsGraph(in[k])
    <3>1. k \in j + 1 .. n - 1 /\ r[k] = in[k]
      BY <1>1, <2>2
    <3> QED  BY <1>5, <3>1
  <2> QED  BY <1>5, <2>1, <2>2 DEF Generations
<1>6. DeltaFits(s, r, n)
  BY <1>1, <1>4, <1>5 DEF DeltaFits
<1>7. FitsIn(s, r, n)
  BY <1>1, <1>2, <1>3, <1>6 DEF FitsIn, ChannelFits
<1> QED  BY <1>7 DEF r, n

\* The answer to an open, an Error about a channel, a data frame.
LEMMA AnswerPushed ==
    ASSUME NEW S, NEW in \in Seq(S), NEW x \in S, NEW s, NEW c \in ChannelIds,
           About(x, "ChannelReady", c), ReadyAhead(s, in),
           s.chan[c].state = "Pending",
           \A j \in DOMAIN in : ~About(in[j], "ChannelReady", c)
    PROVE  FitsIn(s, Append(in, x), Len(in) + 1)
<1> DEFINE r == Append(in, x)
           n == Len(in) + 1
<1>1. /\ Len(in) \in Nat /\ DOMAIN in = 1 .. Len(in)
      /\ \A i \in 1 .. Len(in) : r[i] = in[i]
      /\ r[n] = x /\ 1 .. n - 1 = 1 .. Len(in)
  BY Queued
<1> HIDE DEF r, n
<1>2. \A d : /\ About(x, "ChannelReady", d) => d = c
             /\ ~About(x, "Error", d) /\ ~OnChannel(x, d)
  BY DEF About, OnChannel
<1>3. ReadyFits(s, r, n) /\ DeltaFits(s, r, n)
  BY <1>1 DEF ReadyFits, ReadyAhead, NeedsReady, IsControl, About, DeltaFits
<1>4. FitsIn(s, r, n)
  BY <1>1, <1>2, <1>3 DEF FitsIn, ChannelFits
<1> QED  BY <1>4 DEF r, n

\* An error about a channel the engine knows fits behind what is on its way.
LEMMA ErrorPushed ==
    ASSUME NEW S, NEW in \in Seq(S), NEW x \in S, NEW s, NEW c \in ChannelIds,
           About(x, "Error", c), s.chan[c].state # "Unused",
           s.chan[c].state = "Pending" =>
               \E j \in DOMAIN in : About(in[j], "ChannelReady", c)
    PROVE  FitsIn(s, Append(in, x), Len(in) + 1)
<1> DEFINE r == Append(in, x)
           n == Len(in) + 1
<1>1. /\ Len(in) \in Nat /\ DOMAIN in = 1 .. Len(in)
      /\ \A i \in 1 .. Len(in) : r[i] = in[i]
      /\ r[n] = x /\ 1 .. n - 1 = 1 .. Len(in)
  BY Queued
<1> HIDE DEF r, n
<1>2. \A d : /\ About(x, "Error", d) => d = c
             /\ ~About(x, "ChannelReady", d) /\ ~OnChannel(x, d)
  BY DEF About, OnChannel
<1>3. ReadyFits(s, r, n) /\ DeltaFits(s, r, n)
  BY <1>1 DEF ReadyFits, NeedsReady, IsControl, About, DeltaFits
<1>4. FitsIn(s, r, n)
  BY <1>1, <1>2, <1>3 DEF FitsIn, ChannelFits
<1> QED  BY <1>4 DEF r, n

\* A data frame the gateway may send fits the engine's view when it arrives.
LEMMA FramePushed ==
    ASSUME NEW S, NEW in \in Seq(S), NEW x \in S, NEW s, NEW t, NEW out,
           Joint(s, t, out, in), x.plane = "data", AcceptsData(t, x.msg, Server)
    PROVE  FitsIn(s, Append(in, x), Len(in) + 1)
<1> DEFINE r == Append(in, x)
           n == Len(in) + 1
           c == x.msg.ch
<1>1. /\ Len(in) \in Nat /\ DOMAIN in = 1 .. Len(in)
      /\ \A i \in 1 .. Len(in) : r[i] = in[i]
      /\ r[n] = x /\ 1 .. n - 1 = 1 .. Len(in)
  BY Queued
<1> HIDE DEF r, n
<1>2. /\ c \in ChannelIds /\ t.phase = "Ready" /\ t.chan[c].state = "Active"
      /\ Server \in OpcodeSenders(t.chan[c].kind, x.msg.opcode)
      /\ x.msg.opcode \in ServiceActionOpcode =>
            /\ x.msg.opid # "none"
            /\ x.msg.opid = "zero" => x.msg.opcode = "ACTION_STATUS"
      /\ x.msg.opcode \in ReliableRequired => x.msg.reliable
  BY DEF AcceptsData
<1>3. /\ s.chan[c].state \in {"Pending", "Active", "Closed"}
      /\ s.chan[c].kind = t.chan[c].kind
  BY <1>2 DEF Joint, View, ViewPairs
<1>4. ASSUME s.chan[c].state = "Pending"
      PROVE  \E j \in DOMAIN in : /\ About(in[j], "ChannelReady", c)
                                  /\ IsSuccess(in[j].msg.result)
  <2>1. PICK j \in DOMAIN in : About(in[j], "ChannelReady", c)
    BY <1>2, <1>4 DEF Joint, View, UnderwayIn
  <2>2. t.chan[c].state = ResultState(in[j].msg.result)
    BY <1>2, <1>4, <2>1 DEF Joint, View, ExplainedIn
  <2> QED  BY <1>2, <2>1, <2>2 DEF ResultState
<1>5. ReadyAhead(s, in)
  BY <1>2 DEF Joint, Phases, PhasePairs, PhasesIn, ReadyAhead
<1>6. \A d : /\ OnChannel(x, d) => d = c
             /\ ~About(x, "ChannelReady", d) /\ ~About(x, "Error", d)
  BY DEF About, OnChannel
<1>7. ReadyFits(s, r, n) /\ DeltaFits(s, r, n)
  BY <1>1, <1>5 DEF ReadyFits, ReadyAhead, NeedsReady, IsControl, DeltaFits
<1>8. ChannelFits(s, r, n, c)
  <2>1. s.chan[c].state = "Pending" =>
           \E j \in 1 .. n - 1 : /\ About(r[j], "ChannelReady", c)
                                 /\ IsSuccess(r[j].msg.result)
    BY <1>1, <1>4
  <2> QED  BY <1>1, <1>2, <1>3, <1>6, <2>1 DEF ChannelFits
<1>9. \A d \in ChannelIds : ChannelFits(s, r, n, d)
  BY <1>1, <1>6, <1>8 DEF ChannelFits
<1>10. FitsIn(s, r, n)
  BY <1>7, <1>9 DEF FitsIn
<1> QED  BY <1>10 DEF r, n

\* A ready gateway has told the engine so; and telling once more does not
\* take it back.
LEMMA ReadyToldAhead ==
    ASSUME NEW s, NEW t, NEW out, NEW in, Joint(s, t, out, in), t.phase = "Ready"
    PROVE  ReadyAhead(s, in)
  BY DEF Joint, Phases, PhasePairs, PhasesIn, ReadyAhead

\* The answer that makes the session ready stays ahead of what is queued.
LEMMA ReadyStaysAhead ==
    ASSUME NEW S, NEW in \in Seq(S), NEW x \in S, NEW s,
           ReadyAhead(s, in) \/ IsControl(x, "SessionReady")
    PROVE  ReadyAhead(s, Append(in, x))
<1>1. /\ Len(in) \in Nat /\ DOMAIN in = 1 .. Len(in)
      /\ DOMAIN Append(in, x) = 1 .. Len(in) + 1
      /\ \A i \in 1 .. Len(in) : Append(in, x)[i] = in[i]
      /\ Append(in, x)[Len(in) + 1] = x
  BY Queued
<1>2. Len(in) + 1 \in DOMAIN Append(in, x) /\ \A j \in DOMAIN in : j \in DOMAIN Append(in, x)
  BY <1>1
<1> QED  BY <1>1, <1>2 DEF ReadyAhead

\* A command moves the engine's session and leaves what is on its way fit.
LEMMA FitsInSent ==
    ASSUME NEW in, NEW s, NEW s2,
           \A i \in DOMAIN in : FitsIn(s, in, i),
           \/ s2.phase = s.phase
           \/ s.phase = "AwaitClientHello" /\ s2.phase = "AwaitServerHello"
           \/ /\ s.phase = "SelectedAwaitAuthenticate"
              /\ s2.phase = "SelectedAwaitSessionReady",
           s2.generation = s.generation,
           \A c \in ChannelIds :
               \/ s2.chan[c] = s.chan[c]
               \/ s.chan[c].state = "Unused"
               \/ /\ s.chan[c].state = "Active" /\ s2.chan[c].state = "Closed"
                  /\ s2.chan[c].kind = s.chan[c].kind
    PROVE  \A i \in DOMAIN in : FitsIn(s2, in, i)
<1> SUFFICES ASSUME NEW i \in DOMAIN in PROVE FitsIn(s2, in, i)
  OBVIOUS
<1>1. ReadyFits(s2, in, i)
  BY DEF FitsIn, ReadyFits, InSelectedPlane
<1>2. ASSUME NEW c \in ChannelIds PROVE ChannelFits(s2, in, i, c)
  <2>1. ChannelFits(s, in, i, c)
    BY DEF FitsIn
  <2>2. CASE s2.chan[c] = s.chan[c]
    BY <2>1, <2>2 DEF ChannelFits
  <2>3. CASE s.chan[c].state = "Unused"
    BY <2>1, <2>3 DEF ChannelFits
  <2>4. CASE /\ s.chan[c].state = "Active" /\ s2.chan[c].state = "Closed"
             /\ s2.chan[c].kind = s.chan[c].kind
    BY <2>1, <2>4 DEF ChannelFits
  <2> QED  BY <2>2, <2>3, <2>4
<1>3. DeltaFits(s2, in, i)
  BY DEF FitsIn, DeltaFits
<1> QED  BY <1>1, <1>2, <1>3 DEF FitsIn

\* The engine takes the head, and its session has moved by it.
LEMMA FitsInTaken ==
    ASSUME NEW S, NEW in \in Seq(S), in # <<>>, NEW s, NEW s2,
           \A i \in DOMAIN in : FitsIn(s, in, i),
           IsBootstrap(Head(in), "ServerHello") =>
               s2.phase = "SelectedAwaitAuthenticate",
           Head(in).plane = "bootstrap" => IsBootstrap(Head(in), "ServerHello"),
           IsControl(Head(in), "SessionReady") => s2.phase = "Ready",
           ~IsBootstrap(Head(in), "ServerHello") /\ ~IsControl(Head(in), "SessionReady")
               => s2.phase = s.phase,
           \A c \in ChannelIds :
               IF About(Head(in), "ChannelReady", c)
               THEN /\ s2.chan[c].state = ResultState(Head(in).msg.result)
                    /\ s2.chan[c].kind = s.chan[c].kind
               ELSE s2.chan[c] = s.chan[c],
           s2.generation = IF IsGraph(Head(in)) THEN Head(in).msg.gen ELSE s.generation
    PROVE  \A i \in DOMAIN Tail(in) : FitsIn(s2, Tail(in), i)
<1> DEFINE r == Tail(in)
<1>1. /\ Len(in) \in Nat \ {0} /\ DOMAIN in = 1 .. Len(in) /\ Head(in) = in[1]
      /\ DOMAIN r = 1 .. Len(in) - 1
      /\ \A i \in 1 .. Len(in) - 1 : r[i] = in[i + 1]
  BY Taken
<1> HIDE DEF r
<1> DEFINE h == in[1]
<1> SUFFICES ASSUME NEW i \in DOMAIN r PROVE FitsIn(s2, r, i)
  BY DEF r
<1>2. /\ FitsIn(s, in, i + 1) /\ r[i] = in[i + 1] /\ FitsIn(s, in, 1)
      /\ \A j \in 1 .. i - 1 : /\ r[j] = in[j + 1] /\ j + 1 \in 1 .. (i + 1) - 1
                               /\ \A k \in j + 1 .. i - 1 : r[k] = in[k + 1]
      /\ 1 \in 1 .. (i + 1) - 1
      /\ \A j \in 1 .. (i + 1) - 1 : j = 1 \/ (j - 1 \in 1 .. i - 1 /\ r[j - 1] = in[j])
      /\ \A j \in 1 .. (i + 1) - 1 : FitsIn(s, in, j)
  <2>1. /\ i \in 1 .. Len(in) - 1 /\ i + 1 \in DOMAIN in /\ 1 \in DOMAIN in
        /\ (i + 1) - 1 = i /\ i \in Nat
    BY <1>1
  <2>2. \A j \in 1 .. i - 1 : /\ r[j] = in[j + 1] /\ j + 1 \in 1 .. i
                               /\ \A k \in j + 1 .. i - 1 : r[k] = in[k + 1]
    BY <1>1, <2>1
  <2>3. /\ 1 \in 1 .. i
        /\ \A j \in 1 .. i : j = 1 \/ (j - 1 \in 1 .. i - 1 /\ r[j - 1] = in[j])
        /\ \A j \in 1 .. i : j \in DOMAIN in
    BY <1>1, <2>1
  <2> QED  BY <1>1, <2>1, <2>2, <2>3
<1> DEFINE p == r[i]
<1>3. ReadyFits(s2, r, i)
  <2>1. ReadyFits(s, in, i + 1) /\ ReadyFits(s, in, 1)
        /\ \A j \in 1 .. (i + 1) - 1 : ReadyFits(s, in, j)
    BY <1>2 DEF FitsIn
  <2>2. ASSUME p.plane = "bootstrap"
        PROVE  /\ ~InSelectedPlane(s2.phase)
               /\ \A j \in 1 .. i - 1 : ~IsBootstrap(r[j], "ServerHello")
    <3>1. ~InSelectedPlane(s.phase) /\ ~IsBootstrap(h, "ServerHello")
          /\ \A j \in 1 .. i - 1 : ~IsBootstrap(r[j], "ServerHello")
      BY <1>2, <2>1, <2>2 DEF ReadyFits
    <3>2. ~IsControl(h, "SessionReady")
      BY <2>1, <3>1 DEF ReadyFits, InSelectedPlane
    <3> QED  BY <1>1, <3>1, <3>2
  <2>3. ASSUME IsControl(p, "SessionReady")
        PROVE  /\ s2.phase = "SelectedAwaitSessionReady"
               /\ \A j \in 1 .. i - 1 : ~IsControl(r[j], "SessionReady")
    <3>1. s.phase = "SelectedAwaitSessionReady" /\ ~IsControl(h, "SessionReady")
          /\ \A j \in 1 .. i - 1 : ~IsControl(r[j], "SessionReady")
      BY <1>2, <2>1, <2>3 DEF ReadyFits
    <3>2. ~IsBootstrap(h, "ServerHello")
      BY <2>1, <3>1 DEF ReadyFits, InSelectedPlane, IsBootstrap
    <3> QED  BY <1>1, <3>1, <3>2
  <2>4. ASSUME NeedsReady(p)
        PROVE  \/ s2.phase = "Ready"
               \/ \E j \in 1 .. i - 1 : IsControl(r[j], "SessionReady")
    <3>1. CASE IsControl(h, "SessionReady")
      BY <1>1, <3>1
    <3>2. CASE s.phase = "Ready"
      <4>1. ~IsBootstrap(h, "ServerHello") /\ ~IsControl(h, "SessionReady")
        BY <2>1, <3>2 DEF ReadyFits, InSelectedPlane, IsBootstrap
      <4> QED  BY <1>1, <3>2, <4>1
    <3>3. CASE ~IsControl(h, "SessionReady") /\ s.phase # "Ready"
      <4>1. PICK j \in 1 .. (i + 1) - 1 : IsControl(in[j], "SessionReady")
        BY <1>2, <2>1, <2>4, <3>3 DEF ReadyFits
      <4>2. j - 1 \in 1 .. i - 1 /\ r[j - 1] = in[j]
        BY <1>2, <3>3, <4>1
      <4> QED  BY <4>1, <4>2
    <3> QED  BY <3>1, <3>2, <3>3
  <2> QED  BY <2>2, <2>3, <2>4 DEF ReadyFits
<1>4. ASSUME NEW c \in ChannelIds PROVE ChannelFits(s2, r, i, c)
  <2>1. ChannelFits(s, in, i + 1, c) /\ ChannelFits(s, in, 1, c)
        /\ \A j \in 1 .. (i + 1) - 1 : ChannelFits(s, in, j, c)
    BY <1>2 DEF FitsIn
  <2>2. CASE About(h, "ChannelReady", c)
    <3>1. /\ s.chan[c].state = "Pending" /\ s2.chan[c].kind = s.chan[c].kind
          /\ s2.chan[c].state = ResultState(h.msg.result)
          /\ ~About(p, "ChannelReady", c)
      BY <1>1, <1>2, <2>1, <2>2 DEF ChannelFits
    <3>2. ASSUME OnChannel(p, c) PROVE s2.chan[c].state = "Active"
      <4>1. PICK j \in 1 .. (i + 1) - 1 : /\ About(in[j], "ChannelReady", c)
                                          /\ IsSuccess(in[j].msg.result)
        BY <1>2, <2>1, <3>1, <3>2 DEF ChannelFits
      <4>2. \A k \in 1 .. j - 1 : ~About(in[k], "ChannelReady", c)
        BY <2>1, <4>1 DEF ChannelFits
      <4>3. j = 1
        <5>1. j # 1 => 1 \in 1 .. j - 1
          BY <1>1
        <5> QED  BY <2>2, <4>2, <5>1
      <4> QED  BY <3>1, <4>1, <4>3 DEF ResultState
    <3>3. s2.chan[c].state \in {"Active", "Failed"}
      BY <3>1 DEF ResultState
    <3> QED  BY <1>2, <2>1, <3>1, <3>2, <3>3 DEF ChannelFits
  <2>3. CASE ~About(h, "ChannelReady", c)
    <3>1. s2.chan[c] = s.chan[c]
      BY <1>1, <2>3
    <3>2. About(p, "ChannelReady", c) =>
             /\ s.chan[c].state = "Pending"
             /\ \A j \in 1 .. i - 1 : ~About(r[j], "ChannelReady", c)
      BY <1>2, <2>1 DEF ChannelFits
    <3>3. ASSUME About(p, "Error", c)
          PROVE  /\ s.chan[c].state # "Unused"
                 /\ s.chan[c].state = "Pending" =>
                       \E j \in 1 .. i - 1 : About(r[j], "ChannelReady", c)
      BY <1>2, <2>1, <2>3, <3>3 DEF ChannelFits
    <3>4. ASSUME OnChannel(p, c), s.chan[c].state = "Pending"
          PROVE  \E j \in 1 .. i - 1 : /\ About(r[j], "ChannelReady", c)
                                       /\ IsSuccess(r[j].msg.result)
      BY <1>2, <2>1, <2>3, <3>4 DEF ChannelFits
    <3> QED  BY <1>2, <2>1, <3>1, <3>2, <3>3, <3>4 DEF ChannelFits
  <2> QED  BY <2>2, <2>3
<1>5. DeltaFits(s2, r, i)
  <2> SUFFICES ASSUME IsControl(p, "GraphDelta") PROVE DeltaFits(s2, r, i)
    BY DEF DeltaFits
  <2>1. DeltaFits(s, in, i + 1)
    BY <1>2 DEF FitsIn
  <2>2. ASSUME NEW j \in 1 .. i - 1, IsGraph(r[j]),
               \A k \in j + 1 .. i - 1 : ~IsGraph(r[k])
        PROVE  p.msg.base = r[j].msg.gen
    <3>1. ASSUME NEW k \in (j + 1) + 1 .. (i + 1) - 1 PROVE ~IsGraph(in[k])
      <4>1. k - 1 \in j + 1 .. i - 1 /\ r[k - 1] = in[k]
        BY <1>1, <1>2
      <4> QED  BY <2>2, <4>1
    <3>2. j + 1 \in 1 .. (i + 1) - 1 /\ r[j] = in[j + 1]
      BY <1>2
    <3> QED  BY <1>2, <2>1, <2>2, <3>1, <3>2 DEF DeltaFits
  <2>3. ASSUME \A j \in 1 .. i - 1 : ~IsGraph(r[j])
        PROVE  p.msg.base = s2.generation
    <3>1. ASSUME NEW k \in 1 + 1 .. (i + 1) - 1 PROVE ~IsGraph(in[k])
      <4>1. k - 1 \in 1 .. i - 1 /\ r[k - 1] = in[k]
        BY <1>1, <1>2
      <4> QED  BY <2>3, <4>1
    <3>2. CASE IsGraph(h)
      BY <1>1, <1>2, <2>1, <3>1, <3>2 DEF DeltaFits
    <3>3. CASE ~IsGraph(h)
      <4>1. \A k \in 1 .. (i + 1) - 1 : ~IsGraph(in[k])
        BY <1>2, <2>3, <3>3
      <4> QED  BY <1>1, <1>2, <2>1, <3>3, <4>1 DEF DeltaFits
    <3> QED  BY <3>2, <3>3
  <2> QED  BY <1>2, <2>1, <2>2, <2>3 DEF DeltaFits
<1> QED  BY <1>3, <1>4, <1>5 DEF FitsIn

\* The numbers of a channel's samples in a stream, when a packet is taken
\* that is not one of them, or is;
LEMMA SamplesTake ==
    ASSUME NEW S, NEW q \in Seq(S), q # <<>>, NEW c, NEW lo, NEW hi, NEW n,
           n = IF IsSample(Head(q), c) THEN Head(q).seq + 1 ELSE lo
    PROVE  /\ Stepwise(q, c, lo) => Stepwise(Tail(q), c, n)
           /\ UpTo(q, c, lo, hi) => UpTo(Tail(q), c, n, hi)
<1> DEFINE r == Tail(q)
           h == q[1]
<1>1. /\ Len(q) \in Nat \ {0} /\ DOMAIN q = 1 .. Len(q) /\ Head(q) = h
      /\ DOMAIN r = 1 .. Len(q) - 1 /\ Len(r) = Len(q) - 1
      /\ \A i \in 1 .. Len(q) - 1 : r[i] = q[i + 1]
  BY Taken
<1> HIDE DEF r, h
<1>2. ASSUME Stepwise(q, c, lo), NEW i \in DOMAIN r, IsSample(r[i], c)
      PROVE  /\ (\A j \in 1 .. i - 1 : ~IsSample(r[j], c)) => r[i].seq = n
             /\ \A j \in 1 .. i - 1 :
                   /\ IsSample(r[j], c)
                   /\ \A k \in j + 1 .. i - 1 : ~IsSample(r[k], c)
                   => r[i].seq = r[j].seq + 1
  <2>1. /\ i + 1 \in DOMAIN q /\ r[i] = q[i + 1]
        /\ \A j \in 1 .. i - 1 : j \in DOMAIN r /\ r[j] = q[j + 1] /\ j + 1 \in 1 .. i
        /\ \A j \in 1 .. i : j = 1 \/ (j - 1 \in 1 .. i - 1 /\ q[j] = r[j - 1])
        /\ (i + 1) - 1 = i /\ 1 \in 1 .. i /\ i \in Nat
    BY <1>1
  <2>2. /\ (\A j \in 1 .. i : ~IsSample(q[j], c)) => r[i].seq = lo
        /\ \A j \in 1 .. i :
              /\ IsSample(q[j], c)
              /\ \A k \in j + 1 .. i : ~IsSample(q[k], c)
              => r[i].seq = q[j].seq + 1
    BY <1>2, <2>1 DEF Stepwise
  <2>3. ASSUME \A j \in 1 .. i - 1 : ~IsSample(r[j], c)
        PROVE  r[i].seq = n
    <3>1. \A k \in 1 + 1 .. i : ~IsSample(q[k], c)
      BY <2>1, <2>3
    <3>2. CASE IsSample(h, c)
      BY <1>1, <2>1, <2>2, <3>1, <3>2 DEF h
    <3>3. CASE ~IsSample(h, c)
      <4>1. \A j \in 1 .. i : ~IsSample(q[j], c)
        BY <2>1, <2>3, <3>3 DEF h
      <4> QED  BY <1>1, <2>2, <3>3, <4>1
    <3> QED  BY <3>2, <3>3
  <2>4. ASSUME NEW j \in 1 .. i - 1, IsSample(r[j], c),
               \A k \in j + 1 .. i - 1 : ~IsSample(r[k], c)
        PROVE  r[i].seq = r[j].seq + 1
    <3>1. ASSUME NEW k \in (j + 1) + 1 .. i PROVE ~IsSample(q[k], c)
      <4>1. k - 1 \in j + 1 .. i - 1 /\ q[k] = r[k - 1]
        BY <2>1
      <4> QED  BY <2>4, <4>1
    <3> QED  BY <2>1, <2>2, <2>4, <3>1
  <2> QED  BY <2>3, <2>4
<1>3. ASSUME UpTo(q, c, lo, hi)
      PROVE  UpTo(r, c, n, hi)
  <2>1. ASSUME \A j \in DOMAIN r : ~IsSample(r[j], c)
        PROVE  n = hi
    <3>1. ASSUME NEW k \in 1 + 1 .. Len(q) PROVE ~IsSample(q[k], c)
      <4>1. k - 1 \in DOMAIN r /\ q[k] = r[k - 1]
        BY <1>1
      <4> QED  BY <2>1, <4>1
    <3>2. \A k \in DOMAIN q : k = 1 \/ k \in 1 + 1 .. Len(q)
      BY <1>1
    <3>3. 1 \in DOMAIN q
      BY <1>1
    <3>4. CASE IsSample(h, c)
      BY <1>1, <1>3, <3>1, <3>3, <3>4 DEF UpTo, h
    <3>5. CASE ~IsSample(h, c)
      <4>1. \A j \in DOMAIN q : ~IsSample(q[j], c)
        BY <3>1, <3>2, <3>5 DEF h
      <4> QED  BY <1>1, <1>3, <3>5, <4>1 DEF UpTo
    <3> QED  BY <3>4, <3>5
  <2>2. ASSUME NEW j \in DOMAIN r, IsSample(r[j], c),
               \A k \in j + 1 .. Len(r) : ~IsSample(r[k], c)
        PROVE  r[j].seq + 1 = hi
    <3>1. ASSUME NEW k \in (j + 1) + 1 .. Len(q) PROVE ~IsSample(q[k], c)
      <4>1. k - 1 \in j + 1 .. Len(r) /\ q[k] = r[k - 1]
        BY <1>1
      <4> QED  BY <2>2, <4>1
    <3>2. j + 1 \in DOMAIN q /\ q[j + 1] = r[j]
      BY <1>1
    <3> QED  BY <1>3, <2>2, <3>1, <3>2 DEF UpTo
  <2> QED  BY <2>1, <2>2 DEF UpTo
<1>4. Stepwise(q, c, lo) => Stepwise(r, c, n)
  BY <1>2 DEF Stepwise
<1> QED  BY <1>3, <1>4 DEF r

\* and when one is queued: another packet, or the channel's next sample.
LEMMA SamplesQueue ==
    ASSUME NEW S, NEW q \in Seq(S), NEW x \in S, NEW c, NEW lo, NEW hi
    PROVE  /\ ~IsSample(x, c) /\ Stepwise(q, c, lo) => Stepwise(Append(q, x), c, lo)
           /\ ~IsSample(x, c) /\ UpTo(q, c, lo, hi) => UpTo(Append(q, x), c, lo, hi)
           /\ /\ IsSample(x, c) /\ x.seq = hi
              /\ Stepwise(q, c, lo) /\ UpTo(q, c, lo, hi)
              => Stepwise(Append(q, x), c, lo)
           /\ IsSample(x, c) /\ x.seq = hi => UpTo(Append(q, x), c, lo, hi + 1)
<1> DEFINE r == Append(q, x)
           n == Len(q) + 1
<1>1. /\ Len(q) \in Nat /\ DOMAIN q = 1 .. Len(q) /\ DOMAIN r = 1 .. n
      /\ \A i \in 1 .. Len(q) : r[i] = q[i]
      /\ r[n] = x /\ Len(r) = n /\ 1 .. n - 1 = 1 .. Len(q) /\ n - 1 = Len(q)
      /\ n \in DOMAIN r /\ n \notin DOMAIN q
      /\ \A i \in DOMAIN r : i = n \/ i \in DOMAIN q
      /\ \A i \in DOMAIN q : i \in DOMAIN r /\ n \in i + 1 .. n
  BY Queued
<1> HIDE DEF r, n
<1>2. ASSUME Stepwise(q, c, lo), NEW i \in DOMAIN q, IsSample(r[i], c)
      PROVE  /\ (\A j \in 1 .. i - 1 : ~IsSample(r[j], c)) => r[i].seq = lo
             /\ \A j \in 1 .. i - 1 :
                   /\ IsSample(r[j], c)
                   /\ \A k \in j + 1 .. i - 1 : ~IsSample(r[k], c)
                   => r[i].seq = r[j].seq + 1
  <2>1. r[i] = q[i] /\ \A j \in 1 .. i - 1 : /\ r[j] = q[j]
                                             /\ \A k \in j + 1 .. i - 1 : r[k] = q[k]
    BY <1>1
  <2> QED  BY <1>2, <2>1 DEF Stepwise
<1>3. ASSUME ~IsSample(x, c), Stepwise(q, c, lo) PROVE Stepwise(r, c, lo)
  BY <1>1, <1>2, <1>3 DEF Stepwise
<1>4. ASSUME ~IsSample(x, c), UpTo(q, c, lo, hi) PROVE UpTo(r, c, lo, hi)
  <2>1. ASSUME NEW j \in DOMAIN r, IsSample(r[j], c),
               \A k \in j + 1 .. Len(r) : ~IsSample(r[k], c)
        PROVE  r[j].seq + 1 = hi
    <3>1. j \in DOMAIN q /\ r[j] = q[j]
      BY <1>1, <1>4, <2>1
    <3>2. \A k \in j + 1 .. Len(q) : k \in j + 1 .. Len(r) /\ r[k] = q[k]
      BY <1>1, <3>1
    <3> QED  BY <1>4, <2>1, <3>1, <3>2 DEF UpTo
  <2>2. (\A j \in DOMAIN r : ~IsSample(r[j], c)) => lo = hi
    BY <1>1, <1>4 DEF UpTo
  <2> QED  BY <2>1, <2>2 DEF UpTo
<1>5. ASSUME IsSample(x, c), x.seq = hi, Stepwise(q, c, lo), UpTo(q, c, lo, hi)
      PROVE  Stepwise(r, c, lo)
  <2>1. (\A j \in 1 .. n - 1 : ~IsSample(r[j], c)) => r[n].seq = lo
    BY <1>1, <1>5 DEF UpTo
  <2>2. ASSUME NEW j \in 1 .. n - 1, IsSample(r[j], c),
               \A k \in j + 1 .. n - 1 : ~IsSample(r[k], c)
        PROVE  r[n].seq = r[j].seq + 1
    <3>1. j \in DOMAIN q /\ r[j] = q[j] /\ \A k \in j + 1 .. Len(q) : r[k] = q[k]
      BY <1>1
    <3> QED  BY <1>1, <1>5, <2>2, <3>1 DEF UpTo
  <2> QED  BY <1>1, <1>2, <1>5, <2>1, <2>2 DEF Stepwise
<1>6. ASSUME IsSample(x, c), x.seq = hi PROVE UpTo(r, c, lo, hi + 1)
  <2>1. ~(\A j \in DOMAIN r : ~IsSample(r[j], c))
    BY <1>1, <1>6
  <2>2. ASSUME NEW j \in DOMAIN r, IsSample(r[j], c),
               \A k \in j + 1 .. Len(r) : ~IsSample(r[k], c)
        PROVE  r[j].seq + 1 = hi + 1
    <3>1. j = n
      BY <1>1, <1>6, <2>2
    <3> QED  BY <1>1, <1>6, <3>1
  <2> QED  BY <2>1, <2>2 DEF UpTo
<1> QED  BY <1>3, <1>4, <1>5, <1>6 DEF r

-----------------------------------------------------------------------------
(* The inductive invariant. *)

ActiveEntry == [kind : OperationKind \cup {NoKind}, reliable : BOOLEAN, next : Nat]

EngineTypes ==
    /\ cSession \in Shape
    /\ cClosed \in BOOLEAN
    /\ cSeqOut \in Nat /\ cSeqIn \in Nat
    /\ cPending \in [ChannelIds -> OperationKind \cup {NoKind}]
    /\ cActive \in [ChannelIds -> ActiveEntry]
    /\ cAnswers \in [ChannelIds -> Nat]

LinkTypes ==
    up \in BOOLEAN /\ c2g \in Seq(ClientPacket) /\ g2c \in Seq(ServerPacket)

ConnectionTypes ==
    /\ gSession \in Shape
    /\ gLoop \in {"running", "closing", "ended"}
    /\ gSeqOut \in Nat /\ gSeqIn \in Nat
    /\ gGeneration \in Int

Runtime ==
    [kind : OperationKind, entity : Nat, reliable : BOOLEAN, seqOut : Nat,
     seqIn : Nat, opOut : [OpIds -> Nat], opIn : [OpIds -> Nat]]

BackendTypes ==
    /\ gRuntime \in [ChannelIds -> Runtime \cup {NoRuntime}]
    /\ gSamples \in Seq([ch : ChannelIds, from : Nat])
    /\ gRequests \in Seq([ch : ChannelIds, opid : OpIds])
    /\ gGoals \in Seq([ch : ChannelIds, opcode : {"ACTION_GOAL", "ACTION_CANCEL"},
                       opid : OpIds])
    /\ bLive \subseteq [id : Nat, ch : ChannelIds, kind : OperationKind]
    /\ bCreated \in Nat

\* The hello is the first thing an engine sends.
Unstarted == ~cStarted => cSession.phase = "AwaitClientHello"

\* Control frames arrive with the numbers the receiver expects, whatever is
\* in flight.
Streams ==
    /\ ~up => c2g = <<>> /\ g2c = <<>>
    /\ up /\ ~cClosed => Numbered(g2c, cSeqIn, gSeqOut)
    /\ up /\ gLoop = "running" => Numbered(c2g, gSeqIn, cSeqOut)

Agreeing == Connected => Joint(cSession, gSession, c2g, g2c)

EngineInv == EngineTypes /\ Unstarted /\ EngineTables /\ OpenAnsweredOnce
GatewayInv == ConnectionTypes /\ BackendTypes /\ EntitiesOwned
WireInv == EngineInv /\ GatewayInv /\ LinkTypes /\ Streams /\ Agreeing

\* Nothing has been sent and both sessions are new.
LEMMA WireInitially == Init => WireInv
<1> SUFFICES ASSUME Init PROVE WireInv
  OBVIOUS
<1> USE DEF Init, ClientInit, GatewayInit, LinkInit
<1>1. NewSession \in Shape /\ NewSession.phase = "AwaitClientHello"
      /\ \A c \in ChannelIds : NewSession.chan[c] = UnusedEntry
  BY DEF NewSession, Shape, Entry, Phase, NoGeneration
<1>2. EngineTypes
  BY <1>1 DEF EngineTypes, ActiveEntry, Inactive
<1>3. Unstarted /\ EngineTables /\ OpenAnsweredOnce
  BY <1>1 DEF Unstarted, EngineTables, OpenAnsweredOnce, UnusedEntry, Inactive
<1>4. ConnectionTypes /\ LinkTypes
  BY <1>1 DEF ConnectionTypes, LinkTypes, NoGeneration
<1>5. BackendTypes
  BY DEF BackendTypes
<1>6. EntitiesOwned
  BY <1>1 DEF EntitiesOwned, UnusedEntry
<1>7. Streams
  <2>1. Numbered(<<>>, 0, 0)
    BY NumberedNone
  <2> QED  BY <2>1 DEF Streams
<1>8. Joint(NewSession, NewSession, <<>>, <<>>)
  <2>0. \A i : i \notin DOMAIN <<>>
    OBVIOUS
  <2>1. \A c \in ChannelIds : View(c, UnusedEntry, UnusedEntry, <<>>, <<>>)
    BY <2>0 DEF View, ViewPairs, ExplainedOut, ExplainedIn, UnderwayOut, UnderwayIn,
           UnusedEntry
  <2>2. Phases("AwaitClientHello", "AwaitClientHello", <<>>, <<>>)
    BY <2>0 DEF Phases, PhasePairs, PhasesOut, PhasesIn
  <2>3. Generations(NewSession.generation, NewSession.generation, <<>>)
    BY DEF Generations
  <2> QED  BY <1>1, <2>1, <2>2, <2>3 DEF Joint
<1>9. Agreeing
  BY <1>8 DEF Agreeing
<1> QED  BY <1>2, <1>3, <1>4, <1>5, <1>6, <1>7, <1>9 DEF WireInv, EngineInv, GatewayInv

-----------------------------------------------------------------------------
(* The engine sends. *)

\* Control frames and data frames are packets of the stream they are sent on.
LEMMA ControlPacket ==
    /\ \A m \in ClientControl : \A n \in Nat : Control(m, n) \in ClientPacket
    /\ \A m \in ServerControl : \A n \in Nat : Control(m, n) \in ServerPacket
    /\ \A m : \A n : /\ Control(m, n).plane = "control" /\ Control(m, n).msg = m
                     /\ Control(m, n).seq = n
<1>1. \A m \in ClientControl : \A n \in Nat : Control(m, n) \in ClientPacket
  BY DEF Control, ClientPacket
<1>2. \A m \in ServerControl : \A n \in Nat : Control(m, n) \in ServerPacket
  BY DEF Control, ServerPacket
<1>3. \A m : \A n : /\ Control(m, n).plane = "control" /\ Control(m, n).msg = m
                    /\ Control(m, n).seq = n
  BY DEF Control
<1> QED  BY <1>1, <1>2, <1>3

\* A data frame changes no session.
LEMMA DataPacket ==
    /\ \A f \in Frame : \A n \in Nat : Data(f, n) \in ClientPacket \cap ServerPacket
    /\ \A f : \A n : Data(f, n).plane = "data" /\ Quiet(Data(f, n))
<1>1. \A f \in Frame : \A n \in Nat : Data(f, n) \in ClientPacket \cap ServerPacket
  BY DEF Data, ClientPacket, ServerPacket
<1>2. \A f : \A n : Data(f, n).plane = "data" /\ Quiet(Data(f, n))
  BY DEF Data, Quiet
<1> QED  BY <1>1, <1>2

\* What is in flight, and how the sessions agree, when the engine has sent a
\* control message or a data frame.
LEMMA EngineSendsControl ==
    ASSUME WireInv, NEW m \in ClientControl, ~cClosed,
           AcceptsControl(cSession, m, Client), ClientPushControl(m),
           UNCHANGED <<cSeqIn, cClosed, g2c, up, gatewayVars>>
    PROVE  /\ LinkTypes' /\ Streams' /\ Agreeing' /\ GatewayInv'
           /\ cSession' \in Shape /\ cSeqOut' \in Nat
<1> DEFINE x == Control(m, cSeqOut)
<1>0. cSession \in Shape /\ cSeqOut \in Nat /\ c2g \in Seq(ClientPacket)
      /\ gSeqIn \in Nat
  BY DEF WireInv, EngineInv, GatewayInv, EngineTypes, ConnectionTypes, LinkTypes
<1>1. x \in ClientPacket /\ x.plane = "control" /\ x.msg = m /\ x.seq = cSeqOut
  BY <1>0, ControlPacket
<1> HIDE DEF x
<1>2. cSession' = AfterControl(cSession, m) /\ cSeqOut' = cSeqOut + 1
  BY DEF ClientPushControl
<1>3. c2g' = IF up THEN Append(c2g, x) ELSE c2g
  BY <1>0, <1>1, SentOne DEF ClientPushControl, Sent, x
<1>4. cSession' \in Shape /\ cSeqOut' \in Nat
  BY <1>0, <1>2, ShapeKept
<1>5. LinkTypes'
  BY <1>0, <1>1, <1>3, Queued DEF WireInv, LinkTypes
<1>6. Streams'
  <2>1. ASSUME up, gLoop = "running" PROVE Numbered(Append(c2g, x), gSeqIn, cSeqOut + 1)
    <3>1. Numbered(c2g, gSeqIn, cSeqOut)
      BY <2>1 DEF WireInv, Streams
    <3> QED  BY <1>0, <1>1, <3>1, NumberedQueueControl
  <2> QED  BY <1>2, <1>3, <2>1 DEF WireInv, Streams, gatewayVars
<1>7. Agreeing'
  <2>1. ASSUME Connected PROVE Joint(AfterControl(cSession, m), gSession, Append(c2g, x), g2c)
    <3>1. Joint(cSession, gSession, c2g, g2c)
      BY <2>1 DEF WireInv, Agreeing
    <3> QED  BY <1>0, <1>1, <3>1, JointSends
  <2> QED  BY <1>2, <1>3, <2>1 DEF Agreeing, Connected, gatewayVars
<1>8. GatewayInv'
  BY DEF WireInv, GatewayInv, ConnectionTypes, BackendTypes, EntitiesOwned, gatewayVars
<1> QED  BY <1>4, <1>5, <1>6, <1>7, <1>8

\* A data frame joins the stream to the gateway.
LEMMA EngineSendsData ==
    ASSUME WireInv, NEW f \in Frame, NEW n \in Nat,
           c2g' = Sent(c2g, <<Data(f, n)>>) \/ c2g' = c2g,
           UNCHANGED <<cSession, cSeqOut, cSeqIn, cClosed, g2c, up, gatewayVars>>
    PROVE  LinkTypes' /\ Streams' /\ Agreeing' /\ GatewayInv'
<1> DEFINE x == Data(f, n)
<1>0. cSeqOut \in Nat /\ c2g \in Seq(ClientPacket) /\ gSeqIn \in Nat
  BY DEF WireInv, EngineInv, GatewayInv, EngineTypes, ConnectionTypes, LinkTypes
<1>1. x \in ClientPacket /\ x.plane = "data" /\ Quiet(x)
  BY DataPacket
<1> HIDE DEF x
<1>3. c2g' = c2g \/ (up /\ c2g' = Append(c2g, x))
  BY <1>0, <1>1, SentOne DEF Sent, x
<1>4. Append(c2g, x) \in Seq(ClientPacket)
  BY <1>0, <1>1, Queued
<1>5. LinkTypes'
  BY <1>0, <1>3, <1>4 DEF WireInv, LinkTypes
<1>6. Streams'
  <2>1. ASSUME up, gLoop = "running" PROVE Numbered(Append(c2g, x), gSeqIn, cSeqOut)
    <3>1. Numbered(c2g, gSeqIn, cSeqOut)
      BY <2>1 DEF WireInv, Streams
    <3> QED  BY <1>0, <1>1, <3>1, NumberedQueueOther
  <2> QED  BY <1>3, <2>1 DEF WireInv, Streams, gatewayVars
<1>7. Agreeing'
  <2>1. ASSUME Connected PROVE Joint(cSession, gSession, Append(c2g, x), g2c)
    <3>1. Joint(cSession, gSession, c2g, g2c)
      BY <2>1 DEF WireInv, Agreeing
    <3> QED  BY <1>0, <1>1, <3>1, QuietQueueOut
  <2> QED  BY <1>3, <2>1 DEF WireInv, Agreeing, Connected, gatewayVars
<1>8. GatewayInv'
  BY DEF WireInv, GatewayInv, ConnectionTypes, BackendTypes, EntitiesOwned, gatewayVars
<1> QED  BY <1>5, <1>6, <1>7, <1>8

\* An engine that stops, on a command or on a packet.
LEMMA EngineStops ==
    ASSUME WireInv, cClosed' = TRUE,
           UNCHANGED <<c2g, cSeqOut, up, gatewayVars>>,
           g2c' = g2c \/ (g2c # <<>> /\ g2c' = Tail(g2c))
    PROVE  LinkTypes' /\ Streams' /\ Agreeing' /\ GatewayInv'
<1>1. g2c \in Seq(ServerPacket)
  BY DEF WireInv, LinkTypes
<1>2. g2c # <<>> => Tail(g2c) \in Seq(ServerPacket)
  BY <1>1, Taken
<1>3. LinkTypes'
  BY <1>2 DEF WireInv, LinkTypes
<1>4. Streams'
  BY DEF WireInv, Streams, gatewayVars
<1>5. Agreeing'
  BY DEF Agreeing, Connected
<1>6. GatewayInv'
  BY DEF WireInv, GatewayInv, ConnectionTypes, BackendTypes, EntitiesOwned, gatewayVars
<1> QED  BY <1>3, <1>4, <1>5, <1>6

\* The tables follow from the session, the tables and the answers.
LEMMA EngineSame ==
    ASSUME EngineInv,
           UNCHANGED <<cSession, cStarted, cSeqOut, cSeqIn, tableVars, cAnswers>>,
           cClosed' = cClosed \/ cClosed' = TRUE
    PROVE  EngineInv'
  BY DEF EngineInv, EngineTypes, Unstarted, EngineTables, OpenAnsweredOnce, tableVars

-----------------------------------------------------------------------------
(* The application's commands. *)

\* start: the hello is sent.
LEMMA StartStep ==
    ASSUME WireInv, ClientStart, UNCHANGED gatewayVars
    PROVE  WireInv'
<1> DEFINE x == Bootstrap("ClientHello")
<1>0. /\ cSession \in Shape /\ cSession.phase = "AwaitClientHello"
      /\ c2g \in Seq(ClientPacket) /\ cSeqOut \in Nat /\ gSeqIn \in Nat
  BY DEF WireInv, EngineInv, GatewayInv, EngineTypes, ConnectionTypes, LinkTypes,
         Unstarted, ClientStart
<1>1. x \in ClientPacket /\ x.plane = "bootstrap" /\ IsBootstrap(x, "ClientHello")
  BY DEF Bootstrap, ClientPacket, IsBootstrap
<1> HIDE DEF x
<1>2. Rephased(cSession, cSession', "AwaitServerHello")
  <2>1. cSession' = [cSession EXCEPT !.phase = "AwaitServerHello"]
    BY DEF ClientStart, AfterBootstrap
  <2>2. "AwaitServerHello" \in Phase
    BY DEF Phase
  <2> QED  BY <1>0, <2>1, <2>2, AfterPhase
<1>3. c2g' = IF up THEN Append(c2g, x) ELSE c2g
  BY <1>0, <1>1, SentOne DEF ClientStart, Sent, x
<1>4. Append(c2g, x) \in Seq(ClientPacket)
  BY <1>0, <1>1, Queued
<1>5. LinkTypes'
  BY <1>3, <1>4 DEF WireInv, LinkTypes, ClientStart
<1>6. Streams'
  <2>1. ASSUME up, gLoop = "running" PROVE Numbered(Append(c2g, x), gSeqIn, cSeqOut)
    <3>1. Numbered(c2g, gSeqIn, cSeqOut)
      BY <2>1 DEF WireInv, Streams
    <3> QED  BY <1>0, <1>1, <3>1, NumberedQueueOther
  <2> QED  BY <1>3, <2>1 DEF WireInv, Streams, gatewayVars, ClientStart
<1>7. Agreeing'
  <2>1. ASSUME Connected PROVE Joint(cSession', gSession, Append(c2g, x), g2c)
    <3>1. Joint(cSession, gSession, c2g, g2c)
      BY <2>1 DEF WireInv, Agreeing
    <3> QED  BY <1>0, <1>1, <1>2, <3>1, JointHello
  <2> QED  BY <1>3, <2>1 DEF WireInv, Agreeing, Connected, gatewayVars, ClientStart
<1>8. GatewayInv'
  BY DEF WireInv, GatewayInv, ConnectionTypes, BackendTypes, EntitiesOwned, gatewayVars
<1>9. EngineInv'
  BY <1>2 DEF WireInv, EngineInv, EngineTypes, Unstarted, EngineTables,
     OpenAnsweredOnce, tableVars, appVars, ClientStart, Rephased
<1> QED  BY <1>5, <1>6, <1>7, <1>8, <1>9 DEF WireInv

\* A command the engine's session refuses ends the engine.
LEMMA RefusedCommand ==
    ASSUME WireInv, NEW m, NEW pending, NEW active,
           ClientCommand(m, pending, active),
           ~AcceptsControl(cSession, m, Client), UNCHANGED gatewayVars
    PROVE  WireInv'
<1>1. /\ cClosed' = TRUE
      /\ UNCHANGED <<cSession, cStarted, cSeqOut, cSeqIn, tableVars, appVars, linkVars>>
  BY DEF ClientCommand, ClientFail
<1>2. EngineInv'
  BY <1>1, EngineSame DEF WireInv, appVars
<1>3. LinkTypes' /\ Streams' /\ Agreeing' /\ GatewayInv'
  BY <1>1, EngineStops DEF linkVars
<1> QED  BY <1>2, <1>3 DEF WireInv

\* authenticate: recorded, then sent.
LEMMA AuthenticateStep ==
    ASSUME WireInv, ClientAuthenticate, UNCHANGED gatewayVars
    PROVE  WireInv'
<1> DEFINE m == [type |-> "Authenticate"]
<1>0. m \in ClientControl /\ m.type = "Authenticate"
  BY DEF ClientControl
<1> USE DEF ClientAuthenticate
<1>1. CASE ~AcceptsControl(cSession, m, Client)
  BY <1>1, RefusedCommand
<1>2. CASE AcceptsControl(cSession, m, Client)
  <2>1. /\ ClientPushControl(m) /\ ~cClosed
        /\ UNCHANGED <<cStarted, cSeqIn, cClosed, tableVars, appVars, g2c, up>>
    BY <1>2 DEF ClientCommand, tableVars
  <2> HIDE DEF m, ClientAuthenticate
  <2>2. /\ LinkTypes' /\ Streams' /\ Agreeing' /\ GatewayInv'
        /\ cSession' \in Shape /\ cSeqOut' \in Nat
    BY <1>0, <1>2, <2>1, EngineSendsControl
  <2>3. /\ cSession.phase = "SelectedAwaitAuthenticate"
        /\ Rephased(cSession, cSession', "SelectedAwaitSessionReady")
    BY <1>0, <1>2, <2>1, AfterAuthentication
    DEF WireInv, EngineInv, EngineTypes, ClientPushControl
  <2>4. EngineInv'
    BY <2>1, <2>2, <2>3 DEF WireInv, EngineInv, EngineTypes, Unstarted, EngineTables,
       OpenAnsweredOnce, tableVars, appVars, Rephased
  <2> QED  BY <2>2, <2>4 DEF WireInv
<1> QED  BY <1>1, <1>2

\* open_*: the channel is pending in the session and in the table.
LEMMA OpenStep ==
    ASSUME WireInv, NEW c \in ChannelIds, NEW kind \in OperationKind,
           ClientOpen(c, kind), UNCHANGED gatewayVars
    PROVE  WireInv'
<1> DEFINE m == [type |-> "OpenChannel", ch |-> c, kind |-> kind]
<1>0. m \in ClientControl /\ m.type = "OpenChannel" /\ m.ch = c /\ m.kind = kind
  BY DEF ClientControl
<1> USE DEF ClientOpen
<1>1. CASE ~AcceptsControl(cSession, m, Client)
  BY <1>1, RefusedCommand
<1>2. CASE AcceptsControl(cSession, m, Client)
  <2>1. /\ ClientPushControl(m) /\ ~cClosed
        /\ cPending' = [cPending EXCEPT ![c] = kind] /\ cActive' = cActive
        /\ UNCHANGED <<cStarted, cSeqIn, cClosed, cAnswers, g2c, up>>
    BY <1>2 DEF ClientCommand, appVars
  <2> HIDE DEF m, ClientOpen
  <2>2. /\ LinkTypes' /\ Streams' /\ Agreeing' /\ GatewayInv'
        /\ cSession' \in Shape /\ cSeqOut' \in Nat
    BY <1>0, <1>2, <2>1, EngineSendsControl
  <2>3. /\ cSession.phase = "Ready" /\ cSession.chan[c].state = "Unused"
        /\ Moved(cSession, cSession', c, "Pending", kind)
    BY <1>0, <1>2, <2>1, AfterOpen
    DEF WireInv, EngineInv, EngineTypes, ClientPushControl
  <2>4. EngineTypes'
    BY <2>1, <2>2 DEF WireInv, EngineInv, EngineTypes
  <2>5. Unstarted'
    BY <2>1, <2>3 DEF WireInv, EngineInv, Unstarted, Moved
  <2>6. EngineTables'
    <3> SUFFICES ASSUME NEW d \in ChannelIds
                 PROVE  /\ cPending'[d] = IF cSession'.chan[d].state = "Pending"
                                          THEN cSession'.chan[d].kind ELSE NoKind
                        /\ cActive'[d].kind = IF cSession'.chan[d].state = "Active"
                                              THEN cSession'.chan[d].kind ELSE NoKind
      BY DEF EngineTables
    <3> QED  BY <2>1, <2>3 DEF WireInv, EngineInv, EngineTypes, EngineTables, Moved
  <2>7. OpenAnsweredOnce'
    BY <2>1, <2>3 DEF WireInv, EngineInv, OpenAnsweredOnce, Moved
  <2> QED  BY <2>2, <2>4, <2>5, <2>6, <2>7 DEF WireInv, EngineInv
<1> QED  BY <1>1, <1>2

\* close: the channel leaves the table as it is closed in the session.
LEMMA UnsubscribeStep ==
    ASSUME WireInv, NEW c \in ChannelIds,
           ClientUnsubscribe(c), UNCHANGED gatewayVars
    PROVE  WireInv'
<1> DEFINE m == [type |-> "CloseChannel", ch |-> c]
<1>0. m \in ClientControl /\ m.type = "CloseChannel" /\ m.ch = c
  BY DEF ClientControl
<1> USE DEF ClientUnsubscribe
<1>1. CASE ~AcceptsControl(cSession, m, Client)
  BY <1>1, RefusedCommand
<1>2. CASE AcceptsControl(cSession, m, Client)
  <2>1. /\ ClientPushControl(m) /\ ~cClosed
        /\ cPending' = [cPending EXCEPT ![c] = NoKind]
        /\ cActive' = [cActive EXCEPT ![c] = Inactive]
        /\ UNCHANGED <<cStarted, cSeqIn, cClosed, cAnswers, g2c, up>>
    BY <1>2 DEF ClientCommand, appVars
  <2> HIDE DEF m, ClientUnsubscribe
  <2>2. /\ LinkTypes' /\ Streams' /\ Agreeing' /\ GatewayInv'
        /\ cSession' \in Shape /\ cSeqOut' \in Nat
    BY <1>0, <1>2, <2>1, EngineSendsControl
  <2>3. /\ cSession.phase = "Ready" /\ cSession.chan[c].state = "Active"
        /\ Moved(cSession, cSession', c, "Closed", cSession.chan[c].kind)
    BY <1>0, <1>2, <2>1, AfterClose
    DEF WireInv, EngineInv, EngineTypes, ClientPushControl
  <2>4. EngineTypes'
    BY <2>1, <2>2 DEF WireInv, EngineInv, EngineTypes, ActiveEntry, Inactive
  <2>5. Unstarted'
    BY <2>1, <2>3 DEF WireInv, EngineInv, Unstarted, Moved
  <2>6. EngineTables'
    <3> SUFFICES ASSUME NEW d \in ChannelIds
                 PROVE  /\ cPending'[d] = IF cSession'.chan[d].state = "Pending"
                                          THEN cSession'.chan[d].kind ELSE NoKind
                        /\ cActive'[d].kind = IF cSession'.chan[d].state = "Active"
                                              THEN cSession'.chan[d].kind ELSE NoKind
      BY DEF EngineTables
    <3> QED
      BY <2>1, <2>3 DEF WireInv, EngineInv, EngineTypes, EngineTables, Moved, Inactive
  <2>7. OpenAnsweredOnce'
    BY <2>1, <2>3 DEF WireInv, EngineInv, OpenAnsweredOnce, Moved
  <2> QED  BY <2>2, <2>4, <2>5, <2>6, <2>7 DEF WireInv, EngineInv
<1> QED  BY <1>1, <1>2

\* Advancing the counter of a channel.
LEMMA NextFrame ==
    ASSUME EngineInv, NEW c \in ChannelIds,
           cActive' = [cActive EXCEPT ![c].next = @ + 1],
           UNCHANGED <<cSession, cStarted, cClosed, cSeqOut, cSeqIn, cPending, appVars>>
    PROVE  EngineInv'
<1> DEFINE e == [cActive[c] EXCEPT !.next = @ + 1]
<1>1. cActive[c] \in ActiveEntry
  BY DEF EngineInv, EngineTypes
<1>2. e \in ActiveEntry /\ e.kind = cActive[c].kind
  BY <1>1 DEF ActiveEntry
<1>3. cActive' = [cActive EXCEPT ![c] = e]
  OBVIOUS
<1> HIDE DEF e
<1>4. EngineTypes'
  BY <1>2, <1>3 DEF EngineInv, EngineTypes, appVars
<1>5. \A d \in ChannelIds : cActive'[d].kind = cActive[d].kind
  BY <1>2, <1>3 DEF EngineInv, EngineTypes
<1>6. Unstarted' /\ EngineTables' /\ OpenAnsweredOnce'
  BY <1>5 DEF EngineInv, Unstarted, EngineTables, OpenAnsweredOnce, appVars
<1> QED  BY <1>4, <1>6 DEF EngineInv

\* publish: a data frame under the channel's own number.
LEMMA PublishStep ==
    ASSUME WireInv, NEW c \in ChannelIds,
           ClientSendSample(c), UNCHANGED gatewayVars
    PROVE  WireInv'
<1> DEFINE f == Sample(c, cActive[c].reliable, 0)
<1>0. cActive[c] \in ActiveEntry
  BY DEF WireInv, EngineInv, EngineTypes
<1>1. f \in Frame /\ cActive[c].next \in Nat
  BY <1>0 DEF Sample, Frame, ActiveEntry
<1>2. c2g' = Sent(c2g, <<Data(f, cActive[c].next)>>)
  BY DEF ClientSendSample
<1> HIDE DEF f
<1>3. LinkTypes' /\ Streams' /\ Agreeing' /\ GatewayInv'
  <2>1. UNCHANGED <<cSession, cSeqOut, cSeqIn, cClosed, g2c, up, gatewayVars>>
    BY DEF ClientSendSample
  <2> QED  BY <1>1, <1>2, <2>1, EngineSendsData
<1>4. EngineInv'
  BY NextFrame DEF WireInv, ClientSendSample
<1> QED  BY <1>3, <1>4 DEF WireInv

\* A request, a response or an action frame.
LEMMA OperationStep ==
    ASSUME WireInv, NEW c \in ChannelIds, NEW opcode \in ServiceActionOpcode,
           NEW opid \in OpIds,
           ClientSendOperation(c, opcode, opid), UNCHANGED gatewayVars
    PROVE  WireInv'
<1> DEFINE f == Operation(opcode, c, opid, opcode \in ReliableRequired)
<1>0. cActive[c] \in ActiveEntry
  BY DEF WireInv, EngineInv, EngineTypes
<1>1. f \in Frame
  BY DEF Operation, Frame
<1>2. cActive[c].next \in Nat
  BY <1>0 DEF ActiveEntry
<1>3. c2g' = Sent(c2g, <<Data(f, cActive[c].next)>>) \/ c2g' = c2g
  BY DEF ClientSendOperation
<1> HIDE DEF f
<1>4. LinkTypes' /\ Streams' /\ Agreeing' /\ GatewayInv'
  <2>1. UNCHANGED <<cSession, cSeqOut, cSeqIn, cClosed, g2c, up, gatewayVars>>
    BY DEF ClientSendOperation
  <2> QED  BY <1>1, <1>2, <1>3, <2>1, EngineSendsData
<1>5. EngineInv'
  BY NextFrame DEF WireInv, ClientSendOperation
<1> QED  BY <1>4, <1>5 DEF WireInv

\* A session that is ready accepts a heartbeat from either side.
LEMMA HeartbeatAccepted ==
    ASSUME NEW s, s.phase = "Ready", NEW role \in Role
    PROVE  AcceptsControl(s, Heartbeat, role)
<1>1. Heartbeat.type = "Heartbeat"
  BY DEF Heartbeat
<1>2. ControlSenders("Heartbeat") = Role
  BY DEF ControlSenders
<1> QED  BY <1>1, <1>2 DEF AcceptsControl, IsTerminal, InSelectedPlane

\* The heartbeat deadline: a heartbeat from a ready engine.
LEMMA TickStep ==
    ASSUME WireInv, ClientHeartbeat, UNCHANGED gatewayVars
    PROVE  WireInv'
<1>1. /\ ClientPushControl(Heartbeat) /\ ~cClosed /\ cSession.phase = "Ready"
      /\ UNCHANGED <<cStarted, cSeqIn, cClosed, tableVars, appVars, g2c, up>>
  BY DEF ClientHeartbeat
<1>2. Heartbeat \in ClientControl /\ Heartbeat.type = "Heartbeat" /\ Client \in Role
  BY DEF ClientControl, Heartbeat, Role
<1>3. AcceptsControl(cSession, Heartbeat, Client)
  BY <1>1, <1>2, HeartbeatAccepted
<1>4. /\ LinkTypes' /\ Streams' /\ Agreeing' /\ GatewayInv'
      /\ cSession' \in Shape /\ cSeqOut' \in Nat
  BY <1>1, <1>2, <1>3, EngineSendsControl
<1>5. cSession' = cSession
  BY <1>1, <1>2, AfterHeartbeat DEF WireInv, EngineInv, EngineTypes, ClientPushControl
<1>6. EngineInv'
  BY <1>1, <1>4, <1>5 DEF WireInv, EngineInv, EngineTypes, Unstarted, EngineTables,
     OpenAnsweredOnce, tableVars, appVars
<1> QED  BY <1>4, <1>6 DEF WireInv

\* The engine is closed and keeps what it has.
LEMMA CloseStep ==
    ASSUME WireInv, ClientClose, UNCHANGED gatewayVars
    PROVE  WireInv'
<1>1. /\ cClosed' = TRUE
      /\ UNCHANGED <<cSession, cStarted, cSeqOut, cSeqIn, tableVars, appVars, linkVars>>
  BY DEF ClientClose
<1>2. EngineInv'
  BY <1>1, EngineSame DEF WireInv, appVars
<1>3. LinkTypes' /\ Streams' /\ Agreeing' /\ GatewayInv'
  BY <1>1, EngineStops DEF linkVars
<1> QED  BY <1>2, <1>3 DEF WireInv

-----------------------------------------------------------------------------
(* The packets the engine receives. *)

\* The message of a packet, from its plane.
LEMMA ServerPacketTypes ==
    ASSUME NEW p \in ServerPacket
    PROVE  /\ p.plane \in {"bootstrap", "control", "data"}
           /\ p.plane = "bootstrap" => p.msg.type \in {"ServerHello", "BootstrapError"}
           /\ p.plane = "control" => p.msg \in ServerControl
           /\ p.plane = "data" => Quiet(p)
  BY DEF ServerPacket, Quiet

LEMMA ClientPacketTypes ==
    ASSUME NEW p \in ClientPacket
    PROVE  /\ p.plane \in {"bootstrap", "control", "data"}
           /\ p.plane = "bootstrap" => p.msg.type = "ClientHello"
           /\ p.plane = "control" => p.msg \in ClientControl
           /\ p.plane = "data" => Quiet(p) /\ p.msg \in Frame /\ p.seq \in Nat
  BY DEF ClientPacket, Quiet

\* A control frame is never out of sequence at a running receiver.
LEMMA EngineInSequence ==
    ASSUME WireInv, ~cClosed, g2c # <<>>
    PROVE  /\ up
           /\ Head(g2c).plane = "control" =>
                 Head(g2c).seq = cSeqIn /\ Numbered(Tail(g2c), cSeqIn + 1, gSeqOut)
           /\ Head(g2c).plane # "control" => Numbered(Tail(g2c), cSeqIn, gSeqOut)
<1>1. up /\ Numbered(g2c, cSeqIn, gSeqOut)
  BY DEF WireInv, Streams, LinkTypes
<1>2. g2c \in Seq(ServerPacket) /\ cSeqIn \in Nat /\ gSeqOut \in Nat
  BY DEF WireInv, LinkTypes, EngineInv, EngineTypes, GatewayInv, ConnectionTypes
<1> QED  BY <1>1, <1>2, NumberedTake

\* What the engine knows of the packet it takes.
LEMMA EngineTakes ==
    ASSUME WireInv, ~cClosed, g2c # <<>>, g2c' = Tail(g2c),
           cSeqIn' = IF Head(g2c).plane = "control" THEN cSeqIn + 1 ELSE cSeqIn,
           UNCHANGED <<c2g, cSeqOut, up, gatewayVars>>
    PROVE  LinkTypes' /\ Streams' /\ GatewayInv' /\ cSeqIn' \in Nat
<1>1. g2c \in Seq(ServerPacket) /\ cSeqIn \in Nat
  BY DEF WireInv, LinkTypes, EngineInv, EngineTypes
<1>2. Tail(g2c) \in Seq(ServerPacket)
  BY <1>1, Taken
<1>3. LinkTypes' /\ cSeqIn' \in Nat
  BY <1>1, <1>2 DEF WireInv, LinkTypes
<1>4. up /\ Numbered(Tail(g2c), cSeqIn', gSeqOut)
  <2>1. CASE Head(g2c).plane = "control"
    BY <2>1, EngineInSequence
  <2>2. CASE Head(g2c).plane # "control"
    BY <2>2, EngineInSequence
  <2> QED  BY <2>1, <2>2
<1>5. Streams'
  BY <1>4 DEF WireInv, Streams, gatewayVars
<1>6. GatewayInv'
  BY DEF WireInv, GatewayInv, ConnectionTypes, BackendTypes, EntitiesOwned, gatewayVars
<1> QED  BY <1>3, <1>5, <1>6

\* A packet the session refuses ends the engine.
LEMMA ReceiveBadStep ==
    ASSUME WireInv, ClientReceiveBad, UNCHANGED gatewayVars
    PROVE  WireInv'
<1>1. /\ ~cClosed /\ g2c # <<>> /\ cClosed' = TRUE /\ g2c' = Tail(g2c)
      /\ UNCHANGED <<cStarted, cSeqOut, cSeqIn, tableVars, appVars, c2g, up>>
  BY DEF ClientReceiveBad
<1>2. cSession' = cSession
  <2>1. Head(g2c).plane = "control" => Head(g2c).seq = cSeqIn
    BY <1>1, EngineInSequence
  <2> QED  BY <2>1 DEF ClientReceiveBad
<1>3. EngineInv'
  BY <1>1, <1>2, EngineSame DEF WireInv, appVars
<1>4. LinkTypes' /\ Streams' /\ Agreeing' /\ GatewayInv'
  BY <1>1, EngineStops
<1> QED  BY <1>3, <1>4 DEF WireInv

\* The answer to the hello.
LEMMA ReceiveBootstrapStep ==
    ASSUME WireInv, ClientReceiveBootstrap, UNCHANGED gatewayVars
    PROVE  WireInv'
<1> DEFINE p == Head(g2c)
<1>1. /\ ~cClosed /\ g2c # <<>> /\ g2c' = Tail(g2c)
      /\ p.plane = "bootstrap" /\ AcceptsBootstrap(cSession, p.msg, Server)
      /\ cSession' = AfterBootstrap(cSession, p.msg)
      /\ cClosed' = (p.msg.type = "BootstrapError")
      /\ UNCHANGED <<cStarted, cSeqOut, cSeqIn, tableVars, appVars, c2g, up>>
  BY DEF ClientReceiveBootstrap
<1>2. g2c \in Seq(ServerPacket) /\ cSession \in Shape
  BY DEF WireInv, EngineInv, EngineTypes, LinkTypes
<1>3. p \in ServerPacket
  BY <1>1, <1>2, Taken
<1> HIDE DEF p
<1>4. p.msg.type \in {"ServerHello", "BootstrapError"}
  BY <1>1, <1>3, ServerPacketTypes
<1>5. cSession.phase = "AwaitServerHello"
  BY <1>1, <1>4 DEF AcceptsBootstrap
<1>6. LinkTypes' /\ Streams' /\ GatewayInv'
  <2>1. cSeqIn' = IF Head(g2c).plane = "control" THEN cSeqIn + 1 ELSE cSeqIn
    BY <1>1 DEF p
  <2> QED  BY <1>1, <2>1, EngineTakes
<1>7. /\ cSession' \in Shape /\ cSession'.chan = cSession.chan
      /\ ~cClosed' => Rephased(cSession, cSession', "SelectedAwaitAuthenticate")
  <2>1. CASE p.msg.type = "ServerHello"
    <3>1. cSession' = [cSession EXCEPT !.phase = "SelectedAwaitAuthenticate"]
      BY <1>1, <2>1 DEF AfterBootstrap
    <3>2. "SelectedAwaitAuthenticate" \in Phase
      BY DEF Phase
    <3> QED  BY <1>2, <3>1, <3>2, AfterPhase DEF Rephased
  <2>2. CASE p.msg.type = "BootstrapError"
    <3>1. cSession' = [cSession EXCEPT !.phase = "BootstrapFailed"]
      BY <1>1, <2>2 DEF AfterBootstrap
    <3>2. "BootstrapFailed" \in Phase
      BY DEF Phase
    <3>3. cClosed'
      BY <1>1, <2>2
    <3>4. Rephased(cSession, cSession', "BootstrapFailed")
      BY <1>2, <3>1, <3>2, AfterPhase
    <3> QED  BY <3>3, <3>4 DEF Rephased
  <2> QED  BY <1>4, <2>1, <2>2
<1>8. EngineInv'
  <2>1. cClosed' \in BOOLEAN
    BY <1>1
  <2>2. EngineTypes'
    BY <1>1, <1>7, <2>1
    DEF WireInv, EngineInv, EngineTypes, tableVars, appVars
  <2>3. Unstarted'
    BY <1>1, <1>5 DEF WireInv, EngineInv, Unstarted
  <2>4. EngineTables' /\ OpenAnsweredOnce'
    BY <1>1, <1>7 DEF WireInv, EngineInv, EngineTables, OpenAnsweredOnce,
       tableVars, appVars
  <2> QED  BY <2>2, <2>3, <2>4 DEF EngineInv
<1>9. Agreeing'
  <2> SUFFICES ASSUME Connected' PROVE Joint(cSession', gSession', c2g', g2c')
    BY DEF Agreeing
  <2>1. ~cClosed' /\ gSession' = gSession /\ c2g' = c2g
    BY <1>1 DEF Connected, gatewayVars
  <2>2. Connected
    BY <1>1 DEF Connected, gatewayVars
  <2>3. Joint(cSession, gSession, c2g, g2c)
    BY <2>2 DEF WireInv, Agreeing
  <2>4. IsBootstrap(Head(g2c), "ServerHello")
    BY <1>1, <1>4, <2>1 DEF IsBootstrap, p
  <2>5. Joint(cSession', gSession, c2g, Tail(g2c))
    BY <1>1, <1>2, <1>5, <1>7, <2>1, <2>3, <2>4, JointHelloTaken
  <2> QED  BY <1>1, <2>1, <2>5
<1> QED  BY <1>6, <1>8, <1>9 DEF WireInv

\* A control message the engine accepts, and that does not end it.
LEMMA EngineAccepts ==
    ASSUME WireInv, NEW m, ClientAcceptsControl(m),
           UNCHANGED <<c2g, cSeqOut, gatewayVars>>,
           cSession' = AfterControl(cSession, m)
    PROVE  /\ m \in ServerControl /\ cSession \in Shape
           /\ AcceptsControl(cSession, m, Server) /\ cStarted' = cStarted
           /\ cSession' \in Shape /\ cSeqIn' \in Nat
           /\ LinkTypes' /\ Streams' /\ GatewayInv'
           /\ ~cClosed' /\ ~IsSessionError(cSession, m) => Agreeing'
<1> DEFINE p == Head(g2c)
<1>1. /\ ~cClosed /\ g2c # <<>> /\ g2c' = Tail(g2c)
      /\ p.plane = "control" /\ p.msg = m /\ AcceptsControl(cSession, m, Server)
      /\ cSeqIn' = cSeqIn + 1 /\ UNCHANGED <<cStarted, up>>
  BY DEF ClientAcceptsControl
<1>2. g2c \in Seq(ServerPacket) /\ cSession \in Shape
  BY DEF WireInv, EngineInv, EngineTypes, LinkTypes
<1>3. p \in ServerPacket
  BY <1>1, <1>2, Taken
<1> HIDE DEF p
<1>4. m \in ServerControl
  BY <1>1, <1>3, ServerPacketTypes
<1>5. cSession' \in Shape
  BY <1>1, <1>2, <1>4, ShapeKept
<1>6. LinkTypes' /\ Streams' /\ GatewayInv' /\ cSeqIn' \in Nat
  <2>1. cSeqIn' = IF Head(g2c).plane = "control" THEN cSeqIn + 1 ELSE cSeqIn
    BY <1>1 DEF p
  <2> QED  BY <1>1, <2>1, EngineTakes
<1>7. ASSUME ~cClosed', ~IsSessionError(cSession, m) PROVE Agreeing'
  <2> SUFFICES ASSUME Connected' PROVE Joint(cSession', gSession', c2g', g2c')
    BY DEF Agreeing
  <2>1. gSession' = gSession /\ c2g' = c2g
    BY DEF gatewayVars
  <2>2. Connected
    BY <1>1 DEF Connected, gatewayVars
  <2>3. Joint(cSession, gSession, c2g, g2c)
    BY <2>2 DEF WireInv, Agreeing
  <2>4. Joint(AfterControl(cSession, m), gSession, c2g, Tail(g2c))
    BY <1>1, <1>2, <1>4, <1>7, <2>3, JointTakes DEF p
  <2> QED  BY <1>1, <2>1, <2>4
<1> QED  BY <1>1, <1>2, <1>4, <1>5, <1>6, <1>7

\* ChannelReady: the channel moves from one table to the other or fails, and
\* the application hears of it.
LEMMA ReceiveReadyStep ==
    ASSUME WireInv, NEW m, ClientChannelReady(m), UNCHANGED gatewayVars
    PROVE  WireInv'
<1> DEFINE c == m.ch
<1>1. /\ m.type = "ChannelReady" /\ ClientAcceptsControl(m)
      /\ cSession' = AfterControl(cSession, m)
      /\ cPending' = [cPending EXCEPT ![c] = NoKind]
      /\ cAnswers' = [cAnswers EXCEPT ![c] = @ + 1]
      /\ UNCHANGED <<cClosed, cSeqOut, c2g>>
  BY DEF ClientChannelReady
<1>2. /\ m \in ServerControl /\ cSession \in Shape
      /\ AcceptsControl(cSession, m, Server) /\ cStarted' = cStarted
      /\ cSession' \in Shape /\ cSeqIn' \in Nat
      /\ LinkTypes' /\ Streams' /\ GatewayInv'
      /\ ~cClosed' /\ ~IsSessionError(cSession, m) => Agreeing'
  BY <1>1, EngineAccepts
<1>3. ~cClosed /\ ~cClosed' /\ ~IsSessionError(cSession, m)
  BY <1>1 DEF ClientAcceptsControl, IsSessionError
<1>4. c \in ChannelIds /\ m.reliable \in BOOLEAN
  BY <1>1, <1>2, ServerControlTypes
<1>5. /\ cSession.phase = "Ready" /\ cSession.chan[c].state = "Pending"
      /\ Moved(cSession, cSession', c, ResultState(m.result), cSession.chan[c].kind)
  BY <1>1, <1>2, <1>4, AfterReady
<1>6. cPending[c] = cSession.chan[c].kind /\ cPending[c] \in OperationKind
  <2>1. cPending[c] = cSession.chan[c].kind
    BY <1>3, <1>4, <1>5 DEF WireInv, EngineInv, EngineTables
  <2>2. cSession.chan[c] \in Entry
    BY <1>2, <1>4 DEF Shape
  <2>3. cSession.chan[c].kind \in OperationKind
    BY <1>5, <2>2 DEF Entry, UnusedEntry
  <2> QED  BY <2>1, <2>3
<1>7. cPending[c] # NoKind
  BY <1>6 DEF OperationKind, NoKind
<1> DEFINE e == [kind |-> cPending[c], reliable |-> m.reliable, next |-> 0]
<1>8. e \in ActiveEntry /\ e.kind = cPending[c]
  BY <1>4, <1>6 DEF ActiveEntry
<1>9. cActive' = IF IsSuccess(m.result) THEN [cActive EXCEPT ![c] = e] ELSE cActive
  BY <1>7 DEF ClientChannelReady
<1> HIDE DEF c, e
<1>10. EngineTypes'
  <2>1. cActive' \in [ChannelIds -> ActiveEntry]
    BY <1>8, <1>9 DEF WireInv, EngineInv, EngineTypes
  <2>2. cPending' \in [ChannelIds -> OperationKind \cup {NoKind}]
        /\ cAnswers' \in [ChannelIds -> Nat]
    BY <1>1, <1>4 DEF WireInv, EngineInv, EngineTypes
  <2> QED  BY <1>1, <1>2, <2>1, <2>2 DEF WireInv, EngineInv, EngineTypes
<1>11. Unstarted'
  BY <1>2, <1>5 DEF WireInv, EngineInv, Unstarted, Moved
<1>12. EngineTables'
  <2> SUFFICES ASSUME NEW d \in ChannelIds
               PROVE  /\ cPending'[d] = IF cSession'.chan[d].state = "Pending"
                                        THEN cSession'.chan[d].kind ELSE NoKind
                      /\ cActive'[d].kind = IF cSession'.chan[d].state = "Active"
                                            THEN cSession'.chan[d].kind ELSE NoKind
    BY DEF EngineTables
  <2>0. /\ cPending[d] = IF cSession.chan[d].state = "Pending"
                         THEN cSession.chan[d].kind ELSE NoKind
        /\ cActive[d].kind = IF cSession.chan[d].state = "Active"
                             THEN cSession.chan[d].kind ELSE NoKind
    BY <1>3 DEF WireInv, EngineInv, EngineTables
  <2>1. CASE d # c
    BY <1>1, <1>5, <1>9, <2>0, <2>1 DEF WireInv, EngineInv, EngineTypes, Moved
  <2>2. CASE d = c
    BY <1>1, <1>4, <1>5, <1>6, <1>8, <1>9, <2>0, <2>2
    DEF WireInv, EngineInv, EngineTypes, Moved, ResultState
  <2> QED  BY <2>1, <2>2
<1>13. OpenAnsweredOnce'
  <2> SUFFICES ASSUME NEW d \in ChannelIds
               PROVE  /\ cAnswers'[d] <= 1
                      /\ cAnswers'[d] = 1 <=>
                            cSession'.chan[d].state \notin {"Unused", "Pending"}
    BY DEF OpenAnsweredOnce
  <2>0. /\ cAnswers[d] \in Nat /\ cAnswers[d] <= 1
        /\ cAnswers[d] = 1 <=> cSession.chan[d].state \notin {"Unused", "Pending"}
    BY DEF WireInv, EngineInv, EngineTypes, OpenAnsweredOnce
  <2>1. CASE d # c
    BY <1>1, <1>5, <2>0, <2>1 DEF WireInv, EngineInv, EngineTypes, Moved
  <2>2. CASE d = c
    <3>1. cAnswers[c] = 0
      BY <1>5, <2>0, <2>2
    <3>2. cAnswers'[c] = 1
      BY <1>1, <1>4, <3>1 DEF WireInv, EngineInv, EngineTypes
    <3> QED  BY <1>5, <2>2, <3>2 DEF Moved, ResultState
  <2> QED  BY <2>1, <2>2
<1> QED
  BY <1>2, <1>3, <1>10, <1>11, <1>12, <1>13 DEF WireInv, EngineInv

\* A heartbeat is answered with a heartbeat.
LEMMA ReceiveHeartbeatStep ==
    ASSUME WireInv, ClientHeartbeatEcho, UNCHANGED gatewayVars
    PROVE  WireInv'
<1> DEFINE p == Head(g2c)
           x == Control(Heartbeat, cSeqOut)
<1>1. /\ ~cClosed /\ g2c # <<>> /\ g2c' = Tail(g2c)
      /\ p.plane = "control" /\ p.msg = Heartbeat
      /\ AcceptsControl(cSession, Heartbeat, Server)
      /\ cSeqIn' = cSeqIn + 1 /\ UNCHANGED <<cStarted, up, cClosed, tableVars, appVars>>
  BY DEF ClientHeartbeatEcho, ClientAcceptsControl
<1>2. /\ g2c \in Seq(ServerPacket) /\ c2g \in Seq(ClientPacket) /\ cSession \in Shape
      /\ cSeqOut \in Nat /\ cSeqIn \in Nat /\ gSeqIn \in Nat
  BY DEF WireInv, EngineInv, EngineTypes, LinkTypes, GatewayInv, ConnectionTypes
<1>3. Heartbeat \in ClientControl /\ Heartbeat.type = "Heartbeat"
  BY DEF ClientControl, Heartbeat
<1>4. /\ x \in ClientPacket /\ x.plane = "control" /\ x.msg = Heartbeat
      /\ x.seq = cSeqOut
  BY <1>2, <1>3, ControlPacket
<1>5. Quiet(p) /\ Quiet(x)
  BY <1>1, <1>3, <1>4 DEF Quiet, IsControl
<1>6. cSession' = cSession /\ cSeqOut' = cSeqOut + 1
  BY <1>2, <1>3, AfterHeartbeat DEF ClientHeartbeatEcho, ClientPushControl
<1> HIDE DEF x
<1>7. up /\ Numbered(Tail(g2c), cSeqIn + 1, gSeqOut)
  BY <1>1, EngineInSequence
<1>8. c2g' = Append(c2g, x)
  BY <1>2, <1>4, <1>7, SentOne DEF ClientHeartbeatEcho, ClientPushControl, Sent, x
<1>9. LinkTypes'
  <2>1. Append(c2g, x) \in Seq(ClientPacket)
    BY <1>2, <1>4, Queued
  <2>2. Tail(g2c) \in Seq(ServerPacket)
    BY <1>1, <1>2, Taken
  <2> QED  BY <1>1, <1>8, <2>1, <2>2 DEF WireInv, LinkTypes
<1>10. Streams'
  <2>1. ASSUME gLoop = "running" PROVE Numbered(Append(c2g, x), gSeqIn, cSeqOut + 1)
    <3>1. Numbered(c2g, gSeqIn, cSeqOut)
      BY <1>7, <2>1 DEF WireInv, Streams
    <3> QED  BY <1>2, <1>4, <3>1, NumberedQueueControl
  <2> QED  BY <1>1, <1>6, <1>7, <1>8, <2>1 DEF Streams, gatewayVars
<1>11. Agreeing'
  <2> SUFFICES ASSUME Connected' PROVE Joint(cSession', gSession', c2g', g2c')
    BY DEF Agreeing
  <2>1. gSession' = gSession /\ Connected
    BY <1>1 DEF Connected, gatewayVars
  <2>2. Joint(cSession, gSession, c2g, g2c)
    BY <2>1 DEF WireInv, Agreeing
  <2>3. Joint(cSession, gSession, c2g, Tail(g2c))
    BY <1>1, <1>2, <1>5, <2>2, QuietTakeIn
  <2>4. Joint(cSession, gSession, Append(c2g, x), Tail(g2c))
    BY <1>2, <1>4, <1>5, <2>3, QuietQueueOut
  <2> QED  BY <1>1, <1>6, <1>8, <2>1, <2>4
<1>12. GatewayInv'
  BY DEF WireInv, GatewayInv, ConnectionTypes, BackendTypes, EntitiesOwned, gatewayVars
<1>13. EngineInv'
  BY <1>1, <1>2, <1>6 DEF WireInv, EngineInv, EngineTypes, Unstarted, EngineTables,
     OpenAnsweredOnce, tableVars, appVars
<1> QED  BY <1>9, <1>10, <1>11, <1>12, <1>13 DEF WireInv

\* An Error fails the pending channel it is about, or ends the engine.
LEMMA ReceiveErrorStep ==
    ASSUME WireInv, NEW m, ClientError(m), UNCHANGED gatewayVars
    PROVE  WireInv'
<1>1. /\ m.type = "Error" /\ ClientAcceptsControl(m)
      /\ cSession' = AfterControl(cSession, m)
      /\ cClosed' = IsSessionError(cSession, m)
      /\ UNCHANGED <<cSeqOut, cActive, c2g>>
  BY DEF ClientError
<1>2. /\ m \in ServerControl /\ cSession \in Shape
      /\ AcceptsControl(cSession, m, Server) /\ cStarted' = cStarted
      /\ cSession' \in Shape /\ cSeqIn' \in Nat
      /\ LinkTypes' /\ Streams' /\ GatewayInv'
      /\ ~cClosed' /\ ~IsSessionError(cSession, m) => Agreeing'
  BY <1>1, EngineAccepts
<1>3. ~cClosed /\ InSelectedPlane(cSession.phase)
  BY <1>1 DEF ClientAcceptsControl
<1>4. cStarted
  BY <1>3 DEF WireInv, EngineInv, Unstarted, InSelectedPlane
<1>5. Agreeing'
  <2>1. CASE cClosed'
    BY <2>1 DEF Agreeing, Connected
  <2>2. CASE ~cClosed'
    BY <1>1, <1>2, <2>2
  <2> QED  BY <2>1, <2>2
<1>6. m.ch \in ChannelIds \cup {NoChannel}
  BY <1>1, <1>2, ServerControlTypes
<1>7. Unstarted'
  BY <1>2, <1>4 DEF Unstarted
<1>8. CASE ~FailsPendingChannel(cSession, m)
  <2>1. cSession'.chan = cSession.chan
    BY <1>1, <1>2, <1>6, <1>8, AfterErrorMessage
  <2>2. UNCHANGED <<cPending, cAnswers>>
    BY <1>8 DEF ClientError
  <2>3. cClosed' \in BOOLEAN
    BY <1>1 DEF IsSessionError
  <2>4. EngineTypes'
    BY <1>1, <1>2, <2>2, <2>3 DEF WireInv, EngineInv, EngineTypes
  <2>5. EngineTables' /\ OpenAnsweredOnce'
    BY <1>1, <1>3, <2>1, <2>2 DEF WireInv, EngineInv, EngineTables, OpenAnsweredOnce
  <2> QED  BY <1>2, <1>5, <1>7, <2>4, <2>5 DEF WireInv, EngineInv
<1>9. CASE FailsPendingChannel(cSession, m)
  <2> DEFINE c == m.ch
  <2>1. /\ c \in ChannelIds /\ cSession.chan[c].state = "Pending"
        /\ Moved(cSession, cSession', c, "Failed", cSession.chan[c].kind)
    BY <1>1, <1>2, <1>6, <1>9, AfterErrorMessage
  <2>2. /\ cPending' = [cPending EXCEPT ![c] = NoKind]
        /\ cAnswers' = [cAnswers EXCEPT ![c] = @ + 1]
    BY <1>9 DEF ClientError
  <2> HIDE DEF c
  <2>3. cClosed' \in BOOLEAN
    BY <1>1 DEF IsSessionError
  <2>4. EngineTypes'
    BY <1>1, <1>2, <2>1, <2>2, <2>3 DEF WireInv, EngineInv, EngineTypes
  <2>5. EngineTables'
    <3> SUFFICES ASSUME NEW d \in ChannelIds
                 PROVE  /\ cPending'[d] = IF cSession'.chan[d].state = "Pending"
                                          THEN cSession'.chan[d].kind ELSE NoKind
                        /\ cActive'[d].kind = IF cSession'.chan[d].state = "Active"
                                              THEN cSession'.chan[d].kind ELSE NoKind
      BY DEF EngineTables
    <3> QED
      BY <1>1, <1>3, <2>1, <2>2 DEF WireInv, EngineInv, EngineTypes, EngineTables, Moved
  <2>6. OpenAnsweredOnce'
    BY <2>1, <2>2 DEF WireInv, EngineInv, EngineTypes, OpenAnsweredOnce, Moved
  <2> QED  BY <1>2, <1>5, <1>7, <2>4, <2>5, <2>6 DEF WireInv, EngineInv
<1> QED  BY <1>8, <1>9

\* SessionReady and the graph messages are recorded in the session.
LEMMA ReceiveOtherStep ==
    ASSUME WireInv, NEW m, ClientOtherControl(m), UNCHANGED gatewayVars
    PROVE  WireInv'
<1>1. /\ m.type \notin {"ChannelReady", "Heartbeat", "Error"} /\ ClientAcceptsControl(m)
      /\ cSession' = AfterControl(cSession, m)
      /\ UNCHANGED <<cClosed, cSeqOut, tableVars, appVars, c2g>>
  BY DEF ClientOtherControl
<1>2. /\ m \in ServerControl /\ cSession \in Shape
      /\ AcceptsControl(cSession, m, Server) /\ cStarted' = cStarted
      /\ cSession' \in Shape /\ cSeqIn' \in Nat
      /\ LinkTypes' /\ Streams' /\ GatewayInv'
      /\ ~cClosed' /\ ~IsSessionError(cSession, m) => Agreeing'
  BY <1>1, EngineAccepts
<1>3. ~cClosed /\ InSelectedPlane(cSession.phase) /\ ~IsSessionError(cSession, m)
  BY <1>1 DEF ClientAcceptsControl, IsSessionError
<1>4. cStarted
  BY <1>3 DEF WireInv, EngineInv, Unstarted, InSelectedPlane
<1>5. cSession'.chan = cSession.chan
  <2>1. CASE m.type = "SessionReady"
    BY <1>1, <1>2, <2>1, AfterSessionReady DEF Rephased
  <2>2. CASE m.type \in {"GraphSnapshot", "GraphDelta"}
    <3>1. m.gen \in Int
      BY <1>2, <2>2, ServerControlTypes
    <3> QED  BY <1>1, <1>2, <2>2, <3>1, AfterGraphMessage DEF Dated
  <2> QED  BY <1>1, <1>2, <2>1, <2>2, ServerControlTypes
<1>6. EngineInv'
  BY <1>1, <1>2, <1>4, <1>5 DEF WireInv, EngineInv, EngineTypes, Unstarted,
     EngineTables, OpenAnsweredOnce, tableVars, appVars
<1> QED  BY <1>1, <1>2, <1>3, <1>6 DEF WireInv

\* A sample or an operation frame is delivered.
LEMMA ReceiveDataStep ==
    ASSUME WireInv, ClientReceiveData, UNCHANGED gatewayVars
    PROVE  WireInv'
<1> DEFINE p == Head(g2c)
<1>1. /\ ~cClosed /\ g2c # <<>> /\ g2c' = Tail(g2c) /\ p.plane = "data"
      /\ UNCHANGED <<cSession, cStarted, cClosed, cSeqOut, cSeqIn, tableVars,
                     cAnswers, c2g, up>>
  BY DEF ClientReceiveData
<1>2. g2c \in Seq(ServerPacket)
  BY DEF WireInv, LinkTypes
<1>3. Quiet(p)
  BY <1>1 DEF Quiet
<1>4. LinkTypes' /\ Streams' /\ GatewayInv'
  <2>1. cSeqIn' = IF Head(g2c).plane = "control" THEN cSeqIn + 1 ELSE cSeqIn
    BY <1>1
  <2> QED  BY <1>1, <2>1, EngineTakes
<1>5. Agreeing'
  <2> SUFFICES ASSUME Connected' PROVE Joint(cSession', gSession', c2g', g2c')
    BY DEF Agreeing
  <2>1. gSession' = gSession /\ Connected
    BY <1>1 DEF Connected, gatewayVars
  <2>2. Joint(cSession, gSession, c2g, g2c)
    BY <2>1 DEF WireInv, Agreeing
  <2>3. Joint(cSession, gSession, c2g, Tail(g2c))
    BY <1>1, <1>2, <1>3, <2>2, QuietTakeIn
  <2> QED  BY <1>1, <2>1, <2>3
<1>6. EngineInv'
  BY <1>1, EngineSame DEF WireInv
<1> QED  BY <1>4, <1>5, <1>6 DEF WireInv

\* An engine that is closed discards what arrives.
LEMMA DiscardStep ==
    ASSUME WireInv, ClientDiscard, UNCHANGED gatewayVars
    PROVE  WireInv'
<1>1. /\ cClosed /\ g2c # <<>> /\ g2c' = Tail(g2c)
      /\ UNCHANGED <<clientVars, c2g, up>>
  BY DEF ClientDiscard
<1>2. cClosed' = TRUE
  BY <1>1 DEF WireInv, EngineInv, EngineTypes, clientVars
<1>3. EngineInv'
  BY <1>1, <1>2, EngineSame DEF WireInv, clientVars, tableVars
<1>4. LinkTypes' /\ Streams' /\ Agreeing' /\ GatewayInv'
  BY <1>1, <1>2, EngineStops DEF clientVars
<1> QED  BY <1>3, <1>4 DEF WireInv

\* One lemma for each thing the engine may do with a packet.
LEMMA EngineReceiveStep ==
    ASSUME WireInv, ClientReceive, UNCHANGED gatewayVars
    PROVE  WireInv'
  BY ReceiveBadStep, ReceiveBootstrapStep, ReceiveReadyStep, ReceiveHeartbeatStep,
     ReceiveErrorStep, ReceiveOtherStep, ReceiveDataStep, DiscardStep
  DEF ClientReceive

-----------------------------------------------------------------------------
(* What a handler of the gateway accumulates: packets that continue the    *)
(* numbers of the stream they will join, and a session that agrees with    *)
(* the engine's once they are in it.                                       *)

Outbox ==
    [session : Shape, seq : Nat, out : Seq(ServerPacket), close : BOOLEAN]

Follows(o) ==
    \A lo \in Nat : Numbered(g2c, lo, gSeqOut) => Numbered(g2c \o o.out, lo, o.seq)

Sending(o) == o \in Outbox /\ Follows(o)

Joined(o, out) == ~o.close => Joint(cSession, o.session, out, g2c \o o.out)

\* What a handler pushes goes behind what it pushed before.
LEMMA ConcatAppend ==
    ASSUME NEW S, NEW q \in Seq(S), NEW r \in Seq(S), NEW x \in S
    PROVE  q \o Append(r, x) = Append(q \o r, x) /\ q \o r \in Seq(S)
  OBVIOUS

\* A handler starts with nothing to send.
LEMMA SendingOutcome ==
    ASSUME WireInv, NEW s \in Shape
    PROVE  /\ Sending(Outcome(s)) /\ Outcome(s).session = s
           /\ Outcome(s).close = FALSE /\ g2c \o Outcome(s).out = g2c
<1>1. g2c \in Seq(ServerPacket) /\ gSeqOut \in Nat
  BY DEF WireInv, LinkTypes, GatewayInv, ConnectionTypes
<1>2. g2c \o <<>> = g2c
  BY <1>1
<1>3. /\ Outcome(s) \in Outbox /\ Outcome(s).session = s /\ Outcome(s).out = <<>>
      /\ Outcome(s).seq = gSeqOut /\ Outcome(s).close = FALSE
  BY <1>1 DEF Outcome, Outbox
<1> QED  BY <1>2, <1>3 DEF Sending, Follows

\* What push_control, push_app_frame and fail_session make of an outcome.
LEMMA PushedControl ==
    ASSUME NEW o \in Outbox, NEW m
    PROVE  /\ AcceptsControl(o.session, m, Server) =>
                 PushControl(o, m) =
                    [session |-> AfterControl(o.session, m), seq |-> o.seq + 1,
                     out |-> Append(o.out, Control(m, o.seq)), close |-> o.close]
           /\ ~AcceptsControl(o.session, m, Server) =>
                 PushControl(o, m) =
                    [session |-> o.session, seq |-> o.seq, out |-> o.out,
                     close |-> TRUE]
  BY DEF PushControl, Closing, Outbox

\* push_control continues the numbers of the stream.
LEMMA SendingControl ==
    ASSUME WireInv, NEW o, Sending(o), NEW m \in ServerControl
    PROVE  Sending(PushControl(o, m))
<1> DEFINE x == Control(m, o.seq)
<1>0. o \in Outbox /\ g2c \in Seq(ServerPacket)
  BY DEF Sending, WireInv, LinkTypes
<1>1. o.session \in Shape /\ o.seq \in Nat /\ o.out \in Seq(ServerPacket)
      /\ o.close \in BOOLEAN
  BY <1>0 DEF Outbox
<1>2. x \in ServerPacket /\ x.plane = "control" /\ x.seq = o.seq
  BY <1>1, ControlPacket
<1> HIDE DEF x
<1>3. CASE AcceptsControl(o.session, m, Server)
  <2> DEFINE r == PushControl(o, m)
  <2>1. r = [session |-> AfterControl(o.session, m), seq |-> o.seq + 1,
             out |-> Append(o.out, x), close |-> o.close]
    BY <1>0, <1>3, PushedControl DEF x
  <2>2. AfterControl(o.session, m) \in Shape
    BY <1>1, <1>3, ShapeKept
  <2>3. Append(o.out, x) \in Seq(ServerPacket) /\ o.seq + 1 \in Nat
    BY <1>1, <1>2, Queued
  <2> HIDE DEF r
  <2>4. r \in Outbox /\ r.out = Append(o.out, x) /\ r.seq = o.seq + 1
    BY <1>1, <2>1, <2>2, <2>3 DEF Outbox
  <2>5. ASSUME NEW lo \in Nat, Numbered(g2c, lo, gSeqOut)
        PROVE  Numbered(g2c \o r.out, lo, r.seq)
    <3>1. Numbered(g2c \o o.out, lo, o.seq)
      BY <2>5 DEF Sending, Follows
    <3>2. g2c \o r.out = Append(g2c \o o.out, x) /\ g2c \o o.out \in Seq(ServerPacket)
      <4>1. /\ g2c \o Append(o.out, x) = Append(g2c \o o.out, x)
            /\ g2c \o o.out \in Seq(ServerPacket)
        BY <1>0, <1>1, <1>2, ConcatAppend
      <4> QED  BY <2>4, <4>1
    <3>3. Numbered(Append(g2c \o o.out, x), lo, o.seq + 1)
      BY <1>1, <1>2, <3>1, <3>2, NumberedQueueControl
    <3> QED  BY <2>4, <3>2, <3>3
  <2>6. Sending(r)
    BY <2>4, <2>5 DEF Sending, Follows
  <2> QED  BY <2>6 DEF r
<1>4. CASE ~AcceptsControl(o.session, m, Server)
  <2> DEFINE r == PushControl(o, m)
  <2>1. r = [session |-> o.session, seq |-> o.seq, out |-> o.out, close |-> TRUE]
    BY <1>0, <1>4, PushedControl
  <2> HIDE DEF r
  <2>2. r \in Outbox /\ r.out = o.out /\ r.seq = o.seq
    BY <1>1, <2>1 DEF Outbox
  <2>3. Sending(r)
    BY <2>2 DEF Sending, Follows
  <2> QED  BY <2>3 DEF r
<1> QED  BY <1>3, <1>4

\* An outcome that does not close accepted what was pushed.
LEMMA OpenOutcome ==
    ASSUME WireInv, NEW o, Sending(o), NEW m \in ServerControl, ~PushControl(o, m).close
    PROVE  /\ ~o.close /\ AcceptsControl(o.session, m, Server) /\ o.session \in Shape
           /\ PushControl(o, m).session = AfterControl(o.session, m)
           /\ g2c \o PushControl(o, m).out
                 = Append(g2c \o o.out, Control(m, o.seq))
           /\ g2c \o o.out \in Seq(ServerPacket)
           /\ Control(m, o.seq) \in ServerPacket
<1>0. o \in Outbox /\ g2c \in Seq(ServerPacket)
  BY DEF Sending, WireInv, LinkTypes
<1>1. o.session \in Shape /\ o.seq \in Nat /\ o.out \in Seq(ServerPacket)
      /\ o.close \in BOOLEAN
  BY <1>0 DEF Outbox
<1>2. AcceptsControl(o.session, m, Server)
  BY <1>0, PushedControl
<1>3. PushControl(o, m) =
         [session |-> AfterControl(o.session, m), seq |-> o.seq + 1,
          out |-> Append(o.out, Control(m, o.seq)), close |-> o.close]
  BY <1>0, <1>2, PushedControl
<1>4. Control(m, o.seq) \in ServerPacket
  BY <1>1, ControlPacket
<1>5. /\ g2c \o Append(o.out, Control(m, o.seq)) = Append(g2c \o o.out, Control(m, o.seq))
      /\ g2c \o o.out \in Seq(ServerPacket)
  BY <1>0, <1>1, <1>4, ConcatAppend
<1>6. /\ PushControl(o, m).close = o.close
      /\ PushControl(o, m).session = AfterControl(o.session, m)
      /\ PushControl(o, m).out = Append(o.out, Control(m, o.seq))
  BY <1>3
<1> QED  BY <1>1, <1>2, <1>4, <1>5, <1>6

\* What is pushed keeps the two sessions related: a heartbeat,
LEMMA JoinedQuiet ==
    ASSUME WireInv, NEW o, Sending(o), NEW out, Joined(o, out)
    PROVE  Joined(PushControl(o, Heartbeat), out)
<1> DEFINE r == PushControl(o, Heartbeat)
<1> SUFFICES ASSUME ~r.close PROVE Joint(cSession, r.session, out, g2c \o r.out)
  BY DEF Joined
<1>1. Heartbeat \in ServerControl /\ Heartbeat.type = "Heartbeat"
  BY DEF ServerControl, Heartbeat
<1> DEFINE x == Control(Heartbeat, o.seq)
<1>2. /\ ~o.close /\ o.session \in Shape
      /\ r.session = AfterControl(o.session, Heartbeat)
      /\ g2c \o r.out = Append(g2c \o o.out, x)
      /\ g2c \o o.out \in Seq(ServerPacket) /\ x \in ServerPacket
  BY <1>1, OpenOutcome
<1>3. r.session = o.session
  BY <1>1, <1>2, AfterHeartbeat
<1>4. Quiet(x)
  BY <1>1, ControlPacket DEF Quiet, IsControl
<1> HIDE DEF r, x
<1>5. Joint(cSession, o.session, out, g2c \o o.out)
  BY <1>2 DEF Joined
<1>6. Joint(cSession, o.session, out, Append(g2c \o o.out, x))
  BY <1>2, <1>4, <1>5, QuietQueueIn
<1> QED  BY <1>2, <1>3, <1>6

\* a graph message, which dates the gateway's session,
LEMMA JoinedGraph ==
    ASSUME WireInv, NEW o, Sending(o), NEW out, Joined(o, out),
           NEW m \in ServerControl, m.type \in {"GraphSnapshot", "GraphDelta"}
    PROVE  Joined(PushControl(o, m), out)
<1> DEFINE r == PushControl(o, m)
           x == Control(m, o.seq)
<1> SUFFICES ASSUME ~r.close PROVE Joint(cSession, r.session, out, g2c \o r.out)
  BY DEF Joined
<1>2. /\ ~o.close /\ o.session \in Shape /\ AcceptsControl(o.session, m, Server)
      /\ r.session = AfterControl(o.session, m)
      /\ g2c \o r.out = Append(g2c \o o.out, x)
      /\ g2c \o o.out \in Seq(ServerPacket) /\ x \in ServerPacket
  BY OpenOutcome
<1>3. m.gen \in Int
  BY ServerControlTypes
<1>4. IsGraph(x) /\ x.msg = m
  BY ControlPacket DEF IsGraph
<1> HIDE DEF r, x
<1>5. Dated(o.session, r.session, x.msg.gen)
  BY <1>2, <1>3, <1>4, AfterGraphMessage
<1>6. Joint(cSession, o.session, out, g2c \o o.out)
  BY <1>2 DEF Joined
<1>7. Joint(cSession, r.session, out, Append(g2c \o o.out, x))
  BY <1>2, <1>4, <1>5, <1>6, JointAnnounced
<1> QED  BY <1>2, <1>7

\* the report of a failed backend call on an active channel,
LEMMA JoinedReport ==
    ASSUME WireInv, NEW o, Sending(o), NEW out, NEW c \in ChannelIds, NEW ok,
           o.session.phase = "Ready", o.session.chan[c].state = "Active"
    PROVE  /\ Sending(Report(o, c, ok))
           /\ Joined(o, out) => Joined(Report(o, c, ok), out)
           /\ ~Report(o, c, ok).close => Report(o, c, ok).session = o.session
<1> DEFINE m == ChannelError(c)
           r == PushControl(o, m)
           x == Control(m, o.seq)
<1>1. /\ m \in ServerControl /\ m.type = "Error" /\ m.ch = c
      /\ m.ch \in ChannelIds \cup {NoChannel}
  BY DEF ServerControl, ChannelError
<1> HIDE DEF m
<1>2. Sending(r)
  BY <1>1, SendingControl
<1>3. ASSUME ~r.close
      PROVE  /\ r.session = o.session
             /\ Joined(o, out) => Joint(cSession, r.session, out, g2c \o r.out)
  <2>1. /\ ~o.close /\ o.session \in Shape
        /\ r.session = AfterControl(o.session, m)
        /\ g2c \o r.out = Append(g2c \o o.out, x)
        /\ g2c \o o.out \in Seq(ServerPacket) /\ x \in ServerPacket
    BY <1>1, <1>3, OpenOutcome
  <2>2. ~FailsPendingChannel(o.session, m)
    BY <1>1 DEF FailsPendingChannel
  <2>3. r.session = o.session
    BY <1>1, <2>1, <2>2, AfterErrorMessage
  <2>4. About(x, "Error", c)
    BY <1>1, ControlPacket DEF About
  <2> HIDE DEF r, x
  <2>5. ASSUME Joined(o, out) PROVE Joint(cSession, r.session, out, g2c \o r.out)
    <3>1. Joint(cSession, o.session, out, g2c \o o.out)
      BY <2>1, <2>5 DEF Joined
    <3>2. Joint(cSession, o.session, out, Append(g2c \o o.out, x))
      BY <2>1, <2>4, <3>1, JointReported
    <3> QED  BY <2>1, <2>3, <3>2
  <2> QED  BY <2>3, <2>5
<1> HIDE DEF r
<1>4. Report(o, c, ok) = IF ok THEN o ELSE r
  BY DEF Report, r, m
<1> QED  BY <1>2, <1>3, <1>4 DEF Joined

\* and a data frame.
LEMMA JoinedFrame ==
    ASSUME WireInv, NEW o, Sending(o), NEW out, NEW f \in Frame, NEW n \in Nat
    PROVE  /\ Sending(PushFrame(o, f, n))
           /\ Joined(o, out) => Joined(PushFrame(o, f, n), out)
           /\ PushFrame(o, f, n).session = o.session
<1> DEFINE x == Data(f, n)
           r == PushFrame(o, f, n)
<1>0. o \in Outbox /\ g2c \in Seq(ServerPacket)
  BY DEF Sending, WireInv, LinkTypes
<1>1. o.session \in Shape /\ o.seq \in Nat /\ o.out \in Seq(ServerPacket)
      /\ o.close \in BOOLEAN
  BY <1>0 DEF Outbox
<1>2. x \in ServerPacket /\ x.plane # "control" /\ Quiet(x)
  BY DataPacket
<1>3. \/ r = [session |-> o.session, seq |-> o.seq, out |-> o.out, close |-> TRUE]
      \/ r = [session |-> o.session, seq |-> o.seq, out |-> Append(o.out, x),
             close |-> o.close]
  BY <1>0 DEF PushFrame, Closing, Outbox
<1> HIDE DEF x, r
<1>4. CASE r = [session |-> o.session, seq |-> o.seq, out |-> o.out, close |-> TRUE]
  <2>1. r \in Outbox /\ r.session = o.session /\ r.seq = o.seq /\ r.out = o.out /\ r.close
    BY <1>1, <1>4 DEF Outbox
  <2> QED  BY <2>1 DEF Sending, Follows, Joined, r
<1>5. CASE r = [session |-> o.session, seq |-> o.seq, out |-> Append(o.out, x),
                close |-> o.close]
  <2>1. Append(o.out, x) \in Seq(ServerPacket)
    BY <1>1, <1>2, Queued
  <2>2. /\ r \in Outbox /\ r.session = o.session /\ r.seq = o.seq
        /\ r.out = Append(o.out, x) /\ r.close = o.close
    BY <1>1, <1>5, <2>1 DEF Outbox
  <2>3. g2c \o r.out = Append(g2c \o o.out, x) /\ g2c \o o.out \in Seq(ServerPacket)
    <3>1. /\ g2c \o Append(o.out, x) = Append(g2c \o o.out, x)
          /\ g2c \o o.out \in Seq(ServerPacket)
      BY <1>0, <1>1, <1>2, ConcatAppend
    <3> QED  BY <2>2, <3>1
  <2>4. ASSUME NEW lo \in Nat, Numbered(g2c, lo, gSeqOut)
        PROVE  Numbered(g2c \o r.out, lo, r.seq)
    <3>1. Numbered(g2c \o o.out, lo, o.seq)
      BY <2>4 DEF Sending, Follows
    <3>2. Numbered(Append(g2c \o o.out, x), lo, o.seq)
      BY <1>1, <1>2, <2>3, <3>1, NumberedQueueOther
    <3> QED  BY <2>2, <2>3, <3>2
  <2>5. ASSUME Joined(o, out), ~o.close
        PROVE  Joint(cSession, r.session, out, g2c \o r.out)
    <3>1. Joint(cSession, o.session, out, g2c \o o.out)
      BY <2>5 DEF Joined
    <3>2. Joint(cSession, o.session, out, Append(g2c \o o.out, x))
      BY <1>2, <2>3, <3>1, QuietQueueIn
    <3> QED  BY <2>2, <2>3, <3>2
  <2> QED  BY <2>2, <2>4, <2>5 DEF Sending, Follows, Joined, r
<1> QED  BY <1>3, <1>4, <1>5

\* Closing an outcome.
LEMMA SendingClosing ==
    ASSUME NEW o, Sending(o)
    PROVE  Sending(Closing(o)) /\ Closing(o).close
<1>1. o \in Outbox
  BY DEF Sending
<1>2. /\ Closing(o) \in Outbox /\ Closing(o).close
      /\ Closing(o).out = o.out /\ Closing(o).seq = o.seq
  BY <1>1 DEF Closing, Outbox
<1> QED  BY <1>2 DEF Sending, Follows

\* The two ways a session fails.
LEMMA SendingBootstrapError ==
    ASSUME WireInv, NEW o, Sending(o)
    PROVE  Sending(PushBootstrapError(o)) /\ PushBootstrapError(o).close
<1> DEFINE x == Bootstrap("BootstrapError")
           r == [o EXCEPT !.out = Append(@, x)]
<1>0. o \in Outbox /\ g2c \in Seq(ServerPacket)
  BY DEF Sending, WireInv, LinkTypes
<1>1. o.out \in Seq(ServerPacket) /\ o.seq \in Nat
  BY <1>0 DEF Outbox
<1>2. x \in ServerPacket /\ x.plane # "control"
  BY DEF Bootstrap, ServerPacket
<1>3. Append(o.out, x) \in Seq(ServerPacket)
  BY <1>1, <1>2, Queued
<1> HIDE DEF x
<1>4. r \in Outbox /\ r.out = Append(o.out, x) /\ r.seq = o.seq
  BY <1>0, <1>3 DEF Outbox
<1> HIDE DEF r
<1>5. g2c \o r.out = Append(g2c \o o.out, x) /\ g2c \o o.out \in Seq(ServerPacket)
  <2>1. /\ g2c \o Append(o.out, x) = Append(g2c \o o.out, x)
        /\ g2c \o o.out \in Seq(ServerPacket)
    BY <1>0, <1>1, <1>2, ConcatAppend
  <2> QED  BY <1>4, <2>1
<1>6. ASSUME NEW lo \in Nat, Numbered(g2c, lo, gSeqOut)
      PROVE  Numbered(g2c \o r.out, lo, r.seq)
  <2>1. Numbered(g2c \o o.out, lo, o.seq)
    BY <1>6 DEF Sending, Follows
  <2>2. Numbered(Append(g2c \o o.out, x), lo, o.seq)
    BY <1>1, <1>2, <1>5, <2>1, NumberedQueueOther
  <2> QED  BY <1>4, <1>5, <2>2
<1>7. Sending(r)
  BY <1>4, <1>6 DEF Sending, Follows
<1>8. PushBootstrapError(o) = Closing(r)
  BY DEF PushBootstrapError, r, x
<1> QED  BY <1>7, <1>8, SendingClosing

\* fail_session, in the plane the session is in.
LEMMA SendingFailure ==
    ASSUME WireInv, NEW o, Sending(o)
    PROVE  Sending(FailSession(o)) /\ FailSession(o).close
<1>1. SessionError \in ServerControl
  BY DEF ServerControl
<1>2. Sending(PushControl(o, SessionError))
  BY <1>1, SendingControl
<1> QED  BY <1>2, SendingClosing, SendingBootstrapError DEF FailSession

-----------------------------------------------------------------------------
(* The steps of the gateway. *)

\* The loop sends what the handler accumulated.
LEMMA GatewayFinishes ==
    ASSUME WireInv, NEW o, Sending(o), Finish(o), gLoop = "running",
           UNCHANGED <<clientVars, up>>, c2g' \in Seq(ClientPacket),
           ~up => c2g' = <<>>,
           up /\ ~o.close => Numbered(c2g', gSeqIn', cSeqOut),
           Connected => Joined(o, c2g')
    PROVE  /\ EngineInv' /\ LinkTypes' /\ Streams' /\ Agreeing'
           /\ gSession' \in Shape /\ gSeqOut' \in Nat
           /\ gLoop' \in {"running", "closing"}
           /\ gLoop' = "running" => ~o.close
           /\ gSession' = o.session
<1>0. o \in Outbox /\ g2c \in Seq(ServerPacket) /\ cSeqIn \in Nat
  BY DEF Sending, WireInv, LinkTypes, EngineInv, EngineTypes
<1>1. o.session \in Shape /\ o.seq \in Nat /\ o.out \in Seq(ServerPacket)
      /\ o.close \in BOOLEAN
  BY <1>0 DEF Outbox
<1>2. /\ gSession' = o.session /\ gSeqOut' = o.seq
      /\ g2c' = IF up THEN g2c \o o.out ELSE g2c
      /\ gLoop' = IF o.close THEN "closing" ELSE "running"
  BY DEF Finish, Sent
<1>3. gLoop' \in {"running", "closing"} /\ (gLoop' = "running" => ~o.close)
  BY <1>1, <1>2
<1>4. EngineInv'
  BY DEF WireInv, EngineInv, EngineTypes, Unstarted, EngineTables, OpenAnsweredOnce,
         clientVars
<1>5. g2c \o o.out \in Seq(ServerPacket)
  BY <1>0, <1>1
<1>6. LinkTypes'
  BY <1>0, <1>2, <1>5 DEF WireInv, LinkTypes
<1>7. Streams'
  <2>1. ASSUME up, ~cClosed PROVE Numbered(g2c \o o.out, cSeqIn, o.seq)
    <3>1. Numbered(g2c, cSeqIn, gSeqOut)
      BY <2>1 DEF WireInv, Streams
    <3> QED  BY <1>0, <3>1 DEF Sending, Follows
  <2>2. ~up => g2c = <<>>
    BY DEF WireInv, Streams
  <2> QED  BY <1>2, <1>3, <2>1, <2>2 DEF Streams, clientVars
<1>8. Agreeing'
  <2> SUFFICES ASSUME Connected' PROVE Joint(cSession', gSession', c2g', g2c')
    BY DEF Agreeing
  <2>1. up /\ ~o.close /\ Connected
    BY <1>3 DEF Connected, clientVars
  <2>2. Joint(cSession, o.session, c2g', g2c \o o.out)
    BY <2>1 DEF Joined
  <2> QED  BY <1>2, <2>1, <2>2 DEF clientVars
<1> QED  BY <1>1, <1>2, <1>3, <1>4, <1>6, <1>7, <1>8

\* What the loop knows of the packet it takes.
LEMMA GatewayTakes ==
    ASSUME WireInv, NEW p, Inbound(p)
    PROVE  /\ gLoop = "running" /\ up /\ c2g # <<>> /\ p = Head(c2g)
           /\ up' = up /\ c2g' = Tail(c2g)
           /\ p \in ClientPacket /\ c2g \in Seq(ClientPacket)
           /\ c2g' \in Seq(ClientPacket) /\ gSession \in Shape /\ gSeqIn \in Nat
           /\ p.plane = "control" =>
                 p.seq = gSeqIn /\ Numbered(c2g', gSeqIn + 1, cSeqOut)
           /\ p.plane # "control" => Numbered(c2g', gSeqIn, cSeqOut)
           /\ Connected => Joint(cSession, gSession, c2g, g2c)
           /\ g2c \in Seq(ServerPacket) /\ gSeqOut \in Nat
<1>1. /\ gLoop = "running" /\ c2g # <<>> /\ p = Head(c2g)
      /\ up' = up /\ c2g' = Tail(c2g)
  BY DEF Inbound
<1>2. /\ c2g \in Seq(ClientPacket) /\ gSession \in Shape /\ gSeqIn \in Nat
      /\ cSeqOut \in Nat /\ g2c \in Seq(ServerPacket) /\ gSeqOut \in Nat
  BY DEF WireInv, LinkTypes, EngineInv, EngineTypes, GatewayInv, ConnectionTypes
<1>3. p \in ClientPacket /\ Tail(c2g) \in Seq(ClientPacket)
  BY <1>1, <1>2, Taken
<1>4. up /\ Numbered(c2g, gSeqIn, cSeqOut)
  BY <1>1 DEF WireInv, Streams, LinkTypes
<1>5. /\ Head(c2g).plane = "control" =>
            Head(c2g).seq = gSeqIn /\ Numbered(Tail(c2g), gSeqIn + 1, cSeqOut)
      /\ Head(c2g).plane # "control" => Numbered(Tail(c2g), gSeqIn, cSeqOut)
  BY <1>1, <1>2, <1>4, NumberedTake
<1>6. Connected => Joint(cSession, gSession, c2g, g2c)
  BY DEF WireInv, Agreeing
<1> QED  BY <1>1, <1>2, <1>3, <1>4, <1>5, <1>6

\* The entities are as they were when only counters of the channels changed,
\* unless the loop runs on with other channels active.
Counted ==
    /\ gRuntime' \in [ChannelIds -> Runtime \cup {NoRuntime}]
    /\ \A c \in ChannelIds :
          /\ gRuntime'[c] = NoRuntime <=> gRuntime[c] = NoRuntime
          /\ gRuntime'[c].entity = gRuntime[c].entity

\* No counter changed, or those of one channel.
LEMMA CountedSame ==
    ASSUME BackendTypes, UNCHANGED gRuntime
    PROVE  Counted
  BY DEF BackendTypes, Counted

LEMMA CountedOne ==
    ASSUME BackendTypes, NEW c \in ChannelIds, gRuntime[c] # NoRuntime,
           NEW r \in Runtime, r.entity = gRuntime[c].entity,
           gRuntime' = [gRuntime EXCEPT ![c] = r]
    PROVE  Counted
<1>1. gRuntime \in [ChannelIds -> Runtime \cup {NoRuntime}]
  BY DEF BackendTypes
<1>2. r # NoRuntime
  BY DEF Runtime, NoRuntime, OperationKind, NoKind
<1>3. gRuntime' \in [ChannelIds -> Runtime \cup {NoRuntime}]
  BY <1>1
<1>4. ASSUME NEW d \in ChannelIds
      PROVE  /\ gRuntime'[d] = NoRuntime <=> gRuntime[d] = NoRuntime
             /\ gRuntime'[d].entity = gRuntime[d].entity
  <2>1. CASE d = c
    BY <1>1, <1>2, <2>1
  <2>2. CASE d # c
    BY <1>1, <2>2
  <2> QED  BY <2>1, <2>2
<1> QED  BY <1>3, <1>4 DEF Counted

\* Then entities and runtimes still match.
LEMMA EntitiesKept ==
    ASSUME GatewayInv, gLoop = "running", gLoop' \in {"running", "closing"},
           Counted, UNCHANGED backendVars,
           gLoop' = "running" => \A c \in ChannelIds :
               gSession'.chan[c].state = "Active" <=> gSession.chan[c].state = "Active"
    PROVE  EntitiesOwned'
<1>1. \A e \in bLive : e.ch \in ChannelIds
  BY DEF GatewayInv, BackendTypes
<1>2. bLive' = bLive
  BY DEF backendVars
<1>3. \A e \in bLive : gRuntime'[e.ch] # NoRuntime /\ gRuntime'[e.ch].entity = e.id
  BY <1>1 DEF GatewayInv, EntitiesOwned, Counted
<1>4. ASSUME gLoop' = "running", NEW c \in ChannelIds
      PROVE  gRuntime'[c] # NoRuntime <=> gSession'.chan[c].state = "Active"
  BY <1>4 DEF GatewayInv, EntitiesOwned, Counted
<1> QED  BY <1>2, <1>3, <1>4 DEF EntitiesOwned

\* The types of what a handler that sends leaves alone.
LEMMA GatewayKept ==
    ASSUME GatewayInv, gSession' \in Shape, gSeqOut' \in Nat, gSeqIn' \in Nat,
           gLoop' \in {"running", "closing"}, gGeneration' \in Int,
           Counted, UNCHANGED <<sinkVars, backendVars>>,
           EntitiesOwned'
    PROVE  GatewayInv'
<1>1. ConnectionTypes'
  BY DEF ConnectionTypes
<1>2. BackendTypes'
  BY DEF GatewayInv, BackendTypes, Counted, sinkVars, backendVars
<1> QED  BY <1>1, <1>2 DEF GatewayInv

\* A handler that ends the session.
LEMMA GatewayEnds ==
    ASSUME WireInv, NEW p, Inbound(p), UNCHANGED clientVars,
           NEW o, Sending(o), o.close, Finish(o), gSeqIn' \in Nat,
           gGeneration' \in Int, UNCHANGED <<gRuntime, sinkVars, backendVars>>
    PROVE  WireInv'
<1>1. /\ gLoop = "running" /\ up /\ up' = up /\ c2g' \in Seq(ClientPacket)
  BY GatewayTakes
<1>2. Connected => Joined(o, c2g')
  BY DEF Joined
<1>3. /\ EngineInv' /\ LinkTypes' /\ Streams' /\ Agreeing'
      /\ gSession' \in Shape /\ gSeqOut' \in Nat
      /\ gLoop' \in {"running", "closing"}
      /\ gLoop' = "running" => ~o.close
  BY <1>1, <1>2, GatewayFinishes
<1>4. Counted
  BY CountedSame DEF WireInv, GatewayInv
<1>5. EntitiesOwned'
  BY <1>1, <1>3, <1>4, EntitiesKept DEF WireInv
<1>6. GatewayInv'
  BY <1>3, <1>4, <1>5, GatewayKept DEF WireInv
<1> QED  BY <1>3, <1>6 DEF WireInv

\* A handler that leaves the set of active channels as it was.
LEMMA GatewayGoesOn ==
    ASSUME WireInv, NEW p, Inbound(p), UNCHANGED clientVars,
           NEW o, Sending(o), Finish(o), gGeneration' \in Int,
           gSeqIn' = IF p.plane = "control" THEN gSeqIn + 1 ELSE gSeqIn,
           UNCHANGED <<sinkVars, backendVars>>,
           Counted,
           ~o.close => \A c \in ChannelIds :
               o.session.chan[c].state = "Active" <=> gSession.chan[c].state = "Active",
           Connected => Joined(o, Tail(c2g))
    PROVE  WireInv'
<1>1. /\ gLoop = "running" /\ up /\ up' = up /\ c2g' \in Seq(ClientPacket)
      /\ c2g' = Tail(c2g) /\ gSeqIn \in Nat
      /\ p.plane = "control" => Numbered(c2g', gSeqIn + 1, cSeqOut)
      /\ p.plane # "control" => Numbered(c2g', gSeqIn, cSeqOut)
  BY GatewayTakes
<1>2. Numbered(c2g', gSeqIn', cSeqOut) /\ gSeqIn' \in Nat
  <2>1. CASE p.plane = "control"
    BY <1>1, <2>1
  <2>2. CASE p.plane # "control"
    BY <1>1, <2>2
  <2> QED  BY <2>1, <2>2
<1>3. /\ EngineInv' /\ LinkTypes' /\ Streams' /\ Agreeing'
      /\ gSession' \in Shape /\ gSeqOut' \in Nat
      /\ gLoop' \in {"running", "closing"}
      /\ gLoop' = "running" => ~o.close
      /\ gSession' = o.session
  <2>1. Connected => Joined(o, c2g')
    BY <1>1
  <2> QED  BY <1>1, <1>2, <2>1, GatewayFinishes
<1>4. EntitiesOwned'
  BY <1>1, <1>3, EntitiesKept DEF WireInv
<1>5. GatewayInv'
  BY <1>2, <1>3, <1>4, GatewayKept DEF WireInv
<1> QED  BY <1>3, <1>5 DEF WireInv

\* handle_bootstrap: refused, answered, or not negotiated.
LEMMA BootstrapStep ==
    ASSUME WireInv, NEW p, Inbound(p), UNCHANGED clientVars,
           NEW negotiated \in BOOLEAN, GatewayBootstrap(p, negotiated)
    PROVE  WireInv'
<1>0. /\ gSession \in Shape /\ gSeqIn \in Nat /\ p \in ClientPacket
      /\ c2g \in Seq(ClientPacket) /\ c2g # <<>> /\ p = Head(c2g) /\ gSeqOut \in Nat
      /\ g2c \in Seq(ServerPacket)
      /\ Connected => Joint(cSession, gSession, c2g, g2c)
  BY GatewayTakes
<1>1. /\ gSeqIn' = gSeqIn /\ gGeneration' = gGeneration
      /\ UNCHANGED <<gRuntime, sinkVars, backendVars>>
      /\ gGeneration' \in Int /\ gSeqIn' \in Nat
  BY <1>0 DEF GatewayBootstrap, WireInv, GatewayInv, ConnectionTypes
<1> DEFINE hello == AfterBootstrap(gSession, p.msg)
           accepted == p.plane = "bootstrap" /\ AcceptsBootstrap(gSession, p.msg, Client)
<1>2. CASE ~accepted
  <2>1. Finish(PushBootstrapError(Outcome(gSession)))
    BY <1>2 DEF GatewayBootstrap
  <2>2. /\ Sending(PushBootstrapError(Outcome(gSession)))
        /\ PushBootstrapError(Outcome(gSession)).close
    BY <1>0, SendingOutcome, SendingBootstrapError
  <2> QED  BY <1>1, <2>1, <2>2, GatewayEnds
<1>3. ASSUME accepted
      PROVE  /\ p.msg.type = "ClientHello" /\ gSession.phase = "AwaitClientHello"
             /\ hello = [gSession EXCEPT !.phase = "AwaitServerHello"]
             /\ Rephased(gSession, hello, "AwaitServerHello")
  <2>1. p.msg.type = "ClientHello"
    BY <1>0, <1>3, ClientPacketTypes
  <2>2. gSession.phase = "AwaitClientHello"
    BY <1>3, <2>1 DEF AcceptsBootstrap
  <2>3. hello = [gSession EXCEPT !.phase = "AwaitServerHello"]
    BY <2>1 DEF AfterBootstrap
  <2>4. "AwaitServerHello" \in Phase
    BY DEF Phase
  <2> QED  BY <1>0, <2>1, <2>2, <2>3, <2>4, AfterPhase
<1>4. CASE accepted /\ ~negotiated
  <2>1. Finish(PushBootstrapError(Outcome(hello)))
    BY <1>4 DEF GatewayBootstrap
  <2>2. hello \in Shape
    BY <1>3, <1>4 DEF Rephased
  <2> HIDE DEF hello
  <2>3. /\ Sending(PushBootstrapError(Outcome(hello)))
        /\ PushBootstrapError(Outcome(hello)).close
    BY <2>2, SendingOutcome, SendingBootstrapError
  <2> QED  BY <1>1, <2>1, <2>3, GatewayEnds
<1>5. CASE accepted /\ negotiated
  <2> DEFINE t == AfterBootstrap(hello, [type |-> "ServerHello"])
             x == Bootstrap("ServerHello")
             q == <<x>>
             o == [Outcome(t) EXCEPT !.out = q]
  <2>1. Finish(o)
    BY <1>5 DEF GatewayBootstrap
  <2>2. Rephased(gSession, t, "SelectedAwaitAuthenticate")
    <3>1. Rephased(gSession, hello, "AwaitServerHello")
      BY <1>3, <1>5
    <3> HIDE DEF hello
    <3>2. t = [hello EXCEPT !.phase = "SelectedAwaitAuthenticate"] /\ hello \in Shape
      BY <3>1 DEF AfterBootstrap, Rephased
    <3>3. "SelectedAwaitAuthenticate" \in Phase
      BY DEF Phase
    <3>4. Rephased(hello, t, "SelectedAwaitAuthenticate")
      BY <3>2, <3>3, AfterPhase
    <3> QED  BY <3>1, <3>4 DEF Rephased
  <2>3. gSession.phase = "AwaitClientHello"
    BY <1>3, <1>5
  <2> HIDE DEF t
  <2>4. x \in ServerPacket /\ IsBootstrap(x, "ServerHello") /\ x.plane # "control"
    BY DEF Bootstrap, ServerPacket, IsBootstrap
  <2>5. q \in Seq(ServerPacket) /\ g2c \o q = Append(g2c, x)
    BY <1>0, <2>4, SentOne
  <2> HIDE DEF x, q
  <2>6. /\ o \in Outbox /\ o.session = t /\ o.seq = gSeqOut /\ o.out = q
        /\ o.close = FALSE
    BY <1>0, <2>2, <2>5 DEF Outbox, Outcome, Rephased
  <2> HIDE DEF o
  <2>7. g2c \o o.out = Append(g2c, x)
    BY <2>5, <2>6
  <2>8. Sending(o)
    <3>1. ASSUME NEW lo \in Nat, Numbered(g2c, lo, gSeqOut)
          PROVE  Numbered(Append(g2c, x), lo, gSeqOut)
      BY <1>0, <2>4, <3>1, NumberedQueueOther
    <3> QED  BY <2>6, <2>7, <3>1 DEF Sending, Follows
  <2>9. Connected => Joined(o, Tail(c2g))
    <3>1. IsBootstrap(Head(c2g), "ClientHello")
      BY <1>0, <1>3, <1>5 DEF IsBootstrap
    <3>2. ASSUME Connected PROVE Joint(cSession, t, Tail(c2g), Append(g2c, x))
      BY <1>0, <2>2, <2>3, <2>4, <3>1, <3>2, JointHelloServed
    <3> QED  BY <2>6, <2>7, <3>2 DEF Joined
  <2>10. \A c \in ChannelIds :
            o.session.chan[c].state = "Active" <=> gSession.chan[c].state = "Active"
    BY <2>2, <2>6 DEF Rephased
  <2>11. Counted
    BY <1>1, CountedSame DEF WireInv, GatewayInv
  <2>12. gSeqIn' = IF p.plane = "control" THEN gSeqIn + 1 ELSE gSeqIn
    BY <1>1, <1>5
  <2> QED  BY <1>1, <2>1, <2>8, <2>9, <2>10, <2>11, <2>12, GatewayGoesOn
<1> QED  BY <1>2, <1>4, <1>5

\* A packet that does not parse or is refused fails the session.
LEMMA RefusesStep ==
    ASSUME WireInv, NEW p, Inbound(p), UNCHANGED clientVars, GatewayRefuses(p)
    PROVE  WireInv'
<1>0. /\ gSession \in Shape /\ gSeqIn \in Nat
      /\ p.plane = "control" => p.seq = gSeqIn
  BY GatewayTakes
<1>1. Finish(FailSession(Outcome(gSession)))
  BY <1>0 DEF GatewayRefuses
<1>2. Sending(FailSession(Outcome(gSession))) /\ FailSession(Outcome(gSession)).close
  BY <1>0, SendingOutcome, SendingFailure
<1>3. /\ gSeqIn' \in Nat /\ gGeneration' \in Int
      /\ UNCHANGED <<gRuntime, sinkVars, backendVars>>
  BY <1>0 DEF GatewayRefuses, WireInv, GatewayInv, ConnectionTypes
<1> QED  BY <1>1, <1>2, <1>3, GatewayEnds

\* An acceptable control frame, as it is applied.
LEMMA GatewayIngests ==
    ASSUME WireInv, NEW p, Inbound(p), NEW m, GatewayControl(p, m)
    PROVE  /\ p.plane = "control" /\ p.msg = m /\ m \in ClientControl
           /\ AcceptsControl(gSession, m, Client)
           /\ gSession \in Shape /\ AfterControl(gSession, m) \in Shape
           /\ gSeqIn' = IF p.plane = "control" THEN gSeqIn + 1 ELSE gSeqIn
           /\ gSeqIn' \in Nat
           /\ Sending(Ingested(m)) /\ Ingested(m).session = AfterControl(gSession, m)
           /\ Ingested(m).close = FALSE /\ g2c \o Ingested(m).out = g2c
<1>1. /\ p.plane = "control" /\ p.msg = m /\ gSeqIn' = gSeqIn + 1
      /\ AcceptsControl(gSession, m, Client)
  BY DEF GatewayControl
<1>2. gSession \in Shape /\ gSeqIn \in Nat /\ p \in ClientPacket
  BY GatewayTakes
<1>3. m \in ClientControl
  BY <1>1, <1>2, ClientPacketTypes
<1>4. AfterControl(gSession, m) \in Shape
  BY <1>1, <1>2, <1>3, ShapeKept
<1>5. /\ Sending(Ingested(m)) /\ Ingested(m).session = AfterControl(gSession, m)
      /\ Ingested(m).close = FALSE /\ g2c \o Ingested(m).out = g2c
  BY <1>4, SendingOutcome DEF Ingested
<1> QED  BY <1>1, <1>2, <1>3, <1>4, <1>5

\* Authenticate: SessionReady and the first snapshot, or an Error.
LEMMA AuthenticatedStep ==
    ASSUME WireInv, NEW p, Inbound(p), UNCHANGED clientVars,
           NEW allowed \in BOOLEAN, NEW graph \in BOOLEAN,
           GatewayAuthenticate(p, allowed, graph)
    PROVE  WireInv'
<1> DEFINE m == [type |-> "Authenticate"]
           ready == PushControl(Ingested(m), [type |-> "SessionReady"])
           snapshot == PushControl(ready, [type |-> "GraphSnapshot", gen |-> 1])
<1>1. /\ GatewayControl(p, m) /\ UNCHANGED <<gRuntime, sinkVars, backendVars>>
      /\ gGeneration' = IF allowed /\ graph THEN 1 ELSE gGeneration
  BY DEF GatewayAuthenticate
<1>2. /\ ~allowed => Finish(Closing(PushControl(Ingested(m), SessionError)))
      /\ allowed /\ ~graph => Finish(Closing(PushControl(ready, SessionError)))
      /\ allowed /\ graph => Finish(snapshot)
  BY DEF GatewayAuthenticate
<1>3. gGeneration' \in Int
  BY <1>1 DEF WireInv, GatewayInv, ConnectionTypes
<1>4. /\ [type |-> "SessionReady"] \in ServerControl /\ SessionError \in ServerControl
      /\ [type |-> "GraphSnapshot", gen |-> 1] \in ServerControl
      /\ [type |-> "SessionReady"].type = "SessionReady"
      /\ [type |-> "GraphSnapshot", gen |-> 1].type = "GraphSnapshot"
  BY DEF ServerControl
<1>5. m.type = "Authenticate"
  OBVIOUS
<1> HIDE DEF m
<1>6. /\ p.plane = "control" /\ p.msg = m
      /\ AcceptsControl(gSession, m, Client) /\ gSession \in Shape
      /\ gSeqIn' = IF p.plane = "control" THEN gSeqIn + 1 ELSE gSeqIn
      /\ gSeqIn' \in Nat
      /\ Sending(Ingested(m)) /\ Ingested(m).session = AfterControl(gSession, m)
      /\ g2c \o Ingested(m).out = g2c
  BY <1>1, GatewayIngests
<1>7. Sending(ready)
  BY <1>4, <1>6, SendingControl
<1>8. /\ gSession.phase = "SelectedAwaitAuthenticate"
      /\ Rephased(gSession, Ingested(m).session, "SelectedAwaitSessionReady")
  BY <1>5, <1>6, AfterAuthentication
<1>9. ASSUME ~ready.close
      PROVE  Rephased(gSession, ready.session, "Ready")
  <2>1. /\ ready.session = AfterControl(Ingested(m).session, [type |-> "SessionReady"])
        /\ AcceptsControl(Ingested(m).session, [type |-> "SessionReady"], Server)
        /\ Ingested(m).session \in Shape
    BY <1>4, <1>6, <1>9, OpenOutcome
  <2>2. Rephased(Ingested(m).session, ready.session, "Ready")
    BY <1>4, <2>1, AfterSessionReady
  <2> QED  BY <1>8, <2>2 DEF Rephased
<1>10. Connected => Joined(ready, Tail(c2g))
  <2> SUFFICES ASSUME Connected, ~ready.close
               PROVE  Joint(cSession, ready.session, Tail(c2g), g2c \o ready.out)
    BY DEF Joined
  <2> DEFINE x == Control([type |-> "SessionReady"], Ingested(m).seq)
  <2>1. g2c \o ready.out = Append(g2c, x) /\ x \in ServerPacket
    BY <1>4, <1>6, OpenOutcome
  <2>2. IsControl(x, "SessionReady")
    BY ControlPacket DEF IsControl
  <2> HIDE DEF x
  <2>3. /\ c2g \in Seq(ClientPacket) /\ c2g # <<>> /\ p = Head(c2g)
        /\ g2c \in Seq(ServerPacket) /\ Joint(cSession, gSession, c2g, g2c)
    BY GatewayTakes
  <2>4. IsControl(Head(c2g), "Authenticate")
    BY <1>5, <1>6, <2>3 DEF IsControl
  <2>5. Joint(cSession, ready.session, Tail(c2g), Append(g2c, x))
    BY <1>8, <1>9, <2>1, <2>2, <2>3, <2>4, JointServed
  <2> QED  BY <2>1, <2>5
<1> HIDE DEF ready
<1>11. CASE ~allowed
  <2>1. Sending(PushControl(Ingested(m), SessionError))
    BY <1>4, <1>6, SendingControl
  <2>2. /\ Sending(Closing(PushControl(Ingested(m), SessionError)))
        /\ Closing(PushControl(Ingested(m), SessionError)).close
    BY <2>1, SendingClosing
  <2> QED  BY <1>1, <1>2, <1>3, <1>6, <1>11, <2>2, GatewayEnds
<1>12. CASE allowed /\ ~graph
  <2>1. Sending(PushControl(ready, SessionError))
    BY <1>4, <1>7, SendingControl
  <2>2. /\ Sending(Closing(PushControl(ready, SessionError)))
        /\ Closing(PushControl(ready, SessionError)).close
    BY <2>1, SendingClosing
  <2> QED  BY <1>1, <1>2, <1>3, <1>6, <1>12, <2>2, GatewayEnds
<1>13. CASE allowed /\ graph
  <2>1. Sending(snapshot) /\ (Connected => Joined(snapshot, Tail(c2g)))
    BY <1>4, <1>7, <1>10, SendingControl, JoinedGraph
  <2>2. ASSUME ~snapshot.close
        PROVE  \A c \in ChannelIds :
                  snapshot.session.chan[c].state = "Active"
                    <=> gSession.chan[c].state = "Active"
    <3>0. [type |-> "GraphSnapshot", gen |-> 1].gen \in Int
      OBVIOUS
    <3>1. /\ ~ready.close /\ ready.session \in Shape
          /\ AcceptsControl(ready.session, [type |-> "GraphSnapshot", gen |-> 1], Server)
          /\ snapshot.session
                = AfterControl(ready.session, [type |-> "GraphSnapshot", gen |-> 1])
      BY <1>4, <1>7, <2>2, OpenOutcome
    <3>2. snapshot.session.chan = ready.session.chan
      BY <1>4, <3>0, <3>1, AfterGraphMessage DEF Dated
    <3> QED  BY <1>9, <3>1, <3>2 DEF Rephased
  <2>3. Finish(snapshot)
    BY <1>2, <1>13
  <2> HIDE DEF snapshot
  <2>4. Counted
    BY <1>1, CountedSame DEF WireInv, GatewayInv
  <2> QED  BY <1>1, <1>3, <1>6, <2>1, <2>2, <2>3, <2>4, GatewayGoesOn
<1> QED  BY <1>11, <1>12, <1>13

\* An open that the gateway answers, with either result.
LEMMA OpenServed ==
    ASSUME WireInv, NEW p, Inbound(p), NEW m, m.type = "OpenChannel",
           GatewayControl(p, m), NEW result \in {"Allow", "Error"},
           NEW reliable \in BOOLEAN, NEW o,
           o = PushControl(Ingested(m),
                  [type |-> "ChannelReady", ch |-> m.ch, result |-> result,
                   reliable |-> reliable])
    PROVE  /\ m.ch \in ChannelIds /\ m.kind \in OperationKind
           /\ gSession.chan[m.ch].state = "Unused"
           /\ Sending(o) /\ (Connected => Joined(o, Tail(c2g)))
           /\ ~o.close => Moved(gSession, o.session, m.ch, ResultState(result), m.kind)
<1> DEFINE r == [type |-> "ChannelReady", ch |-> m.ch, result |-> result,
                 reliable |-> reliable]
           i == Ingested(m)
           x == Control(r, i.seq)
<1>1. /\ p.plane = "control" /\ p.msg = m /\ m \in ClientControl
      /\ AcceptsControl(gSession, m, Client) /\ gSession \in Shape
      /\ Sending(i) /\ i.session = AfterControl(gSession, m)
      /\ i.close = FALSE /\ g2c \o i.out = g2c
  BY GatewayIngests
<1>2. m.ch \in ChannelIds /\ m.kind \in OperationKind
  BY <1>1, ClientControlTypes
<1>3. /\ r \in ServerControl /\ r.type = "ChannelReady" /\ r.ch = m.ch
      /\ r.result = result
  BY <1>2 DEF ServerControl
<1> HIDE DEF r, i
<1>4. o = PushControl(i, r)
  BY DEF r, i
<1>5. Sending(o)
  BY <1>1, <1>3, <1>4, SendingControl
<1>6. /\ gSession.chan[m.ch].state = "Unused"
      /\ Moved(gSession, i.session, m.ch, "Pending", m.kind)
  BY <1>1, <1>2, AfterOpen
<1>7. ASSUME ~o.close
      PROVE  /\ Moved(gSession, o.session, m.ch, ResultState(result), m.kind)
             /\ g2c \o o.out = Append(g2c, x) /\ x \in ServerPacket
  <2>1. /\ AcceptsControl(i.session, r, Server) /\ i.session \in Shape
        /\ o.session = AfterControl(i.session, r)
        /\ g2c \o o.out = Append(g2c, x) /\ x \in ServerPacket
    BY <1>1, <1>3, <1>4, <1>7, OpenOutcome
  <2>2. Moved(i.session, o.session, m.ch, ResultState(result), i.session.chan[m.ch].kind)
    BY <1>2, <1>3, <2>1, AfterReady
  <2>3. Moved(gSession, o.session, m.ch, ResultState(result), m.kind)
    BY <1>6, <2>2 DEF Moved
  <2> QED  BY <2>1, <2>3
<1>8. ASSUME Connected, ~o.close
      PROVE  Joint(cSession, o.session, Tail(c2g), g2c \o o.out)
  <2>1. /\ c2g \in Seq(ClientPacket) /\ c2g # <<>> /\ p = Head(c2g)
        /\ g2c \in Seq(ServerPacket) /\ Joint(cSession, gSession, c2g, g2c)
    BY <1>8, GatewayTakes
  <2>2. /\ About(Head(c2g), "OpenChannel", m.ch) /\ About(x, "ChannelReady", m.ch)
        /\ x.msg.result = result /\ Head(c2g).msg.kind = m.kind
    BY <1>1, <1>3, <2>1, ControlPacket DEF About
  <2>3. g2c \o o.out = Append(g2c, x) /\ x \in ServerPacket
    BY <1>7, <1>8
  <2>4. Moved(gSession, o.session, m.ch, ResultState(x.msg.result), Head(c2g).msg.kind)
    BY <1>7, <1>8, <2>2
  <2> HIDE DEF x
  <2>5. Joint(cSession, o.session, Tail(c2g), Append(g2c, x))
    BY <1>2, <1>6, <2>1, <2>2, <2>3, <2>4, JointOpened
  <2> QED  BY <2>3, <2>5
<1> QED  BY <1>2, <1>5, <1>6, <1>7, <1>8 DEF Joined

\* A refused open: the channel is failed at the gateway before the answer
\* leaves.
LEMMA RefuseOpenStep ==
    ASSUME WireInv, NEW p, Inbound(p), UNCHANGED clientVars, GatewayRefuseOpen(p)
    PROVE  WireInv'
<1> DEFINE m == p.msg
           o == PushControl(Ingested(m),
                  [type |-> "ChannelReady", ch |-> m.ch, result |-> "Error",
                   reliable |-> FALSE])
<1>1. /\ m.type = "OpenChannel" /\ GatewayControl(p, m) /\ Finish(o)
      /\ UNCHANGED <<gRuntime, gGeneration, sinkVars, backendVars>>
  BY DEF GatewayRefuseOpen
<1> HIDE DEF m
<1>2. /\ m.ch \in ChannelIds /\ gSession.chan[m.ch].state = "Unused"
      /\ Sending(o) /\ (Connected => Joined(o, Tail(c2g)))
      /\ ~o.close => Moved(gSession, o.session, m.ch, ResultState("Error"), m.kind)
  BY <1>1, OpenServed
<1>3. gSeqIn' = IF p.plane = "control" THEN gSeqIn + 1 ELSE gSeqIn
  BY <1>1, GatewayIngests
<1> HIDE DEF o
<1>4. ResultState("Error") = "Failed"
  BY DEF ResultState, IsSuccess
<1>5. ~o.close => \A c \in ChannelIds :
          o.session.chan[c].state = "Active" <=> gSession.chan[c].state = "Active"
  BY <1>2, <1>4 DEF Moved
<1>6. Counted /\ gGeneration' \in Int
  BY <1>1, CountedSame DEF WireInv, GatewayInv, ConnectionTypes
<1> QED  BY <1>1, <1>2, <1>3, <1>5, <1>6, GatewayGoesOn

\* A served open: entity, runtime and answer appear in one step.
LEMMA OpenedStep ==
    ASSUME WireInv, NEW p, Inbound(p), UNCHANGED clientVars,
           NEW reliable \in BOOLEAN, NEW shown \in BOOLEAN,
           GatewayOpen(p, reliable, shown)
    PROVE  WireInv'
<1> DEFINE m == p.msg
           effective == reliable \/ IsService(m.kind) \/ IsAction(m.kind)
           ready == PushControl(Ingested(m),
                       [type |-> "ChannelReady", ch |-> m.ch, result |-> "Allow",
                        reliable |-> effective])
           gen == SaturatingSucc(gGeneration)
           update == [type |-> "GraphDelta", base |-> gGeneration, gen |-> gen]
           delta == PushControl(ready, update)
           sendDelta == shown /\ gGeneration # NoGeneration
           o == IF sendDelta THEN delta ELSE ready
           id == bCreated + 1
           entity == [id |-> id, ch |-> m.ch, kind |-> m.kind]
<1>1. /\ m.type = "OpenChannel" /\ GatewayControl(p, m) /\ Finish(o)
      /\ bCreated' = id /\ bLive' = bLive \cup {entity}
      /\ gRuntime' = [gRuntime EXCEPT ![m.ch] = NewRuntime(m.kind, id, effective)]
      /\ gGeneration' = IF sendDelta THEN gen ELSE gGeneration
      /\ UNCHANGED sinkVars
  BY DEF GatewayOpen
<1>2. effective \in BOOLEAN /\ sendDelta \in BOOLEAN
  BY DEF IsService, IsAction
<1> HIDE DEF m, effective, sendDelta
<1>3. /\ m.ch \in ChannelIds /\ m.kind \in OperationKind
      /\ gSession.chan[m.ch].state = "Unused"
      /\ Sending(ready) /\ (Connected => Joined(ready, Tail(c2g)))
      /\ ~ready.close => Moved(gSession, ready.session, m.ch, ResultState("Allow"), m.kind)
  BY <1>1, <1>2, OpenServed
<1>4. gSeqIn' = gSeqIn + 1 /\ p.plane = "control"
  BY <1>1 DEF GatewayControl
<1>5. /\ gLoop = "running" /\ up /\ up' = up /\ c2g' \in Seq(ClientPacket)
      /\ c2g' = Tail(c2g) /\ gSeqIn \in Nat /\ Numbered(c2g', gSeqIn + 1, cSeqOut)
  BY <1>4, GatewayTakes
<1> HIDE DEF ready
<1>6. gGeneration \in Int /\ gen \in Int
  BY MaxGenerationAssumption DEF WireInv, GatewayInv, ConnectionTypes, SaturatingSucc
<1>7. /\ update \in ServerControl /\ update.type = "GraphDelta" /\ update.gen \in Int
  BY <1>6 DEF ServerControl
<1> HIDE DEF gen, update
<1>8. Sending(delta) /\ (Connected => Joined(delta, Tail(c2g)))
  BY <1>3, <1>7, SendingControl, JoinedGraph
<1>9. ASSUME ~delta.close
      PROVE  ~ready.close /\ delta.session.chan = ready.session.chan
  <2>1. /\ ~ready.close /\ ready.session \in Shape
        /\ AcceptsControl(ready.session, update, Server)
        /\ delta.session = AfterControl(ready.session, update)
    BY <1>3, <1>7, <1>9, OpenOutcome
  <2>2. delta.session.chan = ready.session.chan
    BY <1>7, <2>1, AfterGraphMessage DEF Dated
  <2> QED  BY <2>1, <2>2
<1> HIDE DEF delta
<1>10. /\ Sending(o) /\ (Connected => Joined(o, c2g'))
       /\ ~o.close => ~ready.close /\ o.session.chan = ready.session.chan
  BY <1>3, <1>5, <1>8, <1>9
<1> HIDE DEF o
<1>11. /\ EngineInv' /\ LinkTypes' /\ Streams' /\ Agreeing'
       /\ gSession' \in Shape /\ gSeqOut' \in Nat
       /\ gLoop' \in {"running", "closing"}
       /\ gLoop' = "running" => ~o.close
       /\ gSession' = o.session
  <2>1. Numbered(c2g', gSeqIn', cSeqOut)
    BY <1>4, <1>5
  <2> QED  BY <1>1, <1>5, <1>10, <2>1, GatewayFinishes
<1>12. ConnectionTypes'
  BY <1>1, <1>2, <1>4, <1>5, <1>6, <1>11 DEF ConnectionTypes
<1> DEFINE rt == NewRuntime(m.kind, id, effective)
<1>13. bCreated \in Nat /\ id \in Nat
  BY DEF WireInv, GatewayInv, BackendTypes
<1> HIDE DEF id
<1>14. rt \in Runtime /\ rt.entity = id
  BY <1>2, <1>3, <1>13 DEF NewRuntime, Runtime
<1>15. rt # NoRuntime
  BY <1>14 DEF Runtime, NoRuntime, OperationKind, NoKind
<1> HIDE DEF rt
<1>16. /\ gRuntime \in [ChannelIds -> Runtime \cup {NoRuntime}]
       /\ gRuntime' = [gRuntime EXCEPT ![m.ch] = rt]
  BY <1>1 DEF WireInv, GatewayInv, BackendTypes, rt
<1>17. entity \in [id : Nat, ch : ChannelIds, kind : OperationKind]
       /\ entity.id = id /\ entity.ch = m.ch
  BY <1>3, <1>13
<1> HIDE DEF entity
<1>18. BackendTypes'
  BY <1>1, <1>13, <1>14, <1>16, <1>17
  DEF WireInv, GatewayInv, BackendTypes, sinkVars
<1>19. EntitiesOwned'
  <2>1. gRuntime[m.ch] = NoRuntime
    BY <1>3, <1>5 DEF WireInv, GatewayInv, EntitiesOwned
  <2>2. ASSUME NEW e \in bLive' PROVE gRuntime'[e.ch] # NoRuntime /\ gRuntime'[e.ch].entity = e.id
    <3>1. CASE e = entity
      BY <1>3, <1>14, <1>15, <1>16, <1>17, <3>1
    <3>2. CASE e \in bLive
      <4>1. e.ch \in ChannelIds /\ gRuntime[e.ch] # NoRuntime /\ gRuntime[e.ch].entity = e.id
        BY <3>2 DEF WireInv, GatewayInv, BackendTypes, EntitiesOwned
      <4>2. e.ch # m.ch
        BY <2>1, <4>1
      <4> QED  BY <1>16, <4>1, <4>2
    <3> QED  BY <1>1, <2>2, <3>1, <3>2
  <2>3. ASSUME gLoop' = "running", NEW c \in ChannelIds
        PROVE  gRuntime'[c] # NoRuntime <=> gSession'.chan[c].state = "Active"
    <3>1. /\ gSession'.chan = ready.session.chan
          /\ Moved(gSession, ready.session, m.ch, "Active", m.kind)
      BY <1>3, <1>10, <1>11, <2>3 DEF ResultState, IsSuccess
    <3>2. gRuntime[c] # NoRuntime <=> gSession.chan[c].state = "Active"
      BY <1>5 DEF WireInv, GatewayInv, EntitiesOwned
    <3>3. CASE c = m.ch
      BY <1>15, <1>16, <3>1, <3>3 DEF Moved
    <3>4. CASE c # m.ch
      BY <1>16, <3>1, <3>2, <3>4 DEF Moved
    <3> QED  BY <3>3, <3>4
  <2> QED  BY <1>11, <2>2, <2>3 DEF EntitiesOwned
<1> QED  BY <1>11, <1>12, <1>18, <1>19 DEF WireInv, GatewayInv

\* CloseChannel: runtime and entity go together.
LEMMA ReleasedStep ==
    ASSUME WireInv, NEW p, Inbound(p), UNCHANGED clientVars, GatewayClose(p)
    PROVE  WireInv'
<1> DEFINE m == p.msg
           o == Ingested(m)
<1>1. /\ m.type = "CloseChannel" /\ GatewayControl(p, m) /\ Finish(o)
      /\ gRuntime' = [gRuntime EXCEPT ![m.ch] = NoRuntime]
      /\ bLive' = IF gRuntime[m.ch] = NoRuntime THEN bLive
                   ELSE {e \in bLive : e.id # gRuntime[m.ch].entity}
      /\ UNCHANGED <<gGeneration, sinkVars, bCreated>>
  BY DEF GatewayClose
<1> HIDE DEF m
<1>2. /\ p.plane = "control" /\ p.msg = m /\ m \in ClientControl
      /\ AcceptsControl(gSession, m, Client) /\ gSession \in Shape
      /\ gSeqIn' = gSeqIn + 1 /\ gSeqIn' \in Nat
      /\ Sending(o) /\ o.session = AfterControl(gSession, m)
      /\ o.close = FALSE /\ g2c \o o.out = g2c
  <2>1. gSeqIn' = gSeqIn + 1
    BY <1>1 DEF GatewayControl
  <2> QED  BY <1>1, <2>1, GatewayIngests
<1>3. m.ch \in ChannelIds
  BY <1>1, <1>2, ClientControlTypes
<1>4. /\ gSession.chan[m.ch].state = "Active"
      /\ Moved(gSession, o.session, m.ch, "Closed", gSession.chan[m.ch].kind)
  BY <1>1, <1>2, <1>3, AfterClose
<1> HIDE DEF o
<1>5. /\ gLoop = "running" /\ up /\ up' = up /\ c2g' \in Seq(ClientPacket)
      /\ c2g' = Tail(c2g) /\ c2g # <<>> /\ p = Head(c2g) /\ c2g \in Seq(ClientPacket)
      /\ Numbered(c2g', gSeqIn', cSeqOut)
      /\ Connected => Joint(cSession, gSession, c2g, g2c)
  BY <1>2, GatewayTakes
<1>6. Connected => Joined(o, c2g')
  <2>1. About(Head(c2g), "CloseChannel", m.ch)
    BY <1>1, <1>2, <1>5 DEF About
  <2>2. ASSUME Connected PROVE Joint(cSession, o.session, Tail(c2g), g2c)
    BY <1>3, <1>4, <1>5, <2>1, <2>2, JointReleased
  <2> QED  BY <1>2, <1>5, <2>2 DEF Joined
<1>7. /\ EngineInv' /\ LinkTypes' /\ Streams' /\ Agreeing'
      /\ gSession' \in Shape /\ gSeqOut' \in Nat
      /\ gLoop' \in {"running", "closing"}
      /\ gSession' = o.session
  BY <1>1, <1>2, <1>5, <1>6, GatewayFinishes
<1>8. ConnectionTypes'
  BY <1>1, <1>2, <1>7 DEF WireInv, GatewayInv, ConnectionTypes
<1>9. gRuntime \in [ChannelIds -> Runtime \cup {NoRuntime}]
  BY DEF WireInv, GatewayInv, BackendTypes
<1>10. BackendTypes'
  BY <1>1, <1>9 DEF WireInv, GatewayInv, BackendTypes, sinkVars
<1>11. EntitiesOwned'
  <2>1. gRuntime[m.ch] # NoRuntime
    BY <1>3, <1>4, <1>5 DEF WireInv, GatewayInv, EntitiesOwned
  <2>2. ASSUME NEW e \in bLive' PROVE gRuntime'[e.ch] # NoRuntime /\ gRuntime'[e.ch].entity = e.id
    <3>1. e \in bLive /\ e.id # gRuntime[m.ch].entity
      BY <1>1, <2>1, <2>2
    <3>2. e.ch \in ChannelIds /\ gRuntime[e.ch] # NoRuntime /\ gRuntime[e.ch].entity = e.id
      BY <3>1 DEF WireInv, GatewayInv, BackendTypes, EntitiesOwned
    <3>3. e.ch # m.ch
      BY <3>1, <3>2
    <3> QED  BY <1>1, <1>9, <3>2, <3>3
  <2>3. ASSUME NEW c \in ChannelIds
        PROVE  gRuntime'[c] # NoRuntime <=> gSession'.chan[c].state = "Active"
    <3>1. gRuntime[c] # NoRuntime <=> gSession.chan[c].state = "Active"
      BY <1>5 DEF WireInv, GatewayInv, EntitiesOwned
    <3>2. CASE c = m.ch
      BY <1>1, <1>3, <1>4, <1>7, <1>9, <3>2 DEF Moved
    <3>3. CASE c # m.ch
      BY <1>1, <1>4, <1>7, <1>9, <3>1, <3>3 DEF Moved
    <3> QED  BY <3>2, <3>3
  <2> QED  BY <1>7, <2>2, <2>3 DEF EntitiesOwned
<1> QED  BY <1>7, <1>8, <1>10, <1>11 DEF WireInv, GatewayInv

\* A heartbeat is answered.
LEMMA HeartbeatStep ==
    ASSUME WireInv, NEW p, Inbound(p), UNCHANGED clientVars, GatewayHeartbeat(p)
    PROVE  WireInv'
<1> DEFINE i == Ingested(Heartbeat)
           o == PushControl(i, Heartbeat)
<1>1. /\ GatewayControl(p, Heartbeat) /\ Finish(o)
      /\ UNCHANGED <<gRuntime, gGeneration, sinkVars, backendVars>>
  BY DEF GatewayHeartbeat
<1>2. /\ Heartbeat \in ServerControl /\ Heartbeat.type = "Heartbeat"
  BY DEF ServerControl, Heartbeat
<1>3. /\ p.plane = "control" /\ p.msg = Heartbeat /\ gSession \in Shape
      /\ gSeqIn' = IF p.plane = "control" THEN gSeqIn + 1 ELSE gSeqIn
      /\ Sending(i) /\ i.session = AfterControl(gSession, Heartbeat)
      /\ g2c \o i.out = g2c
  BY <1>1, GatewayIngests
<1>4. i.session = gSession
  BY <1>2, <1>3, AfterHeartbeat
<1> HIDE DEF i
<1>5. Connected => Joined(i, Tail(c2g))
  <2>1. /\ c2g \in Seq(ClientPacket) /\ c2g # <<>> /\ p = Head(c2g)
        /\ Connected => Joint(cSession, gSession, c2g, g2c)
    BY GatewayTakes
  <2>2. Quiet(Head(c2g))
    BY <1>2, <1>3, <2>1 DEF Quiet, IsControl
  <2>3. Connected => Joint(cSession, gSession, Tail(c2g), g2c)
    BY <2>1, <2>2, QuietTakeOut
  <2> QED  BY <1>3, <1>4, <2>3 DEF Joined
<1>6. Sending(o) /\ (Connected => Joined(o, Tail(c2g)))
  BY <1>2, <1>3, <1>5, SendingControl, JoinedQuiet
<1>7. ~o.close => o.session = gSession
  BY <1>2, <1>3, <1>4, OpenOutcome, AfterHeartbeat
<1> HIDE DEF o
<1>8. Counted /\ gGeneration' \in Int
  BY <1>1, CountedSame DEF WireInv, GatewayInv, ConnectionTypes
<1> QED  BY <1>1, <1>3, <1>6, <1>7, <1>8, GatewayGoesOn

\* An acceptable data frame: its channel is active and has a runtime, and
\* taking it from the stream disturbs neither session.
LEMMA GatewayReads ==
    ASSUME WireInv, NEW p, Inbound(p), GatewayData(p)
    PROVE  /\ p.msg \in Frame /\ p.seq \in Nat /\ p.msg.ch \in ChannelIds
           /\ gSession \in Shape /\ gSession.phase = "Ready"
           /\ gSession.chan[p.msg.ch].state = "Active"
           /\ gRuntime[p.msg.ch] \in Runtime /\ gRuntime[p.msg.ch] # NoRuntime
           /\ Sending(Outcome(gSession)) /\ Outcome(gSession).session = gSession
           /\ Connected => Joined(Outcome(gSession), Tail(c2g))
           /\ gSeqIn' = IF p.plane = "control" THEN gSeqIn + 1 ELSE gSeqIn
           /\ gSeqIn' \in Nat /\ gGeneration' \in Int
           /\ UNCHANGED <<sinkVars, backendVars>>
<1>1. /\ p.plane = "data" /\ AcceptsData(gSession, p.msg, Client)
      /\ UNCHANGED <<gSeqIn, gGeneration, sinkVars, backendVars>>
  BY DEF GatewayData
<1>2. /\ gSession \in Shape /\ gSeqIn \in Nat /\ p \in ClientPacket
      /\ c2g \in Seq(ClientPacket) /\ c2g # <<>> /\ p = Head(c2g)
      /\ gLoop = "running" /\ (Connected => Joint(cSession, gSession, c2g, g2c))
  BY GatewayTakes
<1>3. p.msg \in Frame /\ p.seq \in Nat /\ Quiet(p)
  BY <1>1, <1>2, ClientPacketTypes
<1>4. /\ gSession.phase = "Ready" /\ p.msg.ch \in ChannelIds
      /\ gSession.chan[p.msg.ch].state = "Active"
  BY <1>1 DEF AcceptsData
<1>5. gRuntime[p.msg.ch] # NoRuntime
  BY <1>2, <1>4 DEF WireInv, GatewayInv, EntitiesOwned
<1>6. gRuntime[p.msg.ch] \in Runtime
  BY <1>4, <1>5 DEF WireInv, GatewayInv, BackendTypes
<1>7. /\ Sending(Outcome(gSession)) /\ Outcome(gSession).session = gSession
      /\ g2c \o Outcome(gSession).out = g2c
  BY <1>2, SendingOutcome
<1>8. Connected => Joint(cSession, gSession, Tail(c2g), g2c)
  BY <1>2, <1>3, QuietTakeOut
<1>9. Connected => Joined(Outcome(gSession), Tail(c2g))
  BY <1>7, <1>8 DEF Joined
<1>10. gSeqIn' = gSeqIn /\ p.plane # "control" /\ gGeneration' \in Int
  BY <1>1 DEF WireInv, GatewayInv, ConnectionTypes
<1> QED  BY <1>1, <1>2, <1>3, <1>4, <1>5, <1>6, <1>7, <1>9, <1>10

\* The outcome of a handler that only counts in the channel's runtime.
LEMMA GatewayCounts ==
    ASSUME WireInv, NEW p, Inbound(p), UNCHANGED clientVars, GatewayData(p),
           NEW o, Sending(o), Finish(o), Counted,
           ~o.close => o.session = gSession,
           Connected => Joined(o, Tail(c2g))
    PROVE  WireInv'
<1>1. /\ gSeqIn' = IF p.plane = "control" THEN gSeqIn + 1 ELSE gSeqIn
      /\ gGeneration' \in Int /\ UNCHANGED <<sinkVars, backendVars>>
  BY GatewayReads
<1>2. ~o.close => \A c \in ChannelIds :
          o.session.chan[c].state = "Active" <=> gSession.chan[c].state = "Active"
  OBVIOUS
<1> QED  BY <1>1, <1>2, GatewayGoesOn

\* A frame that fails the session.
LEMMA GatewayFails ==
    ASSUME WireInv, NEW p, Inbound(p), UNCHANGED clientVars, GatewayData(p),
           Finish(FailSession(Outcome(gSession))), UNCHANGED gRuntime
    PROVE  WireInv'
<1>1. /\ Sending(Outcome(gSession)) /\ gSeqIn' \in Nat /\ gGeneration' \in Int
      /\ UNCHANGED <<sinkVars, backendVars>>
  BY GatewayReads
<1>2. Sending(FailSession(Outcome(gSession))) /\ FailSession(Outcome(gSession)).close
  BY <1>1, SendingFailure
<1> QED  BY <1>1, <1>2, GatewayEnds

\* handle_publish_sample.
LEMMA PublishedStep ==
    ASSUME WireInv, NEW p, Inbound(p), UNCHANGED clientVars,
           NEW ok \in BOOLEAN, GatewayPublish(p, ok)
    PROVE  WireInv'
<1> DEFINE c == p.msg.ch
           rt == gRuntime[c]
           o == Outcome(gSession)
           n == p.seq + 1
           r == [rt EXCEPT !.seqIn = n]
<1>1. /\ GatewayData(p)
      /\ \/ Finish(FailSession(o)) /\ UNCHANGED gRuntime
         \/ Finish(o) /\ UNCHANGED gRuntime
         \/ /\ Finish(Report(o, c, ok))
            /\ gRuntime' = [gRuntime EXCEPT ![c] = r]
  BY DEF GatewayPublish
<1>2. /\ p.seq \in Nat /\ c \in ChannelIds /\ gSession.phase = "Ready"
      /\ gSession.chan[c].state = "Active" /\ rt \in Runtime /\ rt # NoRuntime
      /\ Sending(o) /\ o.session = gSession /\ (Connected => Joined(o, Tail(c2g)))
  BY <1>1, GatewayReads
<1>3. BackendTypes /\ n \in Nat
  BY <1>2 DEF WireInv, GatewayInv
<1> HIDE DEF o, c, n
<1>4. r \in Runtime /\ r.entity = rt.entity
  BY <1>2, <1>3 DEF Runtime
<1>5. CASE Finish(FailSession(o)) /\ UNCHANGED gRuntime
  BY <1>1, <1>5, GatewayFails DEF o
<1>6. CASE Finish(o) /\ UNCHANGED gRuntime
  BY <1>1, <1>2, <1>3, <1>6, CountedSame, GatewayCounts
<1>7. CASE Finish(Report(o, c, ok)) /\ gRuntime' = [gRuntime EXCEPT ![c] = r]
  <2>1. Counted
    BY <1>2, <1>3, <1>4, <1>7, CountedOne
  <2> DEFINE t == Report(o, c, ok)
  <2>2. /\ Sending(t) /\ (Joined(o, Tail(c2g)) => Joined(t, Tail(c2g)))
        /\ ~t.close => t.session = o.session
    BY <1>2, JoinedReport
  <2>3. Finish(t)
    BY <1>7
  <2> HIDE DEF t
  <2> QED  BY <1>1, <1>2, <2>1, <2>2, <2>3, GatewayCounts
<1> QED  BY <1>1, <1>5, <1>6, <1>7

\* A counter of an operation advances.
LEMMA OperationCounted ==
    ASSUME NEW rt \in Runtime, NEW op \in OpIds
    PROVE  /\ [rt.opIn EXCEPT ![op] = @ + 1] \in [OpIds -> Nat]
           /\ [rt.opOut EXCEPT ![op] = @ + 1] \in [OpIds -> Nat]
           /\ rt.opOut[op] \in Nat
<1>1. rt.opIn \in [OpIds -> Nat] /\ rt.opOut \in [OpIds -> Nat]
  BY DEF Runtime
<1> QED  BY <1>1

\* An operation frame names its operation.
LEMMA OperationFrame ==
    ASSUME NEW f \in Frame, f.opcode \in ServiceActionOpcode
    PROVE  f.opid \in OpIds
  BY DEF Frame, ServiceActionOpcode

\* handle_service_frame and handle_action_frame.
LEMMA OperatedStep ==
    ASSUME WireInv, NEW p, Inbound(p), UNCHANGED clientVars,
           NEW ok \in BOOLEAN, GatewayOperation(p, ok)
    PROVE  WireInv'
<1> DEFINE f == p.msg
           c == f.ch
           op == f.opid
           rt == gRuntime[c]
           o == Outcome(gSession)
           in == [rt.opIn EXCEPT ![op] = @ + 1]
           out == [rt.opOut EXCEPT ![op] = @ + 1]
           r == [rt EXCEPT !.opIn = in]
           q == [rt EXCEPT !.opIn = in, !.opOut = out]
           answer == CASE f.opcode = "SERVICE_REQUEST" -> "SERVICE_RESPONSE"
                       [] f.opcode = "ACTION_GOAL" -> "ACTION_RESULT"
                       [] OTHER -> "none"
           frame == Operation(answer, c, op, TRUE)
<1>1. GatewayData(p) /\ f.opcode \in ServiceActionOpcode
  BY DEF GatewayOperation
<1>2. /\ f \in Frame /\ c \in ChannelIds /\ gSession.phase = "Ready"
      /\ gSession.chan[c].state = "Active" /\ rt \in Runtime /\ rt # NoRuntime
      /\ Sending(o) /\ o.session = gSession /\ (Connected => Joined(o, Tail(c2g)))
  BY <1>1, GatewayReads
<1>3. BackendTypes /\ gRuntime \in [ChannelIds -> Runtime \cup {NoRuntime}]
  BY DEF WireInv, GatewayInv, BackendTypes
<1>4. op \in OpIds
  BY <1>1, <1>2, OperationFrame
<1>5. in \in [OpIds -> Nat] /\ out \in [OpIds -> Nat] /\ rt.opOut[op] \in Nat
  BY <1>2, <1>4, OperationCounted
<1>6. \/ Finish(FailSession(o)) /\ UNCHANGED gRuntime
      \/ /\ answer # "none" /\ Finish(PushFrame(o, frame, rt.opOut[op]))
         /\ gRuntime' = [gRuntime EXCEPT ![c] = q]
      \/ Finish(Report(o, c, ok)) /\ gRuntime' = [gRuntime EXCEPT ![c] = r]
  <2>1. [gRuntime EXCEPT ![c].opIn[op] = @ + 1] = [gRuntime EXCEPT ![c] = r]
    BY <1>2, <1>3
  <2>2. [gRuntime EXCEPT ![c].opIn[op] = @ + 1, ![c].opOut[op] = @ + 1]
           = [gRuntime EXCEPT ![c] = q]
    BY <1>2, <1>3 DEF Runtime
  <2> QED  BY <2>1, <2>2 DEF GatewayOperation
<1> HIDE DEF in, out
<1>7. /\ r \in Runtime /\ r.entity = rt.entity
      /\ q \in Runtime /\ q.entity = rt.entity
  BY <1>2, <1>5 DEF Runtime
<1>8. answer # "none" => frame \in Frame
  BY <1>2, <1>4 DEF Frame, Operation, ServiceActionOpcode
<1> HIDE DEF o, c, op, rt, frame, answer, q, r
<1>9. CASE Finish(FailSession(o)) /\ UNCHANGED gRuntime
  BY <1>1, <1>9, GatewayFails DEF o
<1>10. CASE /\ answer # "none" /\ Finish(PushFrame(o, frame, rt.opOut[op]))
            /\ gRuntime' = [gRuntime EXCEPT ![c] = q]
  <2>1. Counted
    BY <1>2, <1>3, <1>7, <1>10, CountedOne DEF rt
  <2> DEFINE t == PushFrame(o, frame, rt.opOut[op])
  <2>2. /\ Sending(t) /\ (Joined(o, Tail(c2g)) => Joined(t, Tail(c2g)))
        /\ t.session = o.session
    BY <1>2, <1>5, <1>8, <1>10, JoinedFrame
  <2>3. Finish(t)
    BY <1>10
  <2> HIDE DEF t
  <2> QED  BY <1>1, <1>2, <2>1, <2>2, <2>3, GatewayCounts
<1>11. CASE Finish(Report(o, c, ok)) /\ gRuntime' = [gRuntime EXCEPT ![c] = r]
  <2>1. Counted
    BY <1>2, <1>3, <1>7, <1>11, CountedOne DEF rt
  <2> DEFINE t == Report(o, c, ok)
  <2>2. /\ Sending(t) /\ (Joined(o, Tail(c2g)) => Joined(t, Tail(c2g)))
        /\ ~t.close => t.session = o.session
    BY <1>2, JoinedReport
  <2>3. Finish(t)
    BY <1>11
  <2> HIDE DEF t
  <2> QED  BY <1>1, <1>2, <2>1, <2>2, <2>3, GatewayCounts
<1> QED  BY <1>6, <1>9, <1>10, <1>11

-----------------------------------------------------------------------------
(* What the backend queues hold is sent on. *)

\* The backend's part of the invariant, when only counters of the runtimes
\* and the queues change.
LEMMA QueuesKept ==
    ASSUME WireInv, Counted, UNCHANGED backendVars,
           gSamples' \in Seq([ch : ChannelIds, from : Nat]),
           gRequests' \in Seq([ch : ChannelIds, opid : OpIds]),
           gGoals' \in Seq([ch : ChannelIds, opcode : {"ACTION_GOAL", "ACTION_CANCEL"},
                            opid : OpIds])
    PROVE  BackendTypes'
  BY DEF WireInv, GatewayInv, BackendTypes, Counted, backendVars

\* admit_sample: a sample is sent, or dropped with its channel gone or its
\* frame too large.
LEMMA SampleStep ==
    ASSUME WireInv, UNCHANGED clientVars, NEW fits \in BOOLEAN, GatewaySample(fits)
    PROVE  WireInv'
<1> DEFINE x == Head(gSamples)
           c == x.ch
           rt == gRuntime[c]
           d == Data(Sample(c, rt.reliable, x.from), rt.seqOut)
           n == rt.seqOut + 1
           r == [rt EXCEPT !.seqOut = n]
<1>1. /\ gLoop = "running" /\ gSamples # <<>> /\ gSamples' = Tail(gSamples)
      /\ UNCHANGED <<gSession, gLoop, gSeqOut, gSeqIn, gGeneration, gRequests,
                     gGoals, backendVars, c2g, up>>
      /\ \/ UNCHANGED <<gRuntime, g2c>>
         \/ /\ rt.kind = "TopicSubscribe"
            /\ gRuntime' = [gRuntime EXCEPT ![c] = r]
            /\ g2c' = g2c \/ (up /\ g2c' = g2c \o <<d>>)
  BY DEF GatewaySample, Sent
<1>2. /\ gSamples \in Seq([ch : ChannelIds, from : Nat]) /\ BackendTypes
      /\ gRuntime \in [ChannelIds -> Runtime \cup {NoRuntime}]
      /\ gRequests \in Seq([ch : ChannelIds, opid : OpIds])
      /\ gGoals \in Seq([ch : ChannelIds, opcode : {"ACTION_GOAL", "ACTION_CANCEL"},
                          opid : OpIds])
  BY DEF WireInv, GatewayInv, BackendTypes
<1>3. x \in [ch : ChannelIds, from : Nat] /\ gSamples' \in Seq([ch : ChannelIds, from : Nat])
  BY <1>1, <1>2, Taken
<1>4. c \in ChannelIds /\ x.from \in Nat
  BY <1>3
<1> HIDE DEF x, c
<1>5. ASSUME rt.kind = "TopicSubscribe"
      PROVE  rt \in Runtime /\ rt # NoRuntime
  BY <1>2, <1>4, <1>5 DEF NoRuntime, NoKind
<1> HIDE DEF rt
<1>6. ASSUME rt.kind = "TopicSubscribe"
      PROVE  /\ r \in Runtime /\ r.entity = rt.entity
             /\ d \in ServerPacket /\ d.plane # "control" /\ Quiet(d)
  <2>1. rt \in Runtime /\ rt.reliable \in BOOLEAN /\ rt.seqOut \in Nat
    BY <1>5, <1>6 DEF Runtime
  <2>2. n \in Nat
    BY <2>1
  <2> HIDE DEF n
  <2>3. r \in Runtime /\ r.entity = rt.entity
    BY <2>1, <2>2 DEF Runtime
  <2>4. Sample(c, rt.reliable, x.from) \in Frame
    BY <1>4, <2>1 DEF Sample, Frame
  <2> QED  BY <2>1, <2>3, <2>4, DataPacket
<1> HIDE DEF r, d
<1>7. Counted
  <2>1. CASE UNCHANGED gRuntime
    BY <1>2, <2>1, CountedSame
  <2>2. CASE rt.kind = "TopicSubscribe" /\ gRuntime' = [gRuntime EXCEPT ![c] = r]
    BY <1>2, <1>4, <1>5, <1>6, <2>2, CountedOne DEF rt
  <2> QED  BY <1>1, <2>1, <2>2
<1>8. BackendTypes'
  BY <1>1, <1>2, <1>3, <1>7, QueuesKept
<1>9. EntitiesOwned'
  BY <1>1, <1>7, EntitiesKept DEF WireInv
<1>10. GatewayInv'
  BY <1>1, <1>8, <1>9 DEF WireInv, GatewayInv, ConnectionTypes
<1>11. EngineInv'
  BY DEF WireInv, EngineInv, EngineTypes, Unstarted, EngineTables, OpenAnsweredOnce,
         clientVars
<1>12. g2c \in Seq(ServerPacket) /\ cSeqIn \in Nat /\ gSeqOut \in Nat
  BY DEF WireInv, LinkTypes, EngineInv, EngineTypes, GatewayInv, ConnectionTypes
<1>13. \/ g2c' = g2c
       \/ up /\ rt.kind = "TopicSubscribe" /\ g2c' = Append(g2c, d)
  BY <1>1, <1>6, <1>12, SentOne
<1>14. CASE g2c' = g2c
  BY <1>1, <1>10, <1>11, <1>14
  DEF WireInv, LinkTypes, Streams, Agreeing, Connected, clientVars
<1>15. CASE up /\ rt.kind = "TopicSubscribe" /\ g2c' = Append(g2c, d)
  <2>1. d \in ServerPacket /\ d.plane # "control" /\ Quiet(d)
    BY <1>6, <1>15
  <2>2. LinkTypes'
    BY <1>1, <1>12, <1>15, <2>1, Queued DEF WireInv, LinkTypes
  <2>3. ASSUME ~cClosed PROVE Numbered(Append(g2c, d), cSeqIn, gSeqOut)
    <3>1. Numbered(g2c, cSeqIn, gSeqOut)
      BY <1>15, <2>3 DEF WireInv, Streams
    <3> QED  BY <1>12, <2>1, <3>1, NumberedQueueOther
  <2>4. Streams'
    BY <1>1, <1>15, <2>3 DEF WireInv, Streams, clientVars
  <2>5. Agreeing'
    <3> SUFFICES ASSUME Connected' PROVE Joint(cSession', gSession', c2g', g2c')
      BY DEF Agreeing
    <3>1. Connected
      BY <1>1 DEF Connected, clientVars
    <3>2. Joint(cSession, gSession, c2g, g2c)
      BY <3>1 DEF WireInv, Agreeing
    <3>3. Joint(cSession, gSession, c2g, Append(g2c, d))
      BY <1>12, <2>1, <3>2, QuietQueueIn
    <3> QED  BY <1>1, <1>15, <3>3 DEF clientVars
  <2> QED  BY <1>10, <1>11, <2>2, <2>4, <2>5 DEF WireInv
<1> QED  BY <1>13, <1>14, <1>15

\* A request, a goal or a cancel is forwarded on its channel.
LEMMA ForwardStep ==
    ASSUME WireInv, UNCHANGED clientVars, gLoop = "running",
           NEW x, x.ch \in ChannelIds, x.opid \in OpIds,
           NEW kind \in OperationKind, NEW opcode \in ServiceActionOpcode,
           PushInbound(x, kind, opcode),
           UNCHANGED <<gSeqIn, gGeneration, backendVars, c2g, up>>,
           gSamples' \in Seq([ch : ChannelIds, from : Nat]),
           gRequests' \in Seq([ch : ChannelIds, opid : OpIds]),
           gGoals' \in Seq([ch : ChannelIds, opcode : {"ACTION_GOAL", "ACTION_CANCEL"},
                            opid : OpIds])
    PROVE  WireInv'
<1> DEFINE c == x.ch
           op == x.opid
           rt == gRuntime[c]
           o == Outcome(gSession)
           out == [rt.opOut EXCEPT ![op] = @ + 1]
           r == [rt EXCEPT !.opOut = out]
           f == Operation(opcode, c, op, TRUE)
           t == PushFrame(o, f, rt.opOut[op])
<1>1. c \in ChannelIds /\ op \in OpIds
  OBVIOUS
<1>2. \/ Finish(o) /\ UNCHANGED gRuntime
      \/ /\ rt.kind = kind /\ Finish(t)
         /\ gRuntime' = [gRuntime EXCEPT ![c].opOut[op] = @ + 1]
  BY DEF PushInbound
<1>3. /\ BackendTypes /\ gRuntime \in [ChannelIds -> Runtime \cup {NoRuntime}]
      /\ gSession \in Shape /\ gSeqIn \in Nat /\ c2g \in Seq(ClientPacket)
      /\ gGeneration \in Int
  BY DEF WireInv, GatewayInv, BackendTypes, ConnectionTypes, LinkTypes
<1>4. /\ [gRuntime EXCEPT ![c].opOut[op] = @ + 1] = [gRuntime EXCEPT ![c] = r]
  BY <1>1, <1>3
<1> HIDE DEF c, op
<1>5. ASSUME rt.kind = kind PROVE rt \in Runtime /\ rt # NoRuntime
  BY <1>1, <1>3, <1>5 DEF NoRuntime, NoKind, OperationKind
<1>6. f \in Frame
  BY <1>1 DEF Operation, Frame
<1> HIDE DEF rt, f
<1>7. ASSUME rt.kind = kind
      PROVE  r \in Runtime /\ r.entity = rt.entity /\ rt.opOut[op] \in Nat
  <2>1. rt \in Runtime
    BY <1>5, <1>7
  <2>2. out \in [OpIds -> Nat] /\ rt.opOut[op] \in Nat
    BY <1>1, <2>1, OperationCounted
  <2> HIDE DEF out
  <2>3. r \in Runtime /\ r.entity = rt.entity
    BY <2>1, <2>2 DEF Runtime
  <2> QED  BY <2>2, <2>3
<1> HIDE DEF r
<1>8. Counted
  <2>1. CASE UNCHANGED gRuntime
    BY <1>3, <2>1, CountedSame
  <2>2. CASE rt.kind = kind /\ gRuntime' = [gRuntime EXCEPT ![c] = r]
    BY <1>1, <1>3, <1>5, <1>7, <2>2, CountedOne DEF rt
  <2> QED  BY <1>2, <1>4, <2>1, <2>2
<1>9. /\ Sending(o) /\ o.session = gSession /\ g2c \o o.out = g2c
  BY <1>3, SendingOutcome
<1>10. Connected => Joined(o, c2g)
  BY <1>9 DEF Joined, WireInv, Agreeing
<1>11. PICK z : /\ Sending(z) /\ Finish(z) /\ z.session = gSession
                /\ Connected => Joined(z, c2g)
  <2>1. CASE Finish(o)
    BY <1>9, <1>10, <2>1
  <2>2. CASE rt.kind = kind /\ Finish(t)
    <3> HIDE DEF o
    <3>1. /\ Sending(t) /\ (Joined(o, c2g) => Joined(t, c2g))
          /\ t.session = o.session
      BY <1>6, <1>7, <1>9, <2>2, JoinedFrame
    <3> HIDE DEF t
    <3> QED  BY <1>9, <1>10, <2>2, <3>1
  <2> QED  BY <1>2, <2>1, <2>2
<1> HIDE DEF o, t
<1>12. /\ EngineInv' /\ LinkTypes' /\ Streams' /\ Agreeing'
       /\ gSession' \in Shape /\ gSeqOut' \in Nat
       /\ gLoop' \in {"running", "closing"} /\ gSession' = gSession
  <2>1. /\ UNCHANGED <<clientVars, up>> /\ c2g' \in Seq(ClientPacket)
        /\ ~up => c2g' = <<>>
        /\ Connected => Joined(z, c2g')
    BY <1>3, <1>11 DEF WireInv, Streams
  <2>2. up /\ ~z.close => Numbered(c2g', gSeqIn', cSeqOut)
    BY DEF WireInv, Streams
  <2> QED  BY <1>11, <2>1, <2>2, GatewayFinishes
<1>13. BackendTypes'
  BY <1>8, QueuesKept
<1>14. EntitiesOwned'
  BY <1>8, <1>12, EntitiesKept DEF WireInv
<1>15. ConnectionTypes'
  BY <1>3, <1>12 DEF ConnectionTypes
<1> QED  BY <1>12, <1>13, <1>14, <1>15 DEF WireInv, GatewayInv

\* push_service_request.
LEMMA RequestStep ==
    ASSUME WireInv, UNCHANGED clientVars, GatewayRequest
    PROVE  WireInv'
<1> DEFINE x == Head(gRequests)
<1>1. /\ gLoop = "running" /\ gRequests # <<>> /\ gRequests' = Tail(gRequests)
      /\ PushInbound(x, "ServiceServer", "SERVICE_REQUEST")
      /\ UNCHANGED <<gSeqIn, gGeneration, gSamples, gGoals, backendVars, c2g, up>>
  BY DEF GatewayRequest
<1>2. BackendTypes
  BY DEF WireInv, GatewayInv
<1>3. /\ x \in [ch : ChannelIds, opid : OpIds]
      /\ gRequests' \in Seq([ch : ChannelIds, opid : OpIds])
  BY <1>1, <1>2, Taken DEF BackendTypes
<1>4. x.ch \in ChannelIds /\ x.opid \in OpIds
  BY <1>3
<1> HIDE DEF x
<1>5. "ServiceServer" \in OperationKind /\ "SERVICE_REQUEST" \in ServiceActionOpcode
  BY DEF OperationKind, ServiceActionOpcode
<1>6. /\ gSamples' \in Seq([ch : ChannelIds, from : Nat])
      /\ gGoals' \in Seq([ch : ChannelIds, opcode : {"ACTION_GOAL", "ACTION_CANCEL"},
                           opid : OpIds])
  BY <1>1, <1>2 DEF BackendTypes
<1> QED  BY <1>1, <1>3, <1>4, <1>5, <1>6, ForwardStep

\* push_action_inbound.
LEMMA GoalStep ==
    ASSUME WireInv, UNCHANGED clientVars, GatewayGoal
    PROVE  WireInv'
<1> DEFINE x == Head(gGoals)
           Goal == [ch : ChannelIds, opcode : {"ACTION_GOAL", "ACTION_CANCEL"},
                    opid : OpIds]
<1>1. /\ gLoop = "running" /\ gGoals # <<>> /\ gGoals' = Tail(gGoals)
      /\ PushInbound(x, "ActionServer", x.opcode)
      /\ UNCHANGED <<gSeqIn, gGeneration, gSamples, gRequests, backendVars, c2g, up>>
  BY DEF GatewayGoal
<1>2. BackendTypes
  BY DEF WireInv, GatewayInv
<1>3. gGoals \in Seq(Goal)
  BY <1>2 DEF BackendTypes
<1> HIDE DEF Goal
<1>4. x \in Goal /\ gGoals' \in Seq(Goal)
  BY <1>1, <1>3, Taken
<1>5. /\ x.ch \in ChannelIds /\ x.opid \in OpIds
      /\ x.opcode \in {"ACTION_GOAL", "ACTION_CANCEL"}
  BY <1>4 DEF Goal
<1> HIDE DEF x
<1>6. "ActionServer" \in OperationKind /\ x.opcode \in ServiceActionOpcode
  BY <1>5 DEF OperationKind, ServiceActionOpcode
<1>7. /\ gSamples' \in Seq([ch : ChannelIds, from : Nat])
      /\ gRequests' \in Seq([ch : ChannelIds, opid : OpIds])
  BY <1>1, <1>2 DEF BackendTypes
<1> QED  BY <1>1, <1>4, <1>5, <1>6, <1>7, ForwardStep DEF Goal

-----------------------------------------------------------------------------
(* The ROS graph, the end of the connection and the transport. *)

\* try_send keeps the type of a queue, full or not.
LEMMA Tried ==
    ASSUME NEW S, NEW q \in Seq(S), NEW x \in S
    PROVE  TrySend(q, x) \in Seq(S)
  BY Queued DEF TrySend

\* Nothing but the queues changes.
LEMMA QueueStep ==
    ASSUME WireInv, UNCHANGED <<clientVars, gSession, gLoop, gSeqOut, gSeqIn, gRuntime,
                                gGeneration, backendVars, linkVars>>,
           gSamples' \in Seq([ch : ChannelIds, from : Nat]),
           gRequests' \in Seq([ch : ChannelIds, opid : OpIds]),
           gGoals' \in Seq([ch : ChannelIds, opcode : {"ACTION_GOAL", "ACTION_CANCEL"},
                            opid : OpIds])
    PROVE  WireInv'
<1>1. Counted
  BY CountedSame DEF WireInv, GatewayInv
<1>2. BackendTypes'
  BY <1>1, QueuesKept
<1>3. EngineInv'
  BY DEF WireInv, EngineInv, EngineTypes, Unstarted, EngineTables, OpenAnsweredOnce,
         clientVars
<1>4. ConnectionTypes' /\ EntitiesOwned'
  BY DEF WireInv, GatewayInv, ConnectionTypes, EntitiesOwned, backendVars
<1>5. LinkTypes' /\ Streams' /\ Agreeing'
  BY DEF WireInv, LinkTypes, Streams, Agreeing, Connected, clientVars, linkVars
<1> QED  BY <1>2, <1>3, <1>4, <1>5 DEF WireInv, GatewayInv

\* The backend takes a sample,
LEMMA SampledStep ==
    ASSUME WireInv, UNCHANGED clientVars, NEW e \in bLive, BackendSample(e)
    PROVE  WireInv'
<1> DEFINE x == [ch |-> e.ch, from |-> e.id]
<1>1. BackendTypes /\ e.ch \in ChannelIds /\ e.id \in Nat
  BY DEF WireInv, GatewayInv, BackendTypes
<1>2. x \in [ch : ChannelIds, from : Nat]
  BY <1>1
<1> HIDE DEF x
<1>3. TrySend(gSamples, x) \in Seq([ch : ChannelIds, from : Nat])
  BY <1>1, <1>2, Tried DEF BackendTypes
<1>4. /\ gSamples' = TrySend(gSamples, x)
      /\ UNCHANGED <<gSession, gLoop, gSeqOut, gSeqIn, gRuntime, gGeneration,
                     gRequests, gGoals, backendVars, linkVars>>
  BY DEF BackendSample, x
<1> QED  BY <1>1, <1>3, <1>4, QueueStep DEF BackendTypes

\* a request, a goal or a cancel.
LEMMA CalledStep ==
    ASSUME WireInv, UNCHANGED clientVars, NEW e \in bLive, NEW op \in OpIds,
           NEW opcode \in {"ACTION_GOAL", "ACTION_CANCEL"},
           BackendRequest(e, op) \/ BackendGoal(e, opcode, op)
    PROVE  WireInv'
<1> DEFINE Goal == [ch : ChannelIds, opcode : {"ACTION_GOAL", "ACTION_CANCEL"},
                    opid : OpIds]
           y == [ch |-> e.ch, opid |-> op]
           z == [ch |-> e.ch, opcode |-> opcode, opid |-> op]
<1>1. /\ gSamples \in Seq([ch : ChannelIds, from : Nat])
      /\ gRequests \in Seq([ch : ChannelIds, opid : OpIds])
      /\ gGoals \in Seq(Goal)
      /\ e.ch \in ChannelIds /\ e.id \in Nat
  BY DEF WireInv, GatewayInv, BackendTypes
<1>2. y \in [ch : ChannelIds, opid : OpIds] /\ z \in Goal
  BY <1>1
<1> HIDE DEF Goal, y, z
<1>3. /\ TrySend(gRequests, y) \in Seq([ch : ChannelIds, opid : OpIds])
      /\ TrySend(gGoals, z) \in Seq(Goal)
  BY <1>1, <1>2, Tried
<1>4. CASE BackendRequest(e, op)
  <2>1. /\ gRequests' = TrySend(gRequests, y)
        /\ UNCHANGED <<gSession, gLoop, gSeqOut, gSeqIn, gRuntime, gGeneration,
                       gSamples, gGoals, backendVars, linkVars>>
    BY <1>4 DEF BackendRequest, y
  <2> QED  BY <1>1, <1>3, <2>1, QueueStep DEF Goal
<1>5. CASE BackendGoal(e, opcode, op)
  <2>1. /\ gGoals' = TrySend(gGoals, z)
        /\ UNCHANGED <<gSession, gLoop, gSeqOut, gSeqIn, gRuntime, gGeneration,
                       gSamples, gRequests, backendVars, linkVars>>
    BY <1>5 DEF BackendGoal, z
  <2> QED  BY <1>1, <1>3, <2>1, QueueStep DEF Goal
<1> QED  BY <1>4, <1>5

\* The loop ends with the transport; teardown leaves no entity.
LEMMA LeaveStep ==
    ASSUME WireInv, UNCHANGED clientVars, GatewayTransportGone \/ GatewayTeardown
    PROVE  WireInv'
<1>1. /\ UNCHANGED <<gSession, gSeqOut, gSeqIn, gGeneration, sinkVars, bCreated, linkVars>>
      /\ gLoop' \in {"closing", "ended"}
  BY DEF GatewayTransportGone, GatewayTeardown, backendVars
<1>2. EngineInv'
  BY DEF WireInv, EngineInv, EngineTypes, Unstarted, EngineTables, OpenAnsweredOnce,
         clientVars
<1>3. ConnectionTypes'
  BY <1>1 DEF WireInv, GatewayInv, ConnectionTypes
<1>4. LinkTypes' /\ Streams' /\ Agreeing'
  BY <1>1 DEF WireInv, LinkTypes, Streams, Agreeing, Connected, clientVars, linkVars
<1>5. CASE GatewayTransportGone
  <2>1. UNCHANGED <<gRuntime, backendVars>> /\ gLoop' = "closing"
    BY <1>5 DEF GatewayTransportGone
  <2>2. BackendTypes'
    BY <1>1, <2>1 DEF WireInv, GatewayInv, BackendTypes, backendVars, sinkVars
  <2>3. EntitiesOwned'
    BY <2>1 DEF WireInv, GatewayInv, EntitiesOwned, backendVars
  <2> QED  BY <1>2, <1>3, <1>4, <2>2, <2>3 DEF WireInv, GatewayInv
<1>6. CASE GatewayTeardown
  <2>1. /\ bLive' = {e \in bLive : \A c \in ChannelIds :
                        gRuntime[c] # NoRuntime => gRuntime[c].entity # e.id}
        /\ gRuntime' = [c \in ChannelIds |-> NoRuntime]
    BY <1>6 DEF GatewayTeardown
  <2>2. bLive' = {}
    <3>1. \A e \in bLive : /\ e.ch \in ChannelIds /\ gRuntime[e.ch] # NoRuntime
                           /\ gRuntime[e.ch].entity = e.id
      BY DEF WireInv, GatewayInv, BackendTypes, EntitiesOwned
    <3> QED  BY <2>1, <3>1
  <2>3. BackendTypes'
    BY <1>1, <2>1, <2>2 DEF WireInv, GatewayInv, BackendTypes, sinkVars
  <2>4. EntitiesOwned'
    BY <1>6, <2>2 DEF EntitiesOwned, GatewayTeardown
  <2> QED  BY <1>2, <1>3, <1>4, <2>3, <2>4 DEF WireInv, GatewayInv
<1> QED  BY <1>5, <1>6

\* A broken transport takes what was in flight with it.
LEMMA LoseStep ==
    ASSUME WireInv, TransportLost, UNCHANGED <<clientVars, gatewayVars>>
    PROVE  WireInv'
<1>1. up' = FALSE /\ c2g' = <<>> /\ g2c' = <<>>
  BY DEF TransportLost
<1>2. EngineInv' /\ GatewayInv'
  BY DEF WireInv, EngineInv, EngineTypes, Unstarted, EngineTables, OpenAnsweredOnce,
         GatewayInv, ConnectionTypes, BackendTypes, EntitiesOwned, clientVars, gatewayVars
<1>3. LinkTypes'
  <2>1. <<>> \in Seq(ClientPacket) /\ <<>> \in Seq(ServerPacket)
    OBVIOUS
  <2> QED  BY <1>1, <2>1, Zenon DEF LinkTypes
<1>4. Streams'
  BY <1>1 DEF Streams
<1>5. Agreeing'
  BY <1>1 DEF Agreeing, Connected
<1> QED  BY <1>2, <1>3, <1>4, <1>5 DEF WireInv

-----------------------------------------------------------------------------
(* The invariant, and what it says of the system. *)

\* Every command of the application,
LEMMA AppStep ==
    ASSUME WireInv, App
    PROVE  WireInv'
<1>1. Kinds \subseteq OperationKind
  BY WireAssumption
<1>2. CASE AppStart \/ AppAuthenticate \/ AppTick \/ AppClose
  BY <1>2, StartStep, AuthenticateStep, TickStep, CloseStep
  DEF AppStart, AppAuthenticate, AppTick, AppClose
<1>3. ASSUME NEW c \in ChannelIds, NEW kind \in Kinds, AppOpen(c, kind)
      PROVE  WireInv'
  BY <1>1, <1>3, OpenStep DEF AppOpen
<1>4. ASSUME NEW c \in ChannelIds, AppUnsubscribe(c) \/ AppPublish(c)
      PROVE  WireInv'
  BY <1>4, UnsubscribeStep, PublishStep DEF AppUnsubscribe, AppPublish
<1>5. ASSUME NEW c \in ChannelIds, NEW op \in OpIds, NEW opcode \in ServiceActionOpcode,
             ClientSendOperation(c, opcode, op), UNCHANGED gatewayVars
      PROVE  WireInv'
  BY <1>5, OperationStep
<1>6. {"SERVICE_REQUEST", "SERVICE_RESPONSE", "ACTION_GOAL", "ACTION_CANCEL",
       "ACTION_FEEDBACK", "ACTION_STATUS", "ACTION_RESULT"} \subseteq ServiceActionOpcode
  BY DEF ServiceActionOpcode
<1>7. ASSUME NEW c \in ChannelIds, NEW op \in OpIds,
             AppCall(c, op) \/ AppCancel(c, op) \/ AppReply(c, op)
      PROVE  WireInv'
  <2>1. /\ UNCHANGED gatewayVars
        /\ \E opcode \in ServiceActionOpcode : ClientSendOperation(c, opcode, op)
    BY <1>6, <1>7 DEF AppCall, AppCancel, AppReply
  <2> QED  BY <1>5, <2>1
<1>8. ASSUME NEW c \in ChannelIds, NEW opcode \in ServiceActionOpcode,
             NEW op \in OpIds, AppMisuse(c, opcode, op)
      PROVE  WireInv'
  BY <1>5, <1>8 DEF AppMisuse
<1> QED  BY <1>2, <1>3, <1>4, <1>7, <1>8 DEF App

\* every packet the gateway takes,
LEMMA HandleStep ==
    ASSUME WireInv, NEW p, Inbound(p), GatewayHandle(p), UNCHANGED clientVars
    PROVE  WireInv'
<1>1. Outcomes \subseteq BOOLEAN
  BY DEF Outcomes
<1>2. ASSUME NEW negotiated \in Outcomes, GatewayBootstrap(p, negotiated)
      PROVE  WireInv'
  BY <1>1, <1>2, BootstrapStep
<1>3. ASSUME NEW allowed \in Outcomes, NEW graph \in Outcomes,
             GatewayAuthenticate(p, allowed, graph)
      PROVE  WireInv'
  BY <1>1, <1>3, AuthenticatedStep
<1>4. ASSUME NEW reliable \in BOOLEAN, NEW shown \in BOOLEAN,
             GatewayOpen(p, reliable, shown)
      PROVE  WireInv'
  BY <1>4, OpenedStep
<1>5. ASSUME NEW ok \in Outcomes, GatewayPublish(p, ok) \/ GatewayOperation(p, ok)
      PROVE  WireInv'
  BY <1>1, <1>5, PublishedStep, OperatedStep
<1>6. CASE GatewayRefuses(p) \/ GatewayRefuseOpen(p) \/ GatewayClose(p)
           \/ GatewayHeartbeat(p)
  BY <1>6, RefusesStep, RefuseOpenStep, ReleasedStep, HeartbeatStep
<1> QED  BY <1>2, <1>3, <1>4, <1>5, <1>6 DEF GatewayHandle

\* and every step of the system keep the invariant.
LEMMA WireStep ==
    ASSUME WireInv, [Next]_vars
    PROVE  WireInv'
<1>1. CASE App
  BY <1>1, AppStep
<1>2. CASE EngineReceive
  BY <1>2, EngineReceiveStep DEF EngineReceive
<1>3. CASE GatewayReceive
  BY <1>3, HandleStep DEF GatewayReceive
<1>4. CASE GatewayForward
  <2>1. UNCHANGED clientVars /\ Outcomes \subseteq BOOLEAN
    BY <1>4 DEF GatewayForward, Outcomes
  <2>2. ASSUME NEW fits \in Outcomes, GatewaySample(fits) PROVE WireInv'
    BY <2>1, <2>2, SampleStep
  <2>3. CASE GatewayRequest
    BY <2>1, <2>3, RequestStep
  <2>4. CASE GatewayGoal
    BY <2>1, <2>4, GoalStep
  <2> QED  BY <1>4, <2>2, <2>3, <2>4 DEF GatewayForward
<1>5. CASE GatewayLeave
  BY <1>5, LeaveStep DEF GatewayLeave
<1>6. CASE Graph
  <2>1. UNCHANGED clientVars
    BY <1>6 DEF Graph
  <2>2. ASSUME NEW e \in bLive, BackendSample(e) PROVE WireInv'
    BY <2>1, <2>2, SampledStep
  <2>3. ASSUME NEW e \in bLive, NEW op \in OpIds,
               BackendRequest(e, op) \/ BackendGoal(e, "ACTION_GOAL", op)
        PROVE  WireInv'
    BY <2>1, <2>3, CalledStep
  <2>4. ASSUME NEW e \in bLive, NEW op \in OpIds, BackendGoal(e, "ACTION_CANCEL", op)
        PROVE  WireInv'
    BY <2>1, <2>4, CalledStep
  <2> QED  BY <1>6, <2>2, <2>3, <2>4 DEF Graph
<1>7. CASE Lose
  BY <1>7, LoseStep DEF Lose
<1>8. CASE UNCHANGED vars
  BY <1>8 DEF vars, WireInv, EngineInv, EngineTypes, Unstarted, EngineTables,
     OpenAnsweredOnce, GatewayInv, ConnectionTypes, BackendTypes, EntitiesOwned,
     LinkTypes, Streams, Agreeing, Connected, clientVars, gatewayVars, linkVars
<1> QED  BY <1>1, <1>2, <1>3, <1>4, <1>5, <1>6, <1>7, <1>8 DEF Next

(***************************************************************************)
(* The inductive invariant: the types of the two halves and of what is in  *)
(* flight between them, the numbering of the control frames in each        *)
(* direction, the relation of the two sessions through the packets that    *)
(* separate them, and the tables each half keeps beside its session.       *)
(***************************************************************************)
THEOREM WireInvariant == Spec => []WireInv
  BY WireInitially, WireStep, PTL DEF Spec

(***************************************************************************)
(* Whatever was sent, refused or failed, once nothing is in flight the     *)
(* engine and the connection hold the same session (phase, channel table   *)
(* and graph generation) and expect the control number the other will use. *)
(***************************************************************************)
THEOREM SessionsAgree == Spec => []QuiescentAgreement
<1>1. WireInv => QuiescentAgreement
  <2> SUFFICES ASSUME WireInv, Connected, c2g = <<>>, g2c = <<>>
               PROVE  cSession = gSession /\ cSeqOut = gSeqIn /\ gSeqOut = cSeqIn
    BY DEF QuiescentAgreement
  <2>1. cSession \in Shape /\ gSession \in Shape
    BY DEF WireInv, EngineInv, EngineTypes, GatewayInv, ConnectionTypes
  <2>2. Joint(cSession, gSession, <<>>, <<>>)
    BY DEF WireInv, Agreeing
  <2>3. Numbered(<<>>, cSeqIn, gSeqOut) /\ Numbered(<<>>, gSeqIn, cSeqOut)
    BY DEF WireInv, Streams, Connected
  <2>4. cSeqIn = gSeqOut /\ gSeqIn = cSeqOut
    BY <2>3, NumberedSame
  <2> QED  BY <2>1, <2>2, <2>4, JointAtRest
<1> QED  BY <1>1, WireInvariant, PTL

(***************************************************************************)
(* At every moment the two ends' views of a channel are at most one open,  *)
(* one answer or one close apart, and a channel the application believes   *)
(* active is active at the gateway.                                        *)
(***************************************************************************)
THEOREM ChannelsViewedAlike == Spec => []ChannelViews
<1>1. WireInv => ChannelViews
  BY DEF WireInv, Agreeing, Joint, View, ViewPairs, ChannelViews
<1> QED  BY <1>1, WireInvariant, PTL

(***************************************************************************)
(* Every backend entity belongs to the runtime of its channel, a running   *)
(* connection has a runtime for exactly the active channels, and nothing   *)
(* is left in the backend when the connection has ended.                   *)
(***************************************************************************)
THEOREM EntitiesAreOwned == Spec => []EntitiesOwned
<1>1. WireInv => EntitiesOwned
  BY DEF WireInv, GatewayInv
<1> QED  BY <1>1, WireInvariant, PTL

(***************************************************************************)
(* pending_opens and the active_ maps of the engine say what its session   *)
(* says of every channel.                                                  *)
(***************************************************************************)
THEOREM TablesFollowSession == Spec => []EngineTables
<1>1. WireInv => EngineTables
  BY DEF WireInv, EngineInv
<1> QED  BY <1>1, WireInvariant, PTL

(***************************************************************************)
(* The application is told the fate of an open once and only once.         *)
(***************************************************************************)
THEOREM OpensAreAnsweredOnce == Spec => []OpenAnsweredOnce
<1>1. WireInv => OpenAnsweredOnce
  BY DEF WireInv, EngineInv
<1> QED  BY <1>1, WireInvariant, PTL
=============================================================================
