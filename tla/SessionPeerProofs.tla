-------------------------- MODULE SessionPeerProofs -------------------------
(***************************************************************************)
(* Proofs about SessionPeer for every set of channel ids and every largest *)
(* generation.                                                             *)
(***************************************************************************)
EXTENDS SessionPeer, SequenceTheorems, TLAPS

(***************************************************************************)
(* How far up the ladder each phase is.  ReadyIsEarned is not inductive:   *)
(* it says nothing of the phases on the way to Ready.                      *)
(***************************************************************************)
Entry == << <<"ClientHello", Client>>, <<"ServerHello", Server>>,
            <<"Authenticate", Client>>, <<"SessionReady", Server>> >>

Climbed(n) == Len(ladder) = n /\ \A i \in 1 .. n : ladder[i] = Entry[i]

LadderMatchesPhase ==
    /\ session.phase = "AwaitClientHello" => Climbed(0)
    /\ session.phase = "AwaitServerHello" => Climbed(1)
    /\ session.phase = "SelectedAwaitAuthenticate" => Climbed(2)
    /\ session.phase = "SelectedAwaitSessionReady" => Climbed(3)
    /\ session.phase = "Ready" => Climbed(4)

\* The inductive invariant.
IInv == TypeOK /\ LadderMatchesPhase /\ ChannelIdUsedOnce

\* One more entry message in its place.
LEMMA ClimbOne ==
    ASSUME NEW k \in 0 .. 3, NEW n \in 1 .. 4, n = k + 1, Climbed(k),
           ladder \in Seq(EntryType \X Role),
           NEW e \in EntryType \X Role, e = Entry[n],
           ladder' = Append(ladder, e)
    PROVE  Climbed(n)'
  BY DEF Climbed

\* The entries by position.
LEMMA EntryAt ==
    /\ Entry[1] = <<"ClientHello", Client>>
    /\ Entry[2] = <<"ServerHello", Server>>
    /\ Entry[3] = <<"Authenticate", Client>>
    /\ Entry[4] = <<"SessionReady", Server>>
    /\ Entry \in Seq(EntryType \X Role)
    /\ Len(Entry) = 4
  BY DEF Entry, EntryType, Role

-----------------------------------------------------------------------------
\* The accepted message of apply_bootstrap keeps the state well formed.
LEMMA AfterBootstrapType ==
    ASSUME NEW s \in SessionState, NEW m \in BootstrapRecord
    PROVE  AfterBootstrap(s, m) \in SessionState
  BY DEF AfterBootstrap, SessionState, BootstrapRecord, Phase

\* Moving one channel to another state keeps the session well formed.
LEMMA MoveType ==
    ASSUME NEW s \in SessionState, NEW c \in ChannelIds, NEW to \in ChannelState
    PROVE  [s EXCEPT !.chan[c].state = to] \in SessionState
<1>1. [s.chan[c] EXCEPT !.state = to] \in ChannelEntry
  BY DEF SessionState, ChannelEntry
<1> HIDE DEF ChannelEntry
<1>2. [s.chan EXCEPT ![c] = [s.chan[c] EXCEPT !.state = to]]
         \in [ChannelIds -> ChannelEntry]
  BY <1>1 DEF SessionState
<1> QED  BY <1>2 DEF SessionState

\* The accepted message of apply_control keeps the state well formed.
LEMMA AfterControlType ==
    ASSUME NEW s \in SessionState, NEW m \in ControlMessage
    PROVE  AfterControl(s, m) \in SessionState
<1>1. CASE m.type = "Error"
  <2>1. m.ch \in ChannelIds => [s EXCEPT !.chan[m.ch].state = "Failed"]
                                  \in SessionState
    BY MoveType DEF ChannelState
  <2>2. [s EXCEPT !.phase = "Failed"] \in SessionState
    BY DEF SessionState, Phase
  <2> QED  BY <1>1, <2>1, <2>2 DEF AfterControl, AfterError, FailsPendingChannel
<1>2. CASE m.type = "OpenChannel"
  <2>1. m.ch \in ChannelIds /\ m.kind \in OperationKind
    BY <1>2 DEF ControlMessage, PlainControl
  <2> QED  BY <1>2, <2>1 DEF AfterControl, AfterOpenChannel, SessionState,
                             ChannelEntry, ChannelState
<1>3. CASE m.type = "ChannelReady"
  <2>1. m.ch \in ChannelIds
    BY <1>3 DEF ControlMessage, PlainControl
  <2>2. AfterChannelReady(s, m) \in SessionState
    BY <2>1, MoveType DEF AfterChannelReady, ChannelState
  <2> QED  BY <1>3, <2>2 DEF AfterControl
<1>4. CASE m.type = "CloseChannel"
  <2>1. m.ch \in ChannelIds
    BY <1>4 DEF ControlMessage, PlainControl
  <2>2. AfterCloseChannel(s, m) \in SessionState
    BY <2>1, MoveType DEF AfterCloseChannel, ChannelState
  <2> QED  BY <1>4, <2>2 DEF AfterControl
<1>5. CASE m.type \in {"GraphSnapshot", "GraphDelta"}
  <2>1. m.gen \in 0 .. MaxGeneration
    BY <1>5 DEF ControlMessage, PlainControl
  <2> QED  BY <1>5, <2>1 DEF AfterControl, AfterGraph, SessionState
<1>6. CASE m.type \notin {"Error", "OpenChannel", "ChannelReady",
                          "CloseChannel", "GraphSnapshot", "GraphDelta"}
  BY <1>6 DEF AfterControl, SessionState, Phase
<1> QED  BY <1>1, <1>2, <1>3, <1>4, <1>5, <1>6

-----------------------------------------------------------------------------
\* What an accepted OpenChannel does to the table, and that no other message
\* moves a channel to or from "Unused".
LEMMA OpenConsumesId ==
    ASSUME NEW s \in SessionState, NEW m \in ControlMessage,
           NEW sender \in Role, AcceptsControl(s, m, sender),
           NEW c \in ChannelIds
    PROVE  LET t == AfterControl(s, m)
           IN  IF m.type = "OpenChannel" /\ m.ch = c
               THEN s.chan[c].state = "Unused" /\ t.chan[c].state = "Pending"
               ELSE t.chan[c].state = "Unused" <=> s.chan[c].state = "Unused"
<1> USE DEF SessionState, ChannelEntry
<1>1. CASE m.type = "Error"
  BY <1>1 DEF AfterControl, AfterError, FailsPendingChannel
<1>2. CASE m.type = "OpenChannel"
  <2>1. m.ch \in ChannelIds
    BY <1>2 DEF ControlMessage, PlainControl
  <2>2. s.chan[m.ch].state = "Unused"
    BY <1>2 DEF AcceptsControl, AcceptsOpenChannel
  <2>3. AfterControl(s, m) =
          [s EXCEPT !.chan[m.ch] = [state |-> "Pending", kind |-> m.kind]]
    BY <1>2 DEF AfterControl, AfterOpenChannel
  <2> QED  BY <1>2, <2>1, <2>2, <2>3
<1>3. CASE m.type = "ChannelReady"
  <2>1. m.ch \in ChannelIds
    BY <1>3 DEF ControlMessage, PlainControl
  <2> QED
    BY <1>3, <2>1 DEF AfterControl, AfterChannelReady, AcceptsControl,
                      AcceptsChannelReady
<1>4. CASE m.type = "CloseChannel"
  <2>1. m.ch \in ChannelIds
    BY <1>4 DEF ControlMessage, PlainControl
  <2> QED
    BY <1>4, <2>1 DEF AfterControl, AfterCloseChannel, AcceptsControl,
                      AcceptsCloseChannel
<1>5. CASE m.type \notin {"Error", "OpenChannel", "ChannelReady",
                          "CloseChannel"}
  BY <1>5 DEF AfterControl, AfterGraph
<1> QED  BY <1>1, <1>2, <1>3, <1>4, <1>5

\* A control message moves the phase along the ladder or not at all.
LEMMA ControlPhase ==
    ASSUME NEW s \in SessionState, NEW m \in ControlMessage,
           NEW sender \in Role, AcceptsControl(s, m, sender)
    PROVE  LET t == AfterControl(s, m)
           IN  /\ m.type = "Authenticate" =>
                     /\ sender = Client
                     /\ s.phase = "SelectedAwaitAuthenticate"
                     /\ t.phase = "SelectedAwaitSessionReady"
               /\ m.type = "SessionReady" =>
                     /\ sender = Server
                     /\ s.phase = "SelectedAwaitSessionReady"
                     /\ t.phase = "Ready"
               /\ m.type \notin {"Authenticate", "SessionReady"} =>
                     \/ t.phase = s.phase
                     \/ /\ t.phase = "Failed"
                        /\ s.phase \in {"SelectedAwaitAuthenticate",
                                        "SelectedAwaitSessionReady"}
<1> USE DEF SessionState, ChannelEntry
<1>1. CASE m.type = "Authenticate"
  <2>1. sender \in {Client}
    BY <1>1 DEF AcceptsControl, ControlSenders
  <2> QED  BY <1>1, <2>1 DEF AfterControl, AcceptsControl
<1>2. CASE m.type = "SessionReady"
  <2>1. sender \in {Server}
    BY <1>2 DEF AcceptsControl, ControlSenders
  <2> QED  BY <1>2, <2>1 DEF AfterControl, AcceptsControl
<1>3. CASE m.type = "Error"
  BY <1>3 DEF AfterControl, AfterError, AcceptsControl, InSelectedPlane,
              IsTerminal, Phase
<1>4. CASE m.type = "OpenChannel"
  BY <1>4 DEF AfterControl, AfterOpenChannel
<1>5. CASE m.type = "ChannelReady"
  BY <1>5 DEF AfterControl, AfterChannelReady
<1>6. CASE m.type = "CloseChannel"
  BY <1>6 DEF AfterControl, AfterCloseChannel
<1>7. CASE m.type \in {"GraphSnapshot", "GraphDelta"}
  BY <1>7 DEF AfterControl, AfterGraph
<1>8. CASE m.type \notin {"Authenticate", "SessionReady", "Error",
                          "OpenChannel", "ChannelReady", "CloseChannel",
                          "GraphSnapshot", "GraphDelta"}
  BY <1>8 DEF AfterControl
<1> QED  BY <1>1, <1>2, <1>3, <1>4, <1>5, <1>6, <1>7, <1>8

-----------------------------------------------------------------------------
\* The invariant holds of a new session.
LEMMA InitIInv == Init => IInv
<1> SUFFICES ASSUME Init PROVE IInv
  OBVIOUS
<1>1. TypeOK
  BY DEF Init, TypeOK, NewSession, SessionState, ChannelEntry, UnusedEntry,
         Phase, ChannelState
<1>2. LadderMatchesPhase
  BY DEF Init, LadderMatchesPhase, Climbed, NewSession
<1>3. ChannelIdUsedOnce
  <2> SUFFICES ASSUME NEW c \in ChannelIds
               PROVE  /\ opens[c] <= 1
                      /\ session.chan[c].state # "Unused" <=> opens[c] = 1
    BY DEF ChannelIdUsedOnce
  <2>1. opens[c] = 0
    BY DEF Init
  <2>2. session.chan[c].state = "Unused"
    BY DEF Init, NewSession, UnusedEntry
  <2> QED  BY <2>1, <2>2
<1> QED  BY <1>1, <1>2, <1>3 DEF IInv

\* Every accepted bootstrap record keeps the invariant.
LEMMA BootstrapStep ==
    ASSUME IInv, NEW sender \in Role, NEW m \in BootstrapRecord,
           ObserveBootstrap(m, sender)
    PROVE  IInv'
<1> USE DEF ObserveBootstrap
<1>1. session \in SessionState /\ ladder \in Seq(EntryType \X Role)
      /\ opens \in [ChannelIds -> Nat]
  BY DEF IInv, TypeOK
<1>2. m.type \in {"ClientHello", "ServerHello", "BootstrapError"}
  BY DEF BootstrapRecord
<1>3. TypeOK'
  <2>1. session' \in SessionState
    BY <1>1, AfterBootstrapType
  <2>2. <<m.type, sender>> \in EntryType \X Role
    BY <1>2 DEF EntryType
  <2> QED  BY <1>1, <2>1, <2>2 DEF TypeOK
<1>4. LadderMatchesPhase'
  <2>1. CASE m.type = "ClientHello"
    <3>1. session.phase = "AwaitClientHello" /\ sender = Client
      BY <2>1 DEF AcceptsBootstrap, BootstrapSenders
    <3>2. session'.phase = "AwaitServerHello"
      BY <1>1, <2>1 DEF AfterBootstrap, SessionState
    <3>3. Climbed(0)
      BY <3>1 DEF IInv, LadderMatchesPhase
    <3>4. /\ ladder' = Append(ladder, Entry[1])
          /\ Entry[1] \in EntryType \X Role
      BY <2>1, <3>1, EntryAt DEF EntryType, Role
    <3>5. Climbed(1)'
      BY <1>1, <3>3, <3>4, 1 = 0 + 1, ClimbOne
    <3> QED  BY <3>2, <3>5 DEF LadderMatchesPhase
  <2>2. CASE m.type = "ServerHello"
    <3>1. session.phase = "AwaitServerHello" /\ sender = Server
      BY <2>2 DEF AcceptsBootstrap, BootstrapSenders
    <3>2. session'.phase = "SelectedAwaitAuthenticate"
      BY <1>1, <2>2 DEF AfterBootstrap, SessionState
    <3>3. Climbed(1)
      BY <3>1 DEF IInv, LadderMatchesPhase
    <3>4. /\ ladder' = Append(ladder, Entry[2])
          /\ Entry[2] \in EntryType \X Role
      BY <2>2, <3>1, EntryAt DEF EntryType, Role
    <3>5. Climbed(2)'
      BY <1>1, <3>3, <3>4, 2 = 1 + 1, ClimbOne
    <3> QED  BY <3>2, <3>5 DEF LadderMatchesPhase
  <2>3. CASE m.type = "BootstrapError"
    <3>1. session'.phase = "BootstrapFailed"
      BY <1>1, <2>3 DEF AfterBootstrap, SessionState
    <3> QED  BY <3>1 DEF LadderMatchesPhase
  <2> QED  BY <1>2, <2>1, <2>2, <2>3
<1>5. ChannelIdUsedOnce'
  <2>1. session'.chan = session.chan
    BY <1>1 DEF AfterBootstrap, SessionState
  <2> QED  BY <2>1 DEF IInv, ChannelIdUsedOnce
<1> QED  BY <1>3, <1>4, <1>5 DEF IInv

\* Every accepted control message keeps the invariant.
LEMMA ControlStep ==
    ASSUME IInv, NEW sender \in Role, NEW m \in ControlMessage,
           ObserveControl(m, sender)
    PROVE  IInv'
<1> USE DEF ObserveControl
<1>1. session \in SessionState /\ ladder \in Seq(EntryType \X Role)
      /\ opens \in [ChannelIds -> Nat]
  BY DEF IInv, TypeOK
<1>2. AcceptsControl(session, m, sender)
  OBVIOUS
<1>3. TypeOK'
  <2>1. session' \in SessionState
    BY <1>1, AfterControlType
  <2>2. m.type \in {"Authenticate", "SessionReady"} =>
           <<m.type, sender>> \in EntryType \X Role
    BY DEF EntryType
  <2>3. m.type = "OpenChannel" => m.ch \in ChannelIds
    BY DEF ControlMessage, PlainControl
  <2>4. opens' \in [ChannelIds -> Nat]
    BY <1>1, <2>3
  <2> QED  BY <1>1, <2>1, <2>2, <2>4 DEF TypeOK
<1>4. LadderMatchesPhase'
  <2>1. CASE m.type = "Authenticate"
    <3>1. /\ sender = Client
          /\ session.phase = "SelectedAwaitAuthenticate"
          /\ session'.phase = "SelectedAwaitSessionReady"
      BY <1>1, <1>2, <2>1, ControlPhase
    <3>2. Climbed(2)
      BY <3>1 DEF IInv, LadderMatchesPhase
    <3>3. /\ ladder' = Append(ladder, Entry[3])
          /\ Entry[3] \in EntryType \X Role
      BY <2>1, <3>1, EntryAt DEF EntryType, Role
    <3>4. Climbed(3)'
      BY <1>1, <3>2, <3>3, 3 = 2 + 1, ClimbOne
    <3> QED  BY <3>1, <3>4 DEF LadderMatchesPhase
  <2>2. CASE m.type = "SessionReady"
    <3>1. /\ sender = Server
          /\ session.phase = "SelectedAwaitSessionReady"
          /\ session'.phase = "Ready"
      BY <1>1, <1>2, <2>2, ControlPhase
    <3>2. Climbed(3)
      BY <3>1 DEF IInv, LadderMatchesPhase
    <3>3. /\ ladder' = Append(ladder, Entry[4])
          /\ Entry[4] \in EntryType \X Role
      BY <2>2, <3>1, EntryAt DEF EntryType, Role
    <3>4. Climbed(4)'
      BY <1>1, <3>2, <3>3, 4 = 3 + 1, ClimbOne
    <3> QED  BY <3>1, <3>4 DEF LadderMatchesPhase
  <2>3. CASE m.type \notin {"Authenticate", "SessionReady"}
    <3>1. ladder' = ladder
      BY <2>3
    <3>2. session'.phase = session.phase \/ session'.phase = "Failed"
      BY <1>1, <1>2, <2>3, ControlPhase
    <3> QED  BY <3>1, <3>2 DEF IInv, LadderMatchesPhase, Climbed
  <2> QED  BY <2>1, <2>2, <2>3
<1>5. ChannelIdUsedOnce'
  <2> SUFFICES ASSUME NEW c \in ChannelIds
               PROVE  /\ opens'[c] <= 1
                      /\ session'.chan[c].state # "Unused" <=> opens'[c] = 1
    BY DEF ChannelIdUsedOnce
  <2>1. /\ opens[c] \in Nat
        /\ opens[c] <= 1
        /\ session.chan[c].state # "Unused" <=> opens[c] = 1
    BY <1>1 DEF IInv, ChannelIdUsedOnce
  <2>2. CASE m.type = "OpenChannel" /\ m.ch = c
    <3>1. session.chan[c].state = "Unused" /\ session'.chan[c].state = "Pending"
      BY <1>1, <1>2, <2>2, OpenConsumesId
    <3>2. opens'[c] = opens[c] + 1
      BY <1>1, <2>2
    <3> QED  BY <2>1, <3>1, <3>2
  <2>3. CASE ~(m.type = "OpenChannel" /\ m.ch = c)
    <3>1. session'.chan[c].state = "Unused" <=> session.chan[c].state = "Unused"
      BY <1>1, <1>2, <2>3, OpenConsumesId
    <3>2. opens'[c] = opens[c]
      BY <1>1, <2>3
    <3> QED  BY <2>1, <3>1, <3>2
  <2> QED  BY <2>2, <2>3
<1> QED  BY <1>3, <1>4, <1>5 DEF IInv

\* Every step keeps the invariant.
LEMMA StepIInv == IInv /\ [Next]_vars => IInv'
<1> SUFFICES ASSUME IInv, [Next]_vars PROVE IInv'
  OBVIOUS
<1>1. ASSUME NEW sender \in Role, NEW m \in BootstrapRecord,
             ObserveBootstrap(m, sender)
      PROVE  IInv'
  BY <1>1, BootstrapStep
<1>2. ASSUME NEW sender \in Role, NEW m \in ControlMessage,
             ObserveControl(m, sender)
      PROVE  IInv'
  BY <1>2, ControlStep
<1>3. CASE UNCHANGED vars
  BY <1>3 DEF vars, IInv, TypeOK, LadderMatchesPhase, Climbed,
              ChannelIdUsedOnce
<1> QED  BY <1>1, <1>2, <1>3 DEF Next

(***************************************************************************)
(* The session machine is well typed whatever the peers send it, a session *)
(* is Ready only when both peers climbed the entry ladder in order, and no *)
(* channel id is opened twice.                                             *)
(***************************************************************************)
THEOREM SessionSafety == Spec => [](TypeOK /\ ReadyIsEarned /\ ChannelIdUsedOnce)
<1>1. IInv => TypeOK /\ ReadyIsEarned /\ ChannelIdUsedOnce
  <2> SUFFICES ASSUME IInv, session.phase = "Ready" PROVE ladder = Entry
    BY DEF IInv, ReadyIsEarned, Entry
  <2>1. Climbed(4) /\ ladder \in Seq(EntryType \X Role)
    BY DEF IInv, LadderMatchesPhase, TypeOK
  <2> QED  BY <2>1, EntryAt, SeqEqual DEF Climbed
<1> QED  BY InitIInv, StepIInv, <1>1, PTL DEF Spec

\* The part of SessionSafety about channel ids: record_open_channel never
\* accepts an id that an earlier OpenChannel consumed, however that channel
\* ended.
COROLLARY ChannelIdsConsumed == Spec => []ChannelIdUsedOnce
BY SessionSafety, PTL

\* The part about types: no sequence of messages takes the session's phase,
\* its channel table or an operation's state out of the code's enums.
COROLLARY SessionTyped == Spec => []TypeOK
BY SessionSafety, PTL

-----------------------------------------------------------------------------
\* The channel table as the lifecycle sees it.
States == [c \in ChannelIds |-> session.chan[c].state]

\* A control message that moves channel ch to a state writes the abstract
\* table at ch only.
LEMMA OneChannelMoves ==
    ASSUME session \in SessionState, NEW ch \in ChannelIds, NEW to,
           \A c \in ChannelIds :
               session'.chan[c].state = IF c = ch THEN to
                                                  ELSE session.chan[c].state
    PROVE  States' = [States EXCEPT ![ch] = to]
  BY DEF States

\* Which channel a control message moves, and along which edge.
LEMMA ControlEdge ==
    ASSUME session \in SessionState, NEW m \in ControlMessage,
           NEW sender \in Role, ObserveControl(m, sender)
    PROVE  \/ \A c \in ChannelIds :
                 session'.chan[c].state = session.chan[c].state
           \/ /\ session.phase = "Ready"
              /\ session'.phase = "Ready"
              /\ \E ch \in ChannelIds,
                    to \in {"Pending", "Active", "Failed", "Closed"} :
                    /\ <<session.chan[ch].state, to>> \in Lifecycle!Edge
                    /\ \A c \in ChannelIds : session'.chan[c].state =
                          IF c = ch THEN to ELSE session.chan[c].state
<1> USE DEF SessionState, ChannelEntry, ObserveControl
<1>1. CASE m.type = "Error"
  <2>1. CASE FailsPendingChannel(session, m)
    <3>1. session' = [session EXCEPT !.chan[m.ch].state = "Failed"]
      BY <1>1, <2>1 DEF AfterControl, AfterError, FailsPendingChannel
    <3>2. m.ch \in ChannelIds /\ session.phase = "Ready"
          /\ session.chan[m.ch].state = "Pending"
      BY <2>1 DEF FailsPendingChannel
    <3>3. <<session.chan[m.ch].state, "Failed">> \in Lifecycle!Edge
      BY <3>2 DEF Lifecycle!Edge
    <3>4. \A c \in ChannelIds : session'.chan[c].state =
             IF c = m.ch THEN "Failed" ELSE session.chan[c].state
      BY <3>1, <3>2
    <3>5. session'.phase = "Ready"
      BY <3>1, <3>2
    <3> QED  BY <3>2, <3>3, <3>4, <3>5
  <2>2. CASE ~FailsPendingChannel(session, m)
    BY <1>1, <2>2 DEF AfterControl, AfterError
  <2> QED  BY <2>1, <2>2
<1>2. CASE m.type = "OpenChannel"
  <2>1. m.ch \in ChannelIds
    BY <1>2 DEF ControlMessage, PlainControl
  <2>2. session.phase = "Ready" /\ session.chan[m.ch].state = "Unused"
    BY <1>2 DEF AcceptsControl, ReadyRequired, AcceptsOpenChannel
  <2>3. session' =
          [session EXCEPT !.chan[m.ch] = [state |-> "Pending", kind |-> m.kind]]
    BY <1>2 DEF AfterControl, AfterOpenChannel
  <2>4. <<session.chan[m.ch].state, "Pending">> \in Lifecycle!Edge
    BY <2>2 DEF Lifecycle!Edge
  <2>5. \A c \in ChannelIds : session'.chan[c].state =
           IF c = m.ch THEN "Pending" ELSE session.chan[c].state
    BY <2>1, <2>3
  <2>6. session'.phase = "Ready"
    BY <2>2, <2>3
  <2> QED  BY <2>1, <2>2, <2>4, <2>5, <2>6
<1>3. CASE m.type = "ChannelReady"
  <2>1. m.ch \in ChannelIds
    BY <1>3 DEF ControlMessage, PlainControl
  <2>2. session.phase = "Ready" /\ session.chan[m.ch].state = "Pending"
    BY <1>3 DEF AcceptsControl, ReadyRequired, AcceptsChannelReady
  <2>3. ASSUME NEW to \in {"Active", "Failed"},
               session' = [session EXCEPT !.chan[m.ch].state = to]
        PROVE  \E ch \in ChannelIds,
                  t \in {"Pending", "Active", "Failed", "Closed"} :
                  /\ <<session.chan[ch].state, t>> \in Lifecycle!Edge
                  /\ \A c \in ChannelIds : session'.chan[c].state =
                        IF c = ch THEN t ELSE session.chan[c].state
    <3>1. <<session.chan[m.ch].state, to>> \in Lifecycle!Edge
      BY <2>2 DEF Lifecycle!Edge
    <3>2. \A c \in ChannelIds : session'.chan[c].state =
             IF c = m.ch THEN to ELSE session.chan[c].state
      BY <2>1, <2>3
    <3>3. to \in {"Pending", "Active", "Failed", "Closed"}
      OBVIOUS
    <3> HIDE DEF SessionState, ChannelEntry, ObserveControl
    <3> USE <2>1, <3>3
    <3> WITNESS m.ch \in ChannelIds,
                to \in {"Pending", "Active", "Failed", "Closed"}
    <3> QED  BY <3>1, <3>2
  <2>4. \E to \in {"Active", "Failed"} :
            session' = [session EXCEPT !.chan[m.ch].state = to]
    BY <1>3 DEF AfterControl, AfterChannelReady
  <2>5. session'.phase = "Ready"
    BY <2>2, <2>4
  <2> QED  BY <2>2, <2>3, <2>4, <2>5
<1>4. CASE m.type = "CloseChannel"
  <2>1. m.ch \in ChannelIds
    BY <1>4 DEF ControlMessage, PlainControl
  <2>2. session.phase = "Ready" /\ session.chan[m.ch].state = "Active"
    BY <1>4 DEF AcceptsControl, ReadyRequired, AcceptsCloseChannel
  <2>3. session' = [session EXCEPT !.chan[m.ch].state = "Closed"]
    BY <1>4 DEF AfterControl, AfterCloseChannel
  <2>4. <<session.chan[m.ch].state, "Closed">> \in Lifecycle!Edge
    BY <2>2 DEF Lifecycle!Edge
  <2>5. \A c \in ChannelIds : session'.chan[c].state =
           IF c = m.ch THEN "Closed" ELSE session.chan[c].state
    BY <2>1, <2>3
  <2>6. session'.phase = "Ready"
    BY <2>2, <2>3
  <2> QED  BY <2>1, <2>2, <2>4, <2>5, <2>6
<1>5. CASE m.type \notin {"Error", "OpenChannel", "ChannelReady",
                          "CloseChannel"}
  BY <1>5 DEF AfterControl, AfterGraph
<1> QED  BY <1>1, <1>2, <1>3, <1>4, <1>5

(***************************************************************************)
(* The message-level session machine implements SessionLifecycle, whatever *)
(* the peers send: every accepted message is one rung of the ladder, one   *)
(* edge of one channel, or a stutter.                                      *)
(***************************************************************************)
THEOREM SessionRefinement == Spec => ImplementsLifecycle
<1>1. Init => Lifecycle!Init
  BY DEF Init, Lifecycle!Init, NewSession, UnusedEntry
<1>2. IInv /\ [Next]_vars => [Lifecycle!Next]_(Lifecycle!vars)
  <2> SUFFICES ASSUME IInv, [Next]_vars
               PROVE  [Lifecycle!Next]_(Lifecycle!vars)
    OBVIOUS
  <2>0. session \in SessionState
    BY DEF IInv, TypeOK
  <2>1. ASSUME NEW sender \in Role, NEW m \in BootstrapRecord,
               ObserveBootstrap(m, sender)
        PROVE  Lifecycle!Climb
    <3>1. States' = States
      BY <2>0, <2>1 DEF ObserveBootstrap, AfterBootstrap, SessionState, States
    <3>2. <<session.phase, session'.phase>> \in Lifecycle!Rung
      BY <2>0, <2>1 DEF ObserveBootstrap, AcceptsBootstrap, AfterBootstrap,
                        SessionState, BootstrapRecord, Lifecycle!Rung
    <3> QED  BY <3>1, <3>2 DEF Lifecycle!Climb, States
  <2>2. ASSUME NEW sender \in Role, NEW m \in ControlMessage,
               ObserveControl(m, sender)
        PROVE  [Lifecycle!Next]_(Lifecycle!vars)
    <3>1. AcceptsControl(session, m, sender)
          /\ session' = AfterControl(session, m)
      BY <2>2 DEF ObserveControl
    <3>2. CASE \A c \in ChannelIds :
                  session'.chan[c].state = session.chan[c].state
      <4>1. States' = States
        BY <3>2 DEF States
      <4>2. session'.phase = session.phase
            \/ <<session.phase, session'.phase>> \in Lifecycle!Rung
        <5>1. CASE m.type = "Authenticate"
          BY <2>0, <3>1, <5>1, ControlPhase DEF Lifecycle!Rung
        <5>2. CASE m.type = "SessionReady"
          BY <2>0, <3>1, <5>2, ControlPhase DEF Lifecycle!Rung
        <5>3. CASE m.type \notin {"Authenticate", "SessionReady"}
          BY <2>0, <3>1, <5>3, ControlPhase DEF Lifecycle!Rung
        <5> QED  BY <5>1, <5>2, <5>3
      <4> QED
        BY <4>1, <4>2 DEF Lifecycle!Next, Lifecycle!Climb, Lifecycle!vars,
                          States
    <3>3. CASE /\ session.phase = "Ready"
               /\ session'.phase = "Ready"
               /\ \E ch \in ChannelIds,
                     to \in {"Pending", "Active", "Failed", "Closed"} :
                     /\ <<session.chan[ch].state, to>> \in Lifecycle!Edge
                     /\ \A c \in ChannelIds : session'.chan[c].state =
                           IF c = ch THEN to ELSE session.chan[c].state
      <4>1. PICK ch \in ChannelIds,
                 to \in {"Pending", "Active", "Failed", "Closed"} :
                    /\ <<session.chan[ch].state, to>> \in Lifecycle!Edge
                    /\ \A c \in ChannelIds : session'.chan[c].state =
                          IF c = ch THEN to ELSE session.chan[c].state
        BY <3>3
      <4>2. States' = [States EXCEPT ![ch] = to]
        BY <2>0, <4>1, OneChannelMoves
      <4>3. States[ch] = session.chan[ch].state
        BY DEF States
      <4>4. Lifecycle!MoveChannel(ch)
        BY <3>3, <4>1, <4>2, <4>3 DEF Lifecycle!MoveChannel, States
      <4> QED  BY <4>4 DEF Lifecycle!Next
    <3> QED  BY <2>0, <2>2, <3>2, <3>3, ControlEdge
  <2>3. CASE UNCHANGED vars
    BY <2>3 DEF vars, Lifecycle!vars
  <2> QED  BY <2>1, <2>2, <2>3 DEF Next, Lifecycle!Next
<1>3. Spec => []IInv
  BY InitIInv, StepIInv, PTL DEF Spec
<1> QED  BY <1>1, <1>2, <1>3, PTL DEF Spec, ImplementsLifecycle, Lifecycle!Spec

=============================================================================
