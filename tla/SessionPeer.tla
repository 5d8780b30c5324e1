---------------------------- MODULE SessionPeer -----------------------------
(***************************************************************************)
(* One peer's Session object driven by every message either side could     *)
(* send, in any order: what the ingest and record_send methods let         *)
(* through.  A message the machine refuses changes nothing, so only        *)
(* accepted messages are steps.  The history variables record what was     *)
(* accepted.                                                               *)
(***************************************************************************)
EXTENDS R2wpSession, Sequences

VARIABLES
    session,    \* the Session object
    ladder,     \* history: accepted entry messages, as <<type, sender>>
    opens       \* history: [ChannelIds -> number of accepted OpenChannels]

vars == <<session, ladder, opens>>

Init ==
    /\ session = NewSession
    /\ ladder = <<>>
    /\ opens = [c \in ChannelIds |-> 0]

ObserveBootstrap(m, sender) ==
    /\ AcceptsBootstrap(session, m, sender)
    /\ session' = AfterBootstrap(session, m)
    /\ ladder' = Append(ladder, <<m.type, sender>>)
    /\ UNCHANGED opens

ObserveControl(m, sender) ==
    /\ AcceptsControl(session, m, sender)
    /\ session' = AfterControl(session, m)
    /\ ladder' = IF m.type \in {"Authenticate", "SessionReady"}
                 THEN Append(ladder, <<m.type, sender>>)
                 ELSE ladder
    /\ opens' = IF m.type = "OpenChannel"
                THEN [opens EXCEPT ![m.ch] = @ + 1]
                ELSE opens

Next ==
    \E sender \in Role :
        \/ \E m \in BootstrapRecord : ObserveBootstrap(m, sender)
        \/ \E m \in ControlMessage : ObserveControl(m, sender)

Spec == Init /\ [][Next]_vars

-----------------------------------------------------------------------------
EntryType == {"ClientHello", "ServerHello", "BootstrapError", "Authenticate",
              "SessionReady"}

TypeOK ==
    /\ session \in SessionState
    /\ ladder \in Seq(EntryType \X Role)
    /\ opens \in [ChannelIds -> Nat]

(***************************************************************************)
(* A session is Ready only after the four entry messages were accepted, in *)
(* order, once each and each from the peer entitled to it: no client is    *)
(* served on the strength of its own SessionReady, none before it          *)
(* authenticated, and no repeated Authenticate re-enters a live session.   *)
(***************************************************************************)
ReadyIsEarned ==
    session.phase = "Ready" =>
        ladder = << <<"ClientHello", Client>>, <<"ServerHello", Server>>,
                    <<"Authenticate", Client>>, <<"SessionReady", Server>> >>

(***************************************************************************)
(* A channel id is consumed by its first OpenChannel: however the channel  *)
(* ended (denied, failed by an Error, closed), the id is never opened      *)
(* again, so a late frame cannot reach a different channel.                *)
(***************************************************************************)
ChannelIdUsedOnce ==
    \A c \in ChannelIds :
        /\ opens[c] <= 1
        /\ session.chan[c].state # "Unused" <=> opens[c] = 1

(***************************************************************************)
(* The message-level machine implements the lifecycle of                   *)
(* SessionLifecycle.                                                       *)
(***************************************************************************)
Lifecycle ==
    INSTANCE SessionLifecycle WITH
        Ids <- ChannelIds,
        phase <- session.phase,
        state <- [c \in ChannelIds |-> session.chan[c].state]

ImplementsLifecycle == Lifecycle!Spec
=============================================================================
