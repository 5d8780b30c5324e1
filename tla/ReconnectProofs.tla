-------------------------- MODULE ReconnectProofs ---------------------------
(***************************************************************************)
(* Proofs about Reconnect, for any set of channels, any number of          *)
(* overlapping reconnect() calls and any number of attempts.               *)
(*                                                                         *)
(* OpenedOncePerConnection needs to know where the ids that are still to   *)
(* be opened are: in the todo set of one call only, unopened, and in none  *)
(* before SessionReady.  QuietlyRestored needs, as long as no reconnect    *)
(* was cut short, that at most one call is in progress and that every held *)
(* channel is tracked, to be reopened, or being reopened.                  *)
(***************************************************************************)
EXTENDS Reconnect, FiniteSetTheorems, TLAPS

\* The part of TypeOK the proofs use.
Types ==
    /\ connection \in Nat
    /\ call \in [Calls -> [pc : {"idle", "await", "reopen"}, auto : BOOLEAN,
                           todo : SUBSET Channels,
                           opening : Channels \cup {0}]]
    /\ opened \in [Channels -> Nat]
    /\ channels \subseteq Channels

\* Only a call that reopens has channels to open.
OnlyReopenersOpen ==
    \A p \in Calls : call[p].pc # "reopen" => /\ call[p].todo = {}
                                              /\ call[p].opening = 0

\* Before SessionReady nothing is opened and nobody reopens.
NothingBeforeReady ==
    ~sessionReady => /\ \A p \in Calls : call[p].pc # "reopen"
                     /\ \A c \in Channels : opened[c] = 0

\* What a call is still to open is not open, and is that call's alone.
TodoUnopened ==
    \A p \in Calls : \A c \in call[p].todo :
        /\ opened[c] = 0
        /\ \A q \in Calls : c \in call[q].todo => q = p

OpenInv ==
    /\ Types
    /\ OnlyReopenersOpen
    /\ NothingBeforeReady
    /\ TodoUnopened
    /\ OpenedOncePerConnection

\* The calls in progress: one, or none.
InProgress == {p \in Calls : call[p].pc # "idle"}

\* What the client knows of the held channels, when reconnects are left alone.
Quiet ==
    /\ \A p, q \in InProgress : p = q
    /\ \A p \in Calls : call[p].pc = "await" => waiters = <<p>>
    /\ (\A p \in Calls : call[p].pc # "await") => waiters = <<>>
    /\ Idle /\ ~sessionReady => held = {}
    /\ \A c \in held :
          \/ c \in channels /\ (opened[c] = 1 \/ ~sessionReady)
          \/ \E p \in Calls : c \in call[p].todo
          \/ \E p \in Calls : c = call[p].opening /\ opened[c] = 1

QuietInv == OpenInv /\ held \subseteq Channels /\ (~disturbed => Quiet)

-----------------------------------------------------------------------------
LEMMA ChannelsArePositive == \A c \in Channels : c \in Nat \ {0}
<1>1. Cardinality(Channels) \in Nat
  BY ReconnectAssumption, FS_CardinalityType
<1> QED  BY <1>1, ReconnectAssumption

-----------------------------------------------------------------------------
(* What the steps do to the calls, call by call. *)

LEMMA ReopenNextCalls ==
    ASSUME Types, NEW p \in Calls, NEW c \in Channels, ReopenNext(p, c)
    PROVE  /\ call' \in [Calls -> [pc : {"idle", "await", "reopen"},
                                   auto : BOOLEAN, todo : SUBSET Channels,
                                   opening : Channels \cup {0}]]
           /\ call'[p].pc = call[p].pc
           /\ call'[p].todo = call[p].todo \ {c}
           /\ call'[p].opening = c
           /\ \A q \in Calls \ {p} : call'[q] = call[q]
BY DEF Types, ReopenNext, Runnable

LEMMA ReopenedCalls ==
    ASSUME Types, NEW p \in Calls, Reopened(p)
    PROVE  /\ call' \in [Calls -> [pc : {"idle", "await", "reopen"},
                                   auto : BOOLEAN, todo : SUBSET Channels,
                                   opening : Channels \cup {0}]]
           /\ call'[p].pc = call[p].pc
           /\ call'[p].todo = call[p].todo
           /\ call'[p].opening = 0
           /\ \A q \in Calls \ {p} : call'[q] = call[q]
BY DEF Types, Reopened

LEMMA StartReconnectCalls ==
    ASSUME NEW calls \in [Calls -> [pc : {"idle", "await", "reopen"},
                                   auto : BOOLEAN, todo : SUBSET Channels,
                                   opening : Channels \cup {0}]],
           NEW p \in Calls, NEW auto \in BOOLEAN, StartReconnect(p, auto, calls)
    PROVE  /\ call' \in [Calls -> [pc : {"idle", "await", "reopen"},
                                   auto : BOOLEAN, todo : SUBSET Channels,
                                   opening : Channels \cup {0}]]
           /\ call'[p].pc = "await" /\ call'[p].todo = {} /\ call'[p].opening = 0
           /\ \A q \in Calls \ {p} :
                 call'[q] = IF calls[q].opening # 0 THEN IdleCall ELSE calls[q]
BY DEF StartReconnect, Awaiting, Thrown, IdleCall

LEMMA SessionReadyCalls ==
    ASSUME Types, SessionReady
    PROVE  /\ call' \in [Calls -> [pc : {"idle", "await", "reopen"},
                                   auto : BOOLEAN, todo : SUBSET Channels,
                                   opening : Channels \cup {0}]]
           /\ \A p \in Calls :
                 IF \E i \in DOMAIN waiters : waiters[i] = p
                 THEN /\ call'[p].pc = "reopen"
                      /\ call'[p].todo = Snapshot(p)
                      /\ call'[p].opening = call[p].opening
                 ELSE call'[p] = call[p]
<1>1. call \in [Calls -> [pc : {"idle", "await", "reopen"}, auto : BOOLEAN,
                          todo : SUBSET Channels, opening : Channels \cup {0}]]
  BY DEF Types
<1>2. channels \in SUBSET Channels /\ \A p \in Calls : Snapshot(p) \in SUBSET Channels
  BY DEF Types, Snapshot
<1>3. call' = [p \in Calls |->
                 IF \E i \in DOMAIN waiters : waiters[i] = p
                 THEN [call[p] EXCEPT !.pc = "reopen", !.todo = Snapshot(p)]
                 ELSE call[p]]
  BY DEF SessionReady
<1> DEFINE Joins(p) == \E i \in DOMAIN waiters : waiters[i] = p
<1>4. ASSUME NEW p \in Calls, Joins(p)
      PROVE  /\ call'[p] \in [pc : {"idle", "await", "reopen"}, auto : BOOLEAN,
                              todo : SUBSET Channels, opening : Channels \cup {0}]
             /\ call'[p].pc = "reopen" /\ call'[p].todo = Snapshot(p)
             /\ call'[p].opening = call[p].opening
  <2>1. call'[p] = [call[p] EXCEPT !.pc = "reopen", !.todo = Snapshot(p)]
    BY <1>3, <1>4, Zenon
  <2>2. call[p] \in [pc : {"idle", "await", "reopen"}, auto : BOOLEAN,
                     todo : SUBSET Channels, opening : Channels \cup {0}]
    BY <1>1
  <2>3. Snapshot(p) \in SUBSET Channels
    BY <1>2
  <2> QED  BY <2>1, <2>2, <2>3
<1>5. ASSUME NEW p \in Calls, ~Joins(p) PROVE call'[p] = call[p]
  BY <1>3, <1>5
<1>6. call' = [p \in Calls |-> call'[p]]
  BY <1>3
<1> QED  BY <1>1, <1>4, <1>5, <1>6, ZenonT(30)

\* When nothing runs, the calls a new reconnect() does not throw do not reopen.
LEMMA RestartStopsReopening ==
    ASSUME Types, OnlyReopenersOpen, Settled,
           NEW ps \in SUBSET Calls, NEW p \in Calls, NEW auto \in BOOLEAN,
           StartReconnect(p, auto, Thrown(call, ps)), channels' = channels
    PROVE  /\ Types'
           /\ \A q \in Calls : /\ call'[q].pc # "reopen"
                               /\ call'[q].todo = {}
                               /\ call'[q].opening = 0
           /\ \A c \in Channels : opened'[c] = 0
           /\ sessionReady' = FALSE
<1> DEFINE calls == Thrown(call, ps)
<1>1. calls \in [Calls -> [pc : {"idle", "await", "reopen"}, auto : BOOLEAN,
                           todo : SUBSET Channels, opening : Channels \cup {0}]]
  BY DEF Types, Thrown, IdleCall
<1>2. \A q \in Calls : calls[q].pc = "reopen" => calls[q].opening # 0
  BY DEF Types, Thrown, IdleCall, Settled, Runnable
<1>3. \A q \in Calls : calls[q].pc # "reopen" => /\ calls[q].todo = {}
                                                 /\ calls[q].opening = 0
  BY DEF Types, Thrown, IdleCall, OnlyReopenersOpen
<1>4. StartReconnect(p, auto, calls)
  OBVIOUS
<1> HIDE DEF calls
<1>5. /\ call' \in [Calls -> [pc : {"idle", "await", "reopen"},
                              auto : BOOLEAN, todo : SUBSET Channels,
                              opening : Channels \cup {0}]]
      /\ call'[p].pc = "await" /\ call'[p].todo = {} /\ call'[p].opening = 0
      /\ \A q \in Calls \ {p} :
            call'[q] = IF calls[q].opening # 0 THEN IdleCall ELSE calls[q]
  BY <1>1, <1>4, StartReconnectCalls
<1>6. \A q \in Calls : /\ call'[q].pc # "reopen"
                       /\ call'[q].todo = {}
                       /\ call'[q].opening = 0
  BY <1>2, <1>3, <1>5 DEF IdleCall
<1>7. /\ connection' = connection + 1 /\ sessionReady' = FALSE
      /\ opened' = [c \in Channels |-> 0]
  BY <1>4 DEF StartReconnect
<1> QED  BY <1>5, <1>6, <1>7 DEF Types

-----------------------------------------------------------------------------
(* One channel, one open per connection. *)

LEMMA OpenInvInitially == Init => OpenInv
BY DEF Init, OpenInv, Types, OnlyReopenersOpen, NothingBeforeReady,
       TodoUnopened, OpenedOncePerConnection, IdleCall

\* A step that changes neither the calls nor what is opened.
LEMMA OpenInvUntouched ==
    ASSUME OpenInv, connection' \in Nat, channels' \subseteq Channels,
           UNCHANGED <<call, opened, sessionReady>>
    PROVE  OpenInv'
BY DEF OpenInv, Types, OnlyReopenersOpen, NothingBeforeReady, TodoUnopened,
       OpenedOncePerConnection

LEMMA RestartKeepsOpenInv ==
    ASSUME OpenInv, Settled, channels' = channels,
           NEW ps \in SUBSET Calls, NEW p \in Calls, NEW auto \in BOOLEAN,
           StartReconnect(p, auto, Thrown(call, ps))
    PROVE  OpenInv'
<1>1. /\ Types'
      /\ \A q \in Calls : /\ call'[q].pc # "reopen"
                          /\ call'[q].todo = {}
                          /\ call'[q].opening = 0
      /\ \A c \in Channels : opened'[c] = 0
      /\ sessionReady' = FALSE
  BY RestartStopsReopening DEF OpenInv
<1> QED  BY <1>1 DEF OpenInv, OnlyReopenersOpen, NothingBeforeReady,
                     TodoUnopened, OpenedOncePerConnection

\* Calls are thrown, and nothing else changes.
LEMMA ThrownKeepsOpenInv ==
    ASSUME OpenInv, NEW ps \in SUBSET Calls, call' = Thrown(call, ps),
           channels' = channels, UNCHANGED <<connection, opened, sessionReady>>
    PROVE  OpenInv'
<1>1. /\ Types'
      /\ \A q \in Calls :
            \/ call'[q] = call[q]
            \/ /\ call'[q].pc = "idle" /\ call'[q].todo = {}
               /\ call'[q].opening = 0
  BY DEF OpenInv, Types, Thrown, IdleCall
<1> QED  BY <1>1 DEF OpenInv, OnlyReopenersOpen, NothingBeforeReady,
                     TodoUnopened, OpenedOncePerConnection

LEMMA SessionReadyKeepsOpenInv ==
    ASSUME OpenInv, SessionReady PROVE OpenInv'
<1>1. /\ \A p \in Calls : call[p].pc # "reopen" /\ call[p].opening = 0
                          /\ call[p].todo = {}
      /\ \A c \in Channels : opened[c] = 0
  BY DEF OpenInv, SessionReady, NothingBeforeReady, OnlyReopenersOpen
<1>2. /\ Types' /\ sessionReady' = TRUE /\ opened' = opened
      /\ \A p \in Calls :
            IF \E i \in DOMAIN waiters : waiters[i] = p
            THEN /\ call'[p].pc = "reopen"
                 /\ call'[p].todo = Snapshot(p)
                 /\ call'[p].opening = call[p].opening
            ELSE call'[p] = call[p]
  <2>1. channels' \subseteq Channels
    BY DEF OpenInv, Types, SessionReady
  <2>2. UNCHANGED <<connection, opened>> /\ sessionReady' = TRUE
    BY DEF SessionReady, netVars
  <2> QED  BY <2>1, <2>2, SessionReadyCalls DEF OpenInv, Types
<1>3. \A p, q \in Calls : \A c : c \in Snapshot(p) /\ c \in Snapshot(q) => p = q
  BY DEF Snapshot
<1>4. \A p \in Calls : Snapshot(p) \subseteq Channels
  BY DEF Snapshot, OpenInv, Types
<1>5. OnlyReopenersOpen' /\ NothingBeforeReady'
  BY <1>1, <1>2 DEF OnlyReopenersOpen, NothingBeforeReady
<1>6. \A p \in Calls : \A c \in call'[p].todo : c \in Snapshot(p)
  BY <1>1, <1>2
<1>7. TodoUnopened'
  BY <1>1, <1>2, <1>3, <1>4, <1>6 DEF TodoUnopened
<1> QED  BY <1>2, <1>5, <1>7 DEF OpenInv, OpenedOncePerConnection

LEMMA ReopenNextKeepsOpenInv ==
    ASSUME OpenInv, NEW p \in Calls, NEW c \in Channels, ReopenNext(p, c)
    PROVE  OpenInv'
<1>1. /\ call' \in [Calls -> [pc : {"idle", "await", "reopen"},
                              auto : BOOLEAN, todo : SUBSET Channels,
                              opening : Channels \cup {0}]]
      /\ call'[p].pc = call[p].pc
      /\ call'[p].todo = call[p].todo \ {c}
      /\ call'[p].opening = c
      /\ \A q \in Calls \ {p} : call'[q] = call[q]
  BY ReopenNextCalls DEF OpenInv
<1>2. /\ opened' = [opened EXCEPT ![c] = opened[c] + 1]
      /\ UNCHANGED <<connection, sessionReady, channels>>
      /\ call[p].pc = "reopen" /\ c \in call[p].todo
  BY DEF ReopenNext, Runnable, netVars
<1>3. Types' /\ OnlyReopenersOpen' /\ NothingBeforeReady'
  BY <1>1, <1>2 DEF OpenInv, Types, OnlyReopenersOpen, NothingBeforeReady
<1>4. \A q \in Calls : \A d \in call'[q].todo : d # c /\ d \in call[q].todo
  BY <1>1, <1>2 DEF OpenInv, TodoUnopened
<1>5. TodoUnopened'
  BY <1>2, <1>4 DEF OpenInv, Types, TodoUnopened
<1>6. OpenedOncePerConnection'
  BY <1>2 DEF OpenInv, Types, TodoUnopened, OpenedOncePerConnection
<1> QED  BY <1>3, <1>5, <1>6 DEF OpenInv

LEMMA ReopenedKeepsOpenInv ==
    ASSUME OpenInv, NEW p \in Calls, Reopened(p)
    PROVE  OpenInv'
<1>1. /\ call' \in [Calls -> [pc : {"idle", "await", "reopen"},
                              auto : BOOLEAN, todo : SUBSET Channels,
                              opening : Channels \cup {0}]]
      /\ call'[p].pc = call[p].pc
      /\ call'[p].todo = call[p].todo
      /\ call'[p].opening = 0
      /\ \A q \in Calls \ {p} : call'[q] = call[q]
  BY ReopenedCalls DEF OpenInv
<1>2. /\ UNCHANGED <<connection, opened, sessionReady>>
      /\ channels' = channels \cup {call[p].opening}
      /\ call[p].opening # 0
  BY DEF Reopened, Tracked, netVars
<1>3. Types'
  BY <1>1, <1>2 DEF OpenInv, Types
<1> QED
  BY <1>1, <1>2, <1>3 DEF OpenInv, OnlyReopenersOpen, NothingBeforeReady,
                          TodoUnopened, OpenedOncePerConnection

LEMMA AppOpenKeepsOpenInv ==
    ASSUME OpenInv, NEW c \in Channels, AppOpen(c)
    PROVE  OpenInv'
<1>1. /\ \A p \in Calls : call[p].pc = "idle" /\ call[p].todo = {}
      /\ sessionReady
      /\ UNCHANGED <<connection, call, sessionReady>>
      /\ opened' = [opened EXCEPT ![c] = 1]
      /\ channels' = channels \cup {c}
  BY DEF AppOpen, Online, Idle, OpenInv, OnlyReopenersOpen, Tracked, netVars
<1> QED  BY <1>1 DEF OpenInv, Types, OnlyReopenersOpen, NothingBeforeReady,
                     TodoUnopened, OpenedOncePerConnection

LEMMA OpenInvStep == OpenInv /\ [Next]_vars => OpenInv'
<1> SUFFICES ASSUME OpenInv, [Next]_vars PROVE OpenInv'
  OBVIOUS
<1> USE DEF netVars, appVars
<1>1. ASSUME NEW p \in Calls, ManualReconnect(p) PROVE OpenInv'
  <2>1. call = Thrown(call, {})
    BY DEF Thrown, OpenInv, Types
  <2> QED  BY <1>1, <2>1, RestartKeepsOpenInv DEF ManualReconnect
<1>2. ASSUME NEW p \in Calls, NEW c \in Channels, ReopenNext(p, c)
      PROVE  OpenInv'
  BY <1>2, ReopenNextKeepsOpenInv
<1>3. ASSUME NEW p \in Calls, ReopenDone(p) PROVE OpenInv'
  <2>1. call' = Thrown(call, {p})
    BY <1>3 DEF ReopenDone, Thrown, OpenInv, Types
  <2> QED  BY <1>3, <2>1, ThrownKeepsOpenInv DEF ReopenDone
<1>4. ASSUME NEW p \in Calls, Reopened(p) PROVE OpenInv'
  BY <1>4, ReopenedKeepsOpenInv
<1>5. ASSUME NEW p \in Calls, ReopenDenied(p) PROVE OpenInv'
  BY <1>5, ThrownKeepsOpenInv DEF ReopenDenied
<1>6. CASE SessionReady
  BY <1>6, SessionReadyKeepsOpenInv
<1>7. ASSUME NEW error \in BOOLEAN, Disconnects(error) PROVE OpenInv'
  <2> DEFINE thrown == ErrorThrows(error)
  <2>1. thrown \in SUBSET Calls
    BY DEF Awaiting, ErrorThrows
  <2>2. \/ /\ call' = Thrown(call, thrown)
           /\ UNCHANGED <<connection, opened, sessionReady>>
        \/ \E p \in Calls : StartReconnect(p, TRUE, Thrown(call, thrown))
    BY <1>7 DEF Disconnects
  <2>3. Settled /\ channels' = channels
    BY <1>7 DEF Disconnects
  <2> HIDE DEF thrown
  <2> QED  BY <2>1, <2>2, <2>3, RestartKeepsOpenInv, ThrownKeepsOpenInv
<1>8. ASSUME NEW c \in Channels, AppOpen(c) PROVE OpenInv'
  BY <1>8, AppOpenKeepsOpenInv
<1>9. CASE \/ Connects \/ AppCall \/ CallAnswered \/ AppClose
           \/ \E c \in Channels : AppUnsubscribe(c)
  <2>1. UNCHANGED <<connection, call, opened, sessionReady>>
    BY <1>9 DEF Connects, AppCall, CallAnswered, AppClose, AppUnsubscribe, vars
  <2>2. channels' \subseteq channels
    BY <1>9 DEF Connects, AppCall, CallAnswered, AppClose, AppUnsubscribe, vars
  <2> QED  BY <2>1, <2>2, OpenInvUntouched DEF OpenInv, Types
<1>10. CASE UNCHANGED vars
  BY <1>10, OpenInvUntouched DEF OpenInv, Types, vars
<1>11. ASSUME NEW error \in BOOLEAN, NEW end \in {"stalled", "failed"},
              FailsUnreported(error, end)
       PROVE  OpenInv'
  <2>1. ErrorThrows(error) \in SUBSET Calls
    BY DEF Awaiting, ErrorThrows
  <2> QED  BY <1>11, <2>1, ThrownKeepsOpenInv DEF FailsUnreported
<1> QED
  BY <1>1, <1>2, <1>3, <1>4, <1>5, <1>6, <1>7, <1>8, <1>9, <1>10, <1>11 DEF Next

(***************************************************************************)
(* Whatever reconnects overlap and fail, reopenTrackedChannels and the     *)
(* application together open a channel id at most once on a connection.    *)
(***************************************************************************)
THEOREM ReopensOnce == Spec => []OpenedOncePerConnection
<1>1. OpenInv => OpenedOncePerConnection
  BY DEF OpenInv
<1> QED  BY OpenInvInitially, OpenInvStep, <1>1, PTL DEF Spec

(***************************************************************************)
(* Every connection that is replaced first rejects what is pending on it,  *)
(* so no promise of an earlier session can be settled by a later one.      *)
(***************************************************************************)
THEOREM InflightCurrent == Spec => []InflightIsCurrent
<1>1. Init => InflightIsCurrent
  BY DEF Init, InflightIsCurrent
<1>2. InflightIsCurrent /\ [Next]_vars => InflightIsCurrent'
  <2> SUFFICES ASSUME InflightIsCurrent, [Next]_vars
               PROVE  InflightIsCurrent'
    OBVIOUS
  <2> USE DEF InflightIsCurrent, netVars
  <2>1. ASSUME NEW p \in Calls, NEW auto, NEW calls, StartReconnect(p, auto, calls)
        PROVE  InflightIsCurrent'
    BY <2>1 DEF StartReconnect, RejectInflight
  <2>2. ASSUME NEW p \in Calls, ManualReconnect(p) PROVE InflightIsCurrent'
    BY <2>1, <2>2 DEF ManualReconnect
  <2>3. ASSUME NEW error \in BOOLEAN, Disconnects(error)
        PROVE  InflightIsCurrent'
    <3>1. \/ UNCHANGED <<inflight, connection>>
          \/ \E p \in Calls, calls \in {Thrown(call, ErrorThrows(error))} :
                StartReconnect(p, TRUE, calls)
      BY <2>3 DEF Disconnects
    <3> QED  BY <2>1, <3>1
  <2>4. CASE AppCall
    BY <2>4 DEF AppCall
  <2>5. CASE CallAnswered
    BY <2>5 DEF CallAnswered
  <2>6. ASSUME NEW p \in Calls,
               \/ \E c \in Channels : ReopenNext(p, c)
               \/ ReopenDone(p) \/ Reopened(p) \/ ReopenDenied(p)
        PROVE  InflightIsCurrent'
    BY <2>6 DEF ReopenNext, ReopenDone, Reopened, ReopenDenied
  <2>7. CASE \/ SessionReady \/ Connects \/ AppClose \/ UNCHANGED vars
             \/ \E c \in Channels : AppOpen(c) \/ AppUnsubscribe(c)
    BY <2>7 DEF SessionReady, Connects, AppClose, vars, AppOpen, AppUnsubscribe
  <2>8. ASSUME NEW error \in BOOLEAN, NEW end \in {"stalled", "failed"},
               FailsUnreported(error, end)
        PROVE  InflightIsCurrent'
    BY <2>8 DEF FailsUnreported
  <2> QED  BY <2>2, <2>3, <2>4, <2>5, <2>6, <2>7, <2>8 DEF Next
<1> QED  BY <1>1, <1>2, PTL DEF Spec

-----------------------------------------------------------------------------
(* Reconnects that are left alone bring every channel back. *)

LEMMA QuietInitially == Init => QuietInv
BY OpenInvInitially DEF Init, QuietInv, Quiet, InProgress, IdleCall

\* A reconnect() that starts while no call is in progress.
LEMMA RestartKeepsQuiet ==
    ASSUME QuietInv, Quiet, Idle, Settled, channels' = channels, held' = held,
           NEW ps \in SUBSET Calls, NEW p \in Calls, NEW auto \in BOOLEAN,
           StartReconnect(p, auto, Thrown(call, ps))
    PROVE  Quiet'
<1>1. /\ \A q \in Calls : /\ call'[q].pc # "reopen"
                          /\ call'[q].todo = {}
                          /\ call'[q].opening = 0
      /\ sessionReady' = FALSE
  BY RestartStopsReopening DEF QuietInv, OpenInv
<1> DEFINE calls == Thrown(call, ps)
<1>2. calls \in [Calls -> [pc : {"idle", "await", "reopen"}, auto : BOOLEAN,
                           todo : SUBSET Channels, opening : Channels \cup {0}]]
  BY DEF QuietInv, OpenInv, Types, Thrown, IdleCall
<1>3. \A q \in Calls : calls[q].pc = "idle"
  BY DEF Idle, Thrown, IdleCall
<1>4. StartReconnect(p, auto, calls)
  OBVIOUS
<1> HIDE DEF calls
<1>5. /\ call'[p].pc = "await"
      /\ \A q \in Calls \ {p} : call'[q].pc = "idle"
  BY <1>2, <1>3, <1>4, StartReconnectCalls DEF IdleCall
<1>6. waiters = <<>> /\ waiters' = Append(waiters, p)
  BY <1>4 DEF StartReconnect, Quiet, Idle
<1>7. waiters' = <<p>>
  BY <1>6
<1>8. \A c \in held : c \in channels
  BY ChannelsArePositive DEF Quiet, QuietInv, OpenInv, OnlyReopenersOpen, Idle
<1> QED  BY <1>1, <1>5, <1>7, <1>8 DEF Quiet, InProgress, Idle

LEMMA SessionReadyKeepsQuiet ==
    ASSUME QuietInv, Quiet, SessionReady PROVE Quiet'
<1>1. /\ \A p \in Calls : call[p].pc # "reopen" /\ call[p].opening = 0
                          /\ call[p].todo = {}
  BY DEF QuietInv, OpenInv, SessionReady, NothingBeforeReady, OnlyReopenersOpen
<1>2. \A c \in held : c \in channels
  BY <1>1, ChannelsArePositive DEF Quiet, QuietInv
<1>3. /\ sessionReady' = TRUE /\ held' = held /\ waiters' = <<>>
      /\ channels' = IF waiters = <<>> THEN channels ELSE {}
  BY DEF SessionReady, appVars
<1>4. \A p \in Calls :
            IF \E i \in DOMAIN waiters : waiters[i] = p
            THEN /\ call'[p].pc = "reopen"
                 /\ call'[p].todo = Snapshot(p)
                 /\ call'[p].opening = call[p].opening
            ELSE call'[p] = call[p]
  BY SessionReadyCalls DEF QuietInv, OpenInv
<1>5. CASE \E p \in Calls : call[p].pc = "await"
  <2> PICK p \in Calls : call[p].pc = "await"
    BY <1>5
  <2>1. waiters = <<p>> /\ \A q \in Calls \ {p} : call[q].pc = "idle"
    BY DEF Quiet, InProgress, QuietInv, OpenInv, Types
  <2>2. waiters # <<>> /\ waiters[1] = p /\ DOMAIN waiters = {1}
    BY <2>1
  <2>3. call'[p].pc = "reopen" /\ call'[p].todo = channels
    BY <1>4, <2>2 DEF Snapshot
  <2>4. \A q \in Calls \ {p} : call'[q] = call[q]
    BY <1>4, <2>2
  <2> QED  BY <1>2, <1>3, <2>1, <2>3, <2>4 DEF Quiet, InProgress, Idle
<1>6. CASE \A p \in Calls : call[p].pc # "await"
  <2>1. waiters = <<>>
    BY <1>6 DEF Quiet
  <2>2. \A p \in Calls : call'[p] = call[p]
    BY <1>4, <2>1
  <2>3. Idle
    BY <1>1, <1>6 DEF QuietInv, OpenInv, Types, Idle
  <2>4. held' = {}
    BY <1>3, <2>3 DEF Quiet, SessionReady
  <2> QED  BY <1>1, <1>3, <1>6, <2>2, <2>3, <2>4 DEF Quiet, InProgress, Idle
<1> QED  BY <1>5, <1>6

LEMMA ReopenNextKeepsQuiet ==
    ASSUME QuietInv, Quiet, NEW p \in Calls, NEW c \in Channels, ReopenNext(p, c)
    PROVE  Quiet'
<1>1. /\ call'[p].pc = call[p].pc
      /\ call'[p].todo = call[p].todo \ {c}
      /\ call'[p].opening = c
      /\ \A q \in Calls \ {p} : call'[q] = call[q]
  BY ReopenNextCalls DEF QuietInv, OpenInv
<1>2. /\ opened' = [opened EXCEPT ![c] = opened[c] + 1]
      /\ UNCHANGED <<sessionReady, channels, held, waiters>>
      /\ call[p].pc = "reopen" /\ c \in call[p].todo /\ call[p].opening = 0
  BY DEF ReopenNext, Runnable, netVars, appVars
<1>3. opened[c] = 0 /\ opened'[c] = 1
  BY <1>2 DEF QuietInv, OpenInv, Types, TodoUnopened
<1>4. \A d \in Channels \ {c} : opened'[d] = opened[d]
  BY <1>2 DEF QuietInv, OpenInv, Types
<1>5. \A q \in Calls : call'[q].pc = call[q].pc
  BY <1>1
<1>6. ASSUME NEW d \in held'
      PROVE  \/ d \in channels' /\ (opened'[d] = 1 \/ ~sessionReady')
             \/ \E q \in Calls : d \in call'[q].todo
             \/ \E q \in Calls : d = call'[q].opening /\ opened'[d] = 1
  <2>1. CASE d = c
    BY <1>1, <1>3, <2>1
  <2>2. CASE d # c
    <3>1. d \in Channels /\ d # 0 /\ opened'[d] = opened[d]
      BY <1>2, <1>4, <1>6, <2>2, ChannelsArePositive DEF QuietInv
    <3>2. \A q \in Calls : d \in call[q].todo => d \in call'[q].todo
      BY <1>1, <2>2
    <3>3. \A q \in Calls : d = call[q].opening => d = call'[q].opening
      BY <1>1, <1>2, <3>1
    <3> QED  BY <1>2, <1>6, <3>1, <3>2, <3>3 DEF Quiet
  <2> QED  BY <2>1, <2>2
<1>7. \A q, r \in InProgress' : q = r
  BY <1>5 DEF Quiet, InProgress
<1>8. ~Idle'
  BY <1>1, <1>2 DEF Idle
<1> QED  BY <1>2, <1>5, <1>6, <1>7, <1>8 DEF Quiet

\* An answered reopen is tracked.
LEMMA ReopenedKeepsQuiet ==
    ASSUME QuietInv, Quiet, NEW p \in Calls, Reopened(p)
    PROVE  Quiet'
<1>1. /\ call'[p].pc = call[p].pc
      /\ call'[p].todo = call[p].todo
      /\ call'[p].opening = 0
      /\ \A q \in Calls \ {p} : call'[q] = call[q]
  BY ReopenedCalls DEF QuietInv, OpenInv
<1>2. /\ UNCHANGED <<opened, sessionReady, held, waiters>>
      /\ channels' = channels \cup {call[p].opening}
      /\ call[p].opening # 0
  BY DEF Reopened, Tracked, netVars, appVars
<1>3. \A q \in Calls : call'[q].pc = call[q].pc
  BY <1>1
<1>4. ASSUME NEW d \in held'
      PROVE  \/ d \in channels' /\ (opened'[d] = 1 \/ ~sessionReady')
             \/ \E q \in Calls : d \in call'[q].todo
             \/ \E q \in Calls : d = call'[q].opening /\ opened'[d] = 1
  <2>1. \A q \in Calls : d \in call[q].todo => d \in call'[q].todo
    BY <1>1
  <2>2. \A q \in Calls : d = call[q].opening =>
                            d = call'[q].opening \/ d \in channels'
    BY <1>1, <1>2
  <2> QED  BY <1>2, <1>4, <2>1, <2>2 DEF Quiet
<1>5. \A q, r \in InProgress' : q = r
  BY <1>3 DEF Quiet, InProgress
<1>6. Idle' /\ ~sessionReady' => held' = {}
  BY <1>2, <1>3 DEF Quiet, Idle
<1> QED  BY <1>2, <1>3, <1>4, <1>5, <1>6 DEF Quiet

LEMMA ReopenDoneKeepsQuiet ==
    ASSUME QuietInv, Quiet, NEW p \in Calls, ReopenDone(p)
    PROVE  Quiet'
<1>1. /\ call'[p] = IdleCall
      /\ \A q \in Calls \ {p} : call'[q] = call[q]
      /\ UNCHANGED <<opened, sessionReady, held, waiters, channels>>
      /\ call[p].pc = "reopen" /\ call[p].todo = {} /\ call[p].opening = 0
  BY DEF ReopenDone, Runnable, netVars, appVars, QuietInv, OpenInv, Types
<1>2. sessionReady
  BY <1>1 DEF QuietInv, OpenInv, NothingBeforeReady
<1>3. \A d \in held : d # 0
  BY ChannelsArePositive DEF QuietInv
<1>4. \A q \in Calls : call'[q].pc = call[q].pc \/ call'[q].pc = "idle"
  BY <1>1 DEF IdleCall
<1>5. \A q \in Calls : call[q].pc = "await" => call'[q].pc = "await"
  BY <1>1
<1> QED  BY <1>1, <1>2, <1>3, <1>4, <1>5 DEF Quiet, InProgress, IdleCall, Idle

\* The connection goes while no call is in progress, or stays.
LEMMA OthersKeepQuiet ==
    ASSUME QuietInv, Quiet, UNCHANGED <<call, opened, sessionReady, waiters>>,
           \A c \in held' : c \in held /\ (c \in channels => c \in channels')
    PROVE  Quiet'
BY DEF Quiet, InProgress, Idle

LEMMA AppOpenKeepsQuiet ==
    ASSUME QuietInv, Quiet, NEW c \in Channels, AppOpen(c)
    PROVE  Quiet'
<1>1. /\ Idle /\ sessionReady
      /\ UNCHANGED <<call, sessionReady, waiters>>
      /\ opened' = [opened EXCEPT ![c] = 1]
      /\ channels' = channels \cup {c} /\ held' = held \cup {c}
  BY DEF AppOpen, Online, Tracked
<1>2. \A d \in Channels : opened'[d] = IF d = c THEN 1 ELSE opened[d]
  BY <1>1 DEF QuietInv, OpenInv, Types
<1> QED  BY <1>1, <1>2 DEF Quiet, InProgress, Idle, QuietInv

LEMMA QuietStep == QuietInv /\ [Next]_vars => QuietInv'
<1> SUFFICES ASSUME QuietInv, [Next]_vars PROVE QuietInv'
  OBVIOUS
<1> USE DEF appVars
<1>1. OpenInv'
  BY OpenInvStep DEF QuietInv
<1>2. held' \subseteq Channels
  <2>1. \/ held' \subseteq held \/ \E c \in Channels : held' = held \cup {c}
    BY DEF Next, vars, ManualReconnect, ReopenNext, ReopenDone, Reopened,
           ReopenDenied, SessionReady, Connects, Disconnects,
           FailsUnreported, AppOpen, AppUnsubscribe, AppCall, CallAnswered,
           AppClose
  <2> QED  BY <2>1 DEF QuietInv
<1> SUFFICES ASSUME ~disturbed' PROVE Quiet'
  BY <1>1, <1>2 DEF QuietInv
<1>3. ASSUME ~disturbed PROVE Quiet
  BY <1>3 DEF QuietInv
<1>4. ASSUME NEW p \in Calls, ManualReconnect(p) PROVE Quiet'
  <2>1. call = Thrown(call, {})
    BY DEF Thrown, QuietInv, OpenInv, Types
  <2>2. ~disturbed /\ Idle /\ Settled /\ channels' = channels /\ held' = held
    BY <1>4 DEF ManualReconnect
  <2> QED  BY <1>3, <1>4, <2>1, <2>2, RestartKeepsQuiet DEF ManualReconnect
<1>5. ASSUME NEW p \in Calls, NEW c \in Channels, ReopenNext(p, c) PROVE Quiet'
  BY <1>3, <1>5, ReopenNextKeepsQuiet DEF ReopenNext
<1>6. ASSUME NEW p \in Calls, ReopenDone(p) PROVE Quiet'
  BY <1>3, <1>6, ReopenDoneKeepsQuiet DEF ReopenDone
<1>7. ASSUME NEW p \in Calls, Reopened(p) PROVE Quiet'
  BY <1>3, <1>7, ReopenedKeepsQuiet DEF Reopened
<1>8. ASSUME NEW p \in Calls, ReopenDenied(p) PROVE Quiet'
  BY <1>8 DEF ReopenDenied
<1>9. CASE SessionReady
  BY <1>3, <1>9, SessionReadyKeepsQuiet DEF SessionReady
<1>10. ASSUME NEW error \in BOOLEAN, Disconnects(error) PROVE Quiet'
  <2> DEFINE thrown == ErrorThrows(error)
  <2>1. /\ ~disturbed /\ Idle /\ Settled /\ channels' = channels
        /\ held' = held
    BY <1>10 DEF Disconnects
  <2>2. Awaiting(call) = {}
    BY <2>1 DEF Awaiting, Idle, QuietInv, OpenInv, OnlyReopenersOpen
  <2>3. thrown = {} /\ thrown \in SUBSET Calls
    BY <2>2 DEF ErrorThrows
  <2>4. \/ /\ call' = Thrown(call, thrown)
           /\ UNCHANGED <<opened, sessionReady, waiters>>
        \/ \E p \in Calls : StartReconnect(p, TRUE, Thrown(call, thrown))
    BY <1>10 DEF Disconnects
  <2> HIDE DEF thrown
  <2>5. CASE /\ call' = Thrown(call, thrown)
             /\ UNCHANGED <<opened, sessionReady, waiters>>
    <3>1. call' = call
      BY <2>3, <2>5 DEF Thrown, QuietInv, OpenInv, Types
    <3> QED  BY <1>3, <2>1, <2>5, <3>1, OthersKeepQuiet
  <2> QED  BY <1>3, <2>1, <2>3, <2>4, <2>5, RestartKeepsQuiet
<1>11. ASSUME NEW c \in Channels, AppOpen(c) PROVE Quiet'
  BY <1>3, <1>11, AppOpenKeepsQuiet DEF AppOpen
<1>12. CASE \/ Connects \/ AppCall \/ CallAnswered \/ AppClose \/ UNCHANGED vars
            \/ \E c \in Channels : AppUnsubscribe(c)
  <2>1. /\ UNCHANGED <<call, opened, sessionReady, waiters, disturbed>>
        /\ \A c \in held' : c \in held /\ (c \in channels => c \in channels')
    BY <1>12 DEF Connects, AppCall, CallAnswered, AppClose, AppUnsubscribe, vars
  <2> QED  BY <1>3, <2>1, OthersKeepQuiet
<1>13. ASSUME NEW error \in BOOLEAN, NEW end \in {"stalled", "failed"},
              FailsUnreported(error, end)
       PROVE  Quiet'
  <2>1. /\ ~disturbed /\ Idle /\ channels' = channels /\ held' = held
        /\ UNCHANGED <<opened, sessionReady, waiters>>
        /\ call' = Thrown(call, ErrorThrows(error))
    BY <1>13 DEF FailsUnreported
  <2>2. ErrorThrows(error) = {}
    BY <2>1 DEF ErrorThrows, Awaiting, Idle, QuietInv, OpenInv, OnlyReopenersOpen
  <2>3. call' = call
    BY <2>1, <2>2 DEF Thrown, QuietInv, OpenInv, Types
  <2> QED  BY <1>3, <2>1, <2>3, OthersKeepQuiet
<1> QED
  BY <1>4, <1>5, <1>6, <1>7, <1>8, <1>9, <1>10, <1>11, <1>12, <1>13 DEF Next

(***************************************************************************)
(* As long as no reconnect is cut short, a client that is connected and    *)
(* idle has every channel the application holds tracked and open on the    *)
(* current connection, over any number of connections.                     *)
(***************************************************************************)
THEOREM QuietReconnects == Spec => []QuietlyRestored
<1>1. QuietInv => QuietlyRestored
  <2> SUFFICES ASSUME QuietInv, ~disturbed, Online, Idle, NEW c \in held
               PROVE  c \in channels /\ opened[c] = 1
    BY DEF QuietlyRestored, ChannelsRestored
  <2>1. \A p \in Calls : call[p].todo = {} /\ call[p].opening = 0
    BY DEF QuietInv, OpenInv, OnlyReopenersOpen, Idle
  <2>2. c # 0
    BY ChannelsArePositive DEF QuietInv
  <2> QED  BY <2>1, <2>2 DEF QuietInv, Quiet, Online
<1> QED  BY QuietInitially, QuietStep, <1>1, PTL DEF Spec
=============================================================================
