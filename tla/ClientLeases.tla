---------------------------- MODULE ClientLeases ----------------------------
(***************************************************************************)
(* The retained buffers and payload leases of the client engine,           *)
(* rclweb/src/engine.  Every received frame is kept in a buffer; a data    *)
(* frame also grants the application a lease on its payload, which lives   *)
(* in that buffer until the application releases the lease.  At the end of *)
(* a poll the engine reports, and forgets, the buffers nobody leases.      *)
(*                                                                         *)
(* A buffer is described by the number of the frame it holds, so that a    *)
(* lease whose buffer was dropped, or given to another frame, is told      *)
(* apart from a sound one.  A frame is parsed inside one step, so the      *)
(* ingest_done flag is always set when the sweep looks at it.              *)
(***************************************************************************)
EXTENDS Integers, FiniteSets

CONSTANTS
    MaxBufferId,    \* largest buffer id (u32::MAX in the code)
    MaxLeaseId,     \* largest lease id (u32::MAX in the code)
    HostIds,        \* buffer ids the host may choose itself
    MaxFrames       \* bound: frames received

ASSUME LeasesAssumption ==
    /\ MaxBufferId \in Nat \ {0}
    /\ MaxLeaseId \in Nat \ {0}
    /\ HostIds \subseteq 1 .. MaxBufferId
    /\ MaxFrames \in Nat

BufferIds == 1 .. MaxBufferId
LeaseIds == 1 .. MaxLeaseId

VARIABLES
    retained,       \* [BufferIds -> [frame, refs]]; frame 0: no such buffer
    leases,         \* [LeaseIds -> buffer id]; 0: no such lease
    nextBuffer,     \* next_buffer_id
    nextLease,      \* next_lease_id
    polling,        \* inside a poll
    closed,         \* the engine failed or was closed
    frames,         \* history: frames received
    granted,        \* history: [LeaseIds -> frame the lease was granted on]
    reported        \* history: frames whose buffer was reported released

engineVars == <<retained, leases, nextBuffer, nextLease>>
vars == <<retained, leases, nextBuffer, nextLease, polling, closed, frames,
          granted, reported>>

FrameKind == {"control", "reply", "data", "bad"}

Absent == [frame |-> 0, refs |-> 0]

Init ==
    /\ retained = [b \in BufferIds |-> Absent]
    /\ leases = [l \in LeaseIds |-> 0]
    /\ nextBuffer = 1
    /\ nextLease = 1
    /\ polling = FALSE
    /\ closed = FALSE
    /\ frames = 0
    /\ granted = [l \in LeaseIds |-> 0]
    /\ reported = {}

-----------------------------------------------------------------------------
SaturatingSucc(id, largest) == IF id < largest THEN id + 1 ELSE id
\* Fault: the counter is not moved past the id just used.
AtLeastUnmoved(id, other) == id

AtLeast(id, other) == IF id < other THEN other ELSE id

\* run_poll on a live engine; a closed one does nothing.
PollBegin ==
    /\ ~polling /\ ~closed
    /\ polling' = TRUE
    /\ UNCHANGED <<engineVars, closed, frames, granted, reported>>

\* handle_ws_bytes: buffer_id 0 asks the engine for an id.  A "data" frame
\* is leased; a "reply" is a control frame answered with an outbound
\* message, which takes a buffer id too; a "bad" frame fails the engine.
HandleWsBytes(bufferId, kind) ==
    LET id == IF bufferId = 0 THEN nextBuffer ELSE bufferId
        after == AtLeast(nextBuffer, SaturatingSucc(id, MaxBufferId))
    IN  /\ polling /\ ~closed
        /\ frames < MaxFrames
        /\ frames' = frames + 1
        /\ retained' = [retained EXCEPT ![id] =
                [frame |-> frames + 1, refs |-> IF kind = "data" THEN 1 ELSE 0]]
        /\ nextBuffer' = IF kind = "reply"
                         THEN SaturatingSucc(after, MaxBufferId)
                         ELSE after
        /\ IF kind = "data"
           THEN /\ leases' = [leases EXCEPT ![nextLease] = id]
                /\ granted' = [granted EXCEPT ![nextLease] = frames + 1]
                /\ nextLease' = SaturatingSucc(nextLease, MaxLeaseId)
           ELSE UNCHANGED <<leases, granted, nextLease>>
        /\ closed' = (kind = "bad")
        /\ UNCHANGED <<polling, reported>>

\* A command or a timer that sends a message: push_outbound takes an id.
HandleSend ==
    /\ polling /\ ~closed
    /\ nextBuffer' = SaturatingSucc(nextBuffer, MaxBufferId)
    /\ UNCHANGED <<retained, leases, nextLease, polling, closed, frames,
                   granted, reported>>

\* Close.
HandleClose ==
    /\ polling /\ ~closed
    /\ closed' = TRUE
    /\ UNCHANGED <<engineVars, polling, frames, granted, reported>>

\* Fault: the lease is forgotten but still counted.
ReleaseLeaseUncounted(l) ==
    /\ polling /\ ~closed
    /\ leases[l] # 0
    /\ leases' = [leases EXCEPT ![l] = 0]
    /\ UNCHANGED <<retained, nextBuffer, nextLease, polling, closed, frames,
                   granted, reported>>

\* release_lease, of any lease id: releasing twice is harmless.
ReleaseLease(l) ==
    /\ polling /\ ~closed
    /\ leases[l] # 0
    /\ leases' = [leases EXCEPT ![l] = 0]
    /\ retained' =
          IF retained[leases[l]].frame # 0 /\ retained[leases[l]].refs > 0
          THEN [retained EXCEPT ![leases[l]].refs = @ - 1]
          ELSE retained
    /\ UNCHANGED <<nextBuffer, nextLease, polling, closed, frames, granted,
                   reported>>

\* Fault: the sweep does not look at the leases.
SweepableAnyway(b) == retained[b].frame # 0

\* sweep_released at the end of a poll, also of the one that failed.
Sweepable(b) == retained[b].frame # 0 /\ retained[b].refs = 0

PollEnd ==
    /\ polling
    /\ polling' = FALSE
    /\ retained' = [b \in BufferIds |-> IF Sweepable(b) THEN Absent
                                                        ELSE retained[b]]
    /\ reported' = reported \cup
                   {retained[b].frame : b \in {i \in BufferIds : Sweepable(i)}}
    /\ UNCHANGED <<leases, nextBuffer, nextLease, closed, frames, granted>>

\* The host does not choose an id it has not been given back.
HostDelivers(bufferId, kind) ==
    /\ bufferId # 0 => retained[bufferId].frame = 0
    /\ HandleWsBytes(bufferId, kind)

Next ==
    \/ PollBegin
    \/ \E bufferId \in HostIds \cup {0}, kind \in FrameKind :
          HostDelivers(bufferId, kind)
    \/ HandleSend
    \/ HandleClose
    \/ \E l \in LeaseIds : ReleaseLease(l)
    \/ PollEnd

Spec == Init /\ [][Next]_vars

-----------------------------------------------------------------------------
TypeOK ==
    /\ retained \in [BufferIds -> [frame : Nat, refs : {0, 1}]]
    /\ leases \in [LeaseIds -> 0 .. MaxBufferId]
    /\ nextBuffer \in BufferIds
    /\ nextLease \in LeaseIds
    /\ polling \in BOOLEAN
    /\ closed \in BOOLEAN
    /\ frames \in Nat
    /\ granted \in [LeaseIds -> Nat]
    /\ reported \subseteq Nat

\* The ids are not used up.  Past u32::MAX both counters stay where they are,
\* and a new buffer or lease takes the place of the last one.
IdsLeft == nextBuffer < MaxBufferId /\ nextLease < MaxLeaseId

(***************************************************************************)
(* lease_payload_view is sound until the ids are used up: a lease the      *)
(* application holds still reads the frame it was granted on, whatever was *)
(* received, sent or released in between, and whether the host or the      *)
(* engine chose the buffer's id.                                           *)
(***************************************************************************)
LeaseReadsItsFrame ==
    IdsLeft => \A l \in LeaseIds :
        leases[l] # 0 => /\ granted[l] # 0
                         /\ retained[leases[l]].frame = granted[l]

(***************************************************************************)
(* No buffer is lost and none is given back while it is held, until the    *)
(* ids are used up: every frame received is in exactly one of the retained *)
(* table and the released reports.                                         *)
(***************************************************************************)
FramesAccountedFor ==
    IdsLeft => \A f \in 1 .. frames :
        f \in reported <=> ~\E b \in BufferIds : retained[b].frame = f

\* The leases on buffer b.
Holders(b) == {l \in LeaseIds : leases[l] = b}

(***************************************************************************)
(* Between polls, until the ids are used up, the engine keeps exactly the  *)
(* buffers the application holds a lease on, each with the number of its   *)
(* leases as its count.                                                    *)
(***************************************************************************)
IdleKeepsOnlyLeased ==
    IdsLeft /\ ~polling => \A b \in BufferIds :
        /\ retained[b].frame # 0 <=> Holders(b) # {}
        /\ retained[b].refs = Cardinality(Holders(b))
=============================================================================
