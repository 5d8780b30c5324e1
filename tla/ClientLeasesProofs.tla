------------------------- MODULE ClientLeasesProofs -------------------------
(***************************************************************************)
(* Proofs about ClientLeases, for any number of buffer and lease ids.      *)
(*                                                                         *)
(* The three properties need each other, and four facts the code never     *)
(* states: ids at or above the counters are unused (so a fresh id cannot   *)
(* hit a live buffer or lease), no two leases share a buffer, a count is   *)
(* positive only if somebody holds a lease, and no two buffers hold the    *)
(* same frame.                                                             *)
(***************************************************************************)
EXTENDS ClientLeases, FiniteSetTheorems, TLAPS

\* Ids from the counters up are unused.
FreshUnused ==
    /\ \A b \in BufferIds : b >= nextBuffer => retained[b].frame = 0
    /\ \A l \in LeaseIds : l >= nextLease => leases[l] = 0

\* A lease pins the frame it was granted on.
LeasesBacked ==
    \A l \in LeaseIds : leases[l] # 0 =>
        /\ granted[l] # 0
        /\ retained[leases[l]].frame = granted[l]
        /\ retained[leases[l]].refs = 1

\* No two leases share a buffer.
LeasesExclusive ==
    \A l, k \in LeaseIds : leases[l] # 0 /\ leases[l] = leases[k] => l = k

\* A counted reference belongs to a lease.
RefsBacked ==
    \A b \in BufferIds : retained[b].refs # 0 => \E l \in LeaseIds : leases[l] = b

\* Buffers hold different frames, among those received.
FramesDistinct ==
    /\ \A b \in BufferIds : retained[b].frame <= frames
    /\ \A b, c \in BufferIds :
          retained[b].frame # 0 /\ retained[b].frame = retained[c].frame => b = c
    /\ \A f \in reported : f <= frames

Accounted ==
    \A f \in 1 .. frames :
        f \in reported <=> ~\E b \in BufferIds : retained[b].frame = f

IdleLeased ==
    ~polling => \A b \in BufferIds :
        retained[b].frame # 0 => \E l \in LeaseIds : leases[l] = b

Sound ==
    /\ FreshUnused
    /\ LeasesBacked
    /\ LeasesExclusive
    /\ RefsBacked
    /\ FramesDistinct
    /\ Accounted
    /\ IdleLeased

IInv == TypeOK /\ (IdsLeft => Sound)

-----------------------------------------------------------------------------
(* Type correctness. *)

LEMMA TypeWsBytes ==
    ASSUME TypeOK, NEW bufferId \in HostIds \cup {0}, NEW kind \in FrameKind,
           HostDelivers(bufferId, kind)
    PROVE  TypeOK'
  <1> DEFINE id == IF bufferId = 0 THEN nextBuffer ELSE bufferId
  <1>1. id \in BufferIds /\ id \in 0 .. MaxBufferId
    BY LeasesAssumption DEF TypeOK, BufferIds
  <1>2. retained' = [retained EXCEPT ![id] =
                [frame |-> frames + 1, refs |-> IF kind = "data" THEN 1 ELSE 0]]
    BY DEF HostDelivers, HandleWsBytes
  <1>3. nextBuffer' \in BufferIds
    BY LeasesAssumption
       DEF TypeOK, HostDelivers, HandleWsBytes, BufferIds, SaturatingSucc, AtLeast
  <1>4. retained' \in [BufferIds -> [frame : Nat, refs : {0, 1}]]
    BY <1>1, <1>2 DEF TypeOK
  <1>5. CASE kind = "data"
    <2>1. /\ leases' = [leases EXCEPT ![nextLease] = id]
          /\ granted' = [granted EXCEPT ![nextLease] = frames + 1]
          /\ nextLease' = SaturatingSucc(nextLease, MaxLeaseId)
      BY <1>5 DEF HostDelivers, HandleWsBytes
    <2>2. leases' \in [LeaseIds -> 0 .. MaxBufferId]
      BY <1>1, <2>1 DEF TypeOK
    <2>3. granted' \in [LeaseIds -> Nat]
      BY <2>1 DEF TypeOK
    <2>4. nextLease' \in LeaseIds
      BY <2>1, LeasesAssumption DEF TypeOK, SaturatingSucc, LeaseIds
    <2> QED
      BY <1>3, <1>4, <2>2, <2>3, <2>4 DEF TypeOK, HostDelivers, HandleWsBytes
  <1>6. CASE kind # "data"
    BY <1>3, <1>4, <1>6 DEF TypeOK, HostDelivers, HandleWsBytes
  <1> QED
    BY <1>5, <1>6

LEMMA TypeRelease ==
    ASSUME TypeOK, NEW l \in LeaseIds, ReleaseLease(l)
    PROVE  TypeOK'
  <1> DEFINE b == leases[l]
  <1>1. b \in BufferIds
    BY LeasesAssumption DEF TypeOK, ReleaseLease, BufferIds
  <1>2. retained' \in [BufferIds -> [frame : Nat, refs : {0, 1}]]
    <2>1. CASE retained[b].frame # 0 /\ retained[b].refs > 0
      <3>1. retained' = [retained EXCEPT ![b].refs = retained[b].refs - 1]
        BY <2>1 DEF ReleaseLease
      <3>2. retained[b].refs - 1 \in {0, 1}
        BY <1>1, <2>1 DEF TypeOK
      <3> QED
        BY <1>1, <3>1, <3>2 DEF TypeOK
    <2>2. CASE ~(retained[b].frame # 0 /\ retained[b].refs > 0)
      BY <2>2 DEF TypeOK, ReleaseLease
    <2> QED
      BY <2>1, <2>2
  <1>3. leases' \in [LeaseIds -> 0 .. MaxBufferId]
    BY LeasesAssumption DEF TypeOK, ReleaseLease
  <1> QED
    BY <1>2, <1>3 DEF TypeOK, ReleaseLease

LEMMA TypeCorrect ==
    ASSUME TypeOK, [Next]_vars
    PROVE  TypeOK'
  <1>1. CASE PollBegin
    BY <1>1 DEF TypeOK, PollBegin, engineVars
  <1>2. CASE HandleSend
    BY <1>2, LeasesAssumption DEF TypeOK, HandleSend, SaturatingSucc, BufferIds
  <1>3. CASE HandleClose
    BY <1>3 DEF TypeOK, HandleClose, engineVars
  <1>4. CASE PollEnd
    <2>1. retained' \in [BufferIds -> [frame : Nat, refs : {0, 1}]]
      BY <1>4 DEF TypeOK, PollEnd, Absent
    <2>2. reported' \subseteq Nat
      BY <1>4 DEF TypeOK, PollEnd
    <2> QED
      BY <1>4, <2>1, <2>2 DEF TypeOK, PollEnd
  <1>5. CASE UNCHANGED vars
    BY <1>5 DEF TypeOK, vars
  <1> QED
    BY <1>1, <1>2, <1>3, <1>4, <1>5, TypeWsBytes, TypeRelease DEF Next

-----------------------------------------------------------------------------
(* Both counters only grow, so ids that are left now were left before.     *)
LEMMA IdsLeftBefore ==
    ASSUME TypeOK, Next, IdsLeft'
    PROVE  IdsLeft
  <1>1. ASSUME NEW bufferId \in HostIds \cup {0}, NEW kind \in FrameKind,
               HostDelivers(bufferId, kind)
        PROVE  nextBuffer <= nextBuffer' /\ nextLease <= nextLease'
    <2>1. nextBuffer <= nextBuffer'
      BY <1>1, LeasesAssumption
         DEF TypeOK, HostDelivers, HandleWsBytes, SaturatingSucc, AtLeast,
             BufferIds
    <2>2. nextLease <= nextLease'
      BY <1>1, LeasesAssumption
         DEF TypeOK, HostDelivers, HandleWsBytes, SaturatingSucc, LeaseIds
    <2> QED
      BY <2>1, <2>2
  <1>2. ASSUME PollBegin \/ HandleSend \/ HandleClose \/ PollEnd
        PROVE  nextBuffer <= nextBuffer' /\ nextLease <= nextLease'
    BY <1>2, LeasesAssumption
       DEF TypeOK, PollBegin, HandleSend, HandleClose, PollEnd, engineVars,
           SaturatingSucc, BufferIds, LeaseIds
  <1>3. ASSUME NEW l \in LeaseIds, ReleaseLease(l)
        PROVE  nextBuffer <= nextBuffer' /\ nextLease <= nextLease'
    BY <1>3, LeasesAssumption DEF TypeOK, ReleaseLease, BufferIds, LeaseIds
  <1>4. nextBuffer <= nextBuffer' /\ nextLease <= nextLease'
    BY <1>1, <1>2, <1>3 DEF Next
  <1>5. TypeOK'
    BY TypeCorrect
  <1>6. /\ nextBuffer \in Int /\ nextLease \in Int
        /\ nextBuffer' \in Int /\ nextLease' \in Int
    BY <1>5 DEF TypeOK, BufferIds, LeaseIds
  <1>7. nextBuffer' < MaxBufferId /\ nextLease' < MaxLeaseId
    BY DEF IdsLeft
  <1> QED
    BY <1>4, <1>6, <1>7, LeasesAssumption DEF IdsLeft

(* What handling a received frame does when ids are left: the buffer and   *)
(* the lease it takes were free, and all others are untouched.             *)
LEMMA WsBytesStep ==
    ASSUME TypeOK, Sound, IdsLeft, IdsLeft',
           NEW bufferId \in HostIds \cup {0}, NEW kind \in FrameKind,
           HostDelivers(bufferId, kind)
    PROVE  \E id \in BufferIds :
              /\ retained[id].frame = 0
              /\ id < nextBuffer'
              /\ nextBuffer <= nextBuffer'
              /\ retained' = [retained EXCEPT ![id] =
                    [frame |-> frames + 1, refs |-> IF kind = "data" THEN 1 ELSE 0]]
              /\ IF kind = "data"
                 THEN /\ leases' = [leases EXCEPT ![nextLease] = id]
                      /\ granted' = [granted EXCEPT ![nextLease] = frames + 1]
                      /\ nextLease' = nextLease + 1
                 ELSE UNCHANGED <<leases, granted, nextLease>>
              /\ frames' = frames + 1
              /\ polling
              /\ UNCHANGED <<polling, reported>>
  <1> DEFINE id == IF bufferId = 0 THEN nextBuffer ELSE bufferId
  <1>1. id \in BufferIds
    BY LeasesAssumption DEF TypeOK, BufferIds
  <1>2. retained[id].frame = 0
    BY LeasesAssumption DEF TypeOK, HostDelivers, Sound, FreshUnused, BufferIds
  <1>3. /\ id < nextBuffer'
        /\ nextBuffer <= nextBuffer'
    BY <1>1, LeasesAssumption
       DEF HostDelivers, HandleWsBytes, TypeOK, IdsLeft, SaturatingSucc,
           AtLeast, BufferIds
  <1>4. kind = "data" => nextLease' = nextLease + 1
    BY LeasesAssumption
       DEF HostDelivers, HandleWsBytes, TypeOK, IdsLeft, SaturatingSucc, LeaseIds
  <1>5. /\ retained' = [retained EXCEPT ![id] =
              [frame |-> frames + 1, refs |-> IF kind = "data" THEN 1 ELSE 0]]
        /\ IF kind = "data"
           THEN /\ leases' = [leases EXCEPT ![nextLease] = id]
                /\ granted' = [granted EXCEPT ![nextLease] = frames + 1]
           ELSE UNCHANGED <<leases, granted, nextLease>>
        /\ frames' = frames + 1
        /\ polling
        /\ UNCHANGED <<polling, reported>>
    BY DEF HostDelivers, HandleWsBytes
  <1> HIDE DEF id
  <1> QED
    BY <1>1, <1>2, <1>3, <1>4, <1>5

-----------------------------------------------------------------------------
(* The soundness invariant, one lemma per action that can disturb it.      *)

LEMMA SoundWsBytes ==
    ASSUME TypeOK, TypeOK', Sound, IdsLeft, IdsLeft',
           NEW bufferId \in HostIds \cup {0}, NEW kind \in FrameKind,
           HostDelivers(bufferId, kind)
    PROVE  Sound'
  <1> USE DEF BufferIds, LeaseIds
  <1>1. PICK id \in BufferIds :
              /\ retained[id].frame = 0
              /\ id < nextBuffer'
              /\ nextBuffer <= nextBuffer'
              /\ retained' = [retained EXCEPT ![id] =
                    [frame |-> frames + 1, refs |-> IF kind = "data" THEN 1 ELSE 0]]
              /\ IF kind = "data"
                 THEN /\ leases' = [leases EXCEPT ![nextLease] = id]
                      /\ granted' = [granted EXCEPT ![nextLease] = frames + 1]
                      /\ nextLease' = nextLease + 1
                 ELSE UNCHANGED <<leases, granted, nextLease>>
              /\ frames' = frames + 1
              /\ polling
              /\ UNCHANGED <<polling, reported>>
    BY WsBytesStep
  <1>2. \A l \in LeaseIds : leases[l] # id
    <2>1. id # 0
      BY LeasesAssumption
    <2> QED
      BY <1>1, <2>1 DEF Sound, LeasesBacked
  <1>3. /\ retained'[id].frame = frames + 1
        /\ retained'[id].refs = IF kind = "data" THEN 1 ELSE 0
        /\ \A b \in BufferIds : b # id => retained'[b] = retained[b]
    BY <1>1 DEF TypeOK
  <1>4. /\ frames \in Nat /\ nextBuffer \in Int /\ nextBuffer' \in Int
        /\ nextLease \in LeaseIds
        /\ \A c \in BufferIds : retained[c].frame \in Nat
        /\ \A c \in BufferIds : c \in Int
        /\ \A l \in LeaseIds : l \in Int
        /\ \A l \in LeaseIds : leases[l] # 0 => leases[l] \in BufferIds
    <2>1. /\ frames \in Nat /\ nextBuffer \in Int /\ nextBuffer' \in Int
          /\ nextLease \in LeaseIds
      BY DEF TypeOK
    <2>2. \A c \in BufferIds : retained[c].frame \in Nat
      BY DEF TypeOK
    <2>3. /\ \A c \in BufferIds : c \in Int
          /\ \A l \in LeaseIds : l \in Int
      OBVIOUS
    <2>4. \A l \in LeaseIds : leases[l] # 0 => leases[l] \in BufferIds
      <3> SUFFICES ASSUME NEW l \in LeaseIds, leases[l] # 0
                   PROVE  leases[l] \in BufferIds
        OBVIOUS
      <3>1. leases[l] \in 0 .. MaxBufferId
        BY DEF TypeOK
      <3> QED
        BY <3>1, LeasesAssumption
    <2> QED
      BY <2>1, <2>2, <2>3, <2>4
  <1>5. \A c \in BufferIds : c >= nextBuffer' => retained'[c].frame = 0
    <2> SUFFICES ASSUME NEW c \in BufferIds, c >= nextBuffer'
                 PROVE  retained'[c].frame = 0
      OBVIOUS
    <2>1. c # id /\ c >= nextBuffer
      BY <1>1, <1>4
    <2> QED
      BY <1>3, <2>1 DEF Sound, FreshUnused
  <1>6. FramesDistinct'
    <2>1. \A c \in BufferIds : retained[c].frame <= frames
      BY DEF Sound, FramesDistinct
    <2>2. \A c \in BufferIds : retained'[c].frame <= frames'
      BY <1>1, <1>3, <1>4, <2>1
    <2>3. \A c \in BufferIds : retained[c].frame # frames + 1
      BY <1>4, <2>1
    <2>4. \A c, e \in BufferIds :
             retained'[c].frame # 0 /\ retained'[c].frame = retained'[e].frame => c = e
      BY <1>3, <2>3 DEF Sound, FramesDistinct
    <2>5. \A f \in reported' : f <= frames'
      <3> SUFFICES ASSUME NEW f \in reported PROVE f <= frames + 1
        BY <1>1
      <3>1. f \in Nat /\ f <= frames
        BY DEF TypeOK, Sound, FramesDistinct
      <3> QED
        BY <1>4, <3>1
    <2> QED
      BY <2>2, <2>4, <2>5 DEF FramesDistinct
  <1>7. Accounted'
    <2> SUFFICES ASSUME NEW f \in 1 .. (frames + 1)
                 PROVE  f \in reported <=> ~\E c \in BufferIds : retained'[c].frame = f
      BY <1>1 DEF Accounted
    <2>1. CASE f = frames + 1
      <3>1. f \notin reported
        BY <1>4, <2>1 DEF Sound, FramesDistinct
      <3> QED
        BY <1>3, <2>1, <3>1
    <2>2. CASE f # frames + 1
      <3>1. f \in 1 .. frames /\ f # 0
        BY <1>4, <2>2
      <3>2. \A c \in BufferIds : retained'[c].frame = f <=> retained[c].frame = f
        BY <1>1, <1>3, <2>2, <3>1
      <3> QED
        BY <3>1, <3>2 DEF Sound, Accounted
    <2> QED
      BY <2>1, <2>2
  <1>8. IdleLeased'
    BY <1>1 DEF IdleLeased
  <1>9. CASE kind = "data"
    <2>1. /\ leases'[nextLease] = id
          /\ granted'[nextLease] = frames + 1
          /\ \A l \in LeaseIds : l # nextLease => /\ leases'[l] = leases[l]
                                                  /\ granted'[l] = granted[l]
          /\ leases[nextLease] = 0
          /\ nextLease' = nextLease + 1
      BY <1>1, <1>9 DEF TypeOK, Sound, FreshUnused
    <2>2. FreshUnused'
      <3>1. \A l \in LeaseIds : l >= nextLease' => l # nextLease /\ l >= nextLease
        BY <1>4, <2>1
      <3>2. \A l \in LeaseIds : l >= nextLease' => leases'[l] = 0
        BY <2>1, <3>1 DEF Sound, FreshUnused
      <3> QED
        BY <1>5, <3>2 DEF FreshUnused
    <2>3. LeasesBacked'
      <3> SUFFICES ASSUME NEW l \in LeaseIds, leases'[l] # 0
                   PROVE  /\ granted'[l] # 0
                          /\ retained'[leases'[l]].frame = granted'[l]
                          /\ retained'[leases'[l]].refs = 1
        BY DEF LeasesBacked
      <3>1. CASE l = nextLease
        BY <1>3, <1>4, <1>9, <2>1, <3>1
      <3>2. CASE l # nextLease
        <4>1. leases'[l] = leases[l] /\ granted'[l] = granted[l]
          BY <2>1, <3>2
        <4>2. leases[l] \in BufferIds /\ leases[l] # id
          BY <1>2, <1>4, <4>1
        <4> QED
          BY <1>3, <4>1, <4>2 DEF Sound, LeasesBacked
      <3> QED
        BY <3>1, <3>2
    <2>4. LeasesExclusive'
      BY <1>1, <1>2, <2>1 DEF Sound, LeasesExclusive, TypeOK
    <2>5. RefsBacked'
      BY <1>1, <1>2, <1>3, <2>1 DEF Sound, RefsBacked, TypeOK
    <2> QED
      BY <1>6, <1>7, <1>8, <2>2, <2>3, <2>4, <2>5 DEF Sound
  <1>10. CASE kind # "data"
    <2>1. UNCHANGED <<leases, granted, nextLease>>
      BY <1>1, <1>10
    <2>2. FreshUnused'
      BY <1>5, <2>1 DEF Sound, FreshUnused
    <2>3. LeasesBacked'
      BY <1>2, <1>3, <1>4, <2>1 DEF Sound, LeasesBacked
    <2>4. LeasesExclusive'
      BY <2>1 DEF Sound, LeasesExclusive
    <2>5. RefsBacked'
      BY <1>1, <1>3, <1>10, <2>1 DEF Sound, RefsBacked, TypeOK
    <2> QED
      BY <1>6, <1>7, <1>8, <2>2, <2>3, <2>4, <2>5 DEF Sound
  <1> QED
    BY <1>9, <1>10

LEMMA SoundRelease ==
    ASSUME TypeOK, TypeOK', Sound, NEW l \in LeaseIds, ReleaseLease(l)
    PROVE  Sound'
  <1> DEFINE b == leases[l]
  <1> USE DEF BufferIds, LeaseIds
  <1>1. b \in BufferIds /\ retained[b].refs = 1 /\ retained[b].frame # 0
    BY LeasesAssumption DEF TypeOK, ReleaseLease, Sound, LeasesBacked
  <1>2. retained' = [retained EXCEPT ![b].refs = retained[b].refs - 1]
    BY <1>1 DEF ReleaseLease
  <1>3. /\ retained'[b].frame = retained[b].frame
        /\ retained'[b].refs = 0
        /\ \A c \in BufferIds : c # b => retained'[c] = retained[c]
        /\ \A c \in BufferIds : retained'[c].frame = retained[c].frame
    BY <1>1, <1>2 DEF TypeOK
  <1>4. /\ leases'[l] = 0
        /\ \A k \in LeaseIds : k # l => leases'[k] = leases[k]
        /\ \A k \in LeaseIds : k # l => leases[k] # b
        /\ b # 0
    BY <1>1, LeasesAssumption DEF TypeOK, ReleaseLease, Sound, LeasesExclusive
  <1>5. UNCHANGED <<nextBuffer, nextLease, polling, frames, granted, reported>>
        /\ polling
    BY DEF ReleaseLease
  <1> HIDE DEF b
  <1>6. FreshUnused'
    BY <1>3, <1>4, <1>5 DEF Sound, FreshUnused
  <1>7. LeasesBacked'
    <2> SUFFICES ASSUME NEW k \in LeaseIds, leases'[k] # 0
                 PROVE  /\ granted'[k] # 0
                        /\ retained'[leases'[k]].frame = granted'[k]
                        /\ retained'[leases'[k]].refs = 1
      BY DEF LeasesBacked
    <2>1. k # l /\ leases'[k] = leases[k] /\ leases[k] # b
      BY <1>4
    <2>2. leases[k] \in BufferIds
      <3>1. leases[k] \in 0 .. MaxBufferId /\ leases[k] # 0
        BY <2>1 DEF TypeOK
      <3> QED
        BY <3>1, LeasesAssumption
    <2>3. /\ granted[k] # 0
          /\ retained[leases[k]].frame = granted[k]
          /\ retained[leases[k]].refs = 1
      BY <2>1 DEF Sound, LeasesBacked
    <2>4. retained'[leases[k]] = retained[leases[k]]
      BY <1>3, <2>1, <2>2
    <2> QED
      BY <1>5, <2>1, <2>3, <2>4
  <1>8. LeasesExclusive'
    BY <1>4 DEF Sound, LeasesExclusive
  <1>9. RefsBacked'
    <2> SUFFICES ASSUME NEW c \in BufferIds, retained'[c].refs # 0
                 PROVE  \E k \in LeaseIds : leases'[k] = c
      BY DEF RefsBacked
    <2>1. c # b /\ retained[c].refs # 0
      BY <1>3
    <2>2. PICK k \in LeaseIds : leases[k] = c
      BY <2>1 DEF Sound, RefsBacked
    <2>3. k # l
      BY <2>1, <2>2 DEF b
    <2> QED
      BY <1>4, <2>2, <2>3
  <1>10. FramesDistinct'
    BY <1>3, <1>5 DEF Sound, FramesDistinct
  <1>11. Accounted'
    BY <1>3, <1>5 DEF Sound, Accounted
  <1>12. IdleLeased'
    BY <1>5 DEF IdleLeased
  <1> QED
    BY <1>6, <1>7, <1>8, <1>9, <1>10, <1>11, <1>12 DEF Sound

LEMMA SoundPollEnd ==
    ASSUME TypeOK, Sound, PollEnd
    PROVE  Sound'
  <1> USE DEF BufferIds, LeaseIds
  <1>1. /\ \A b \in BufferIds :
              retained'[b] = IF Sweepable(b) THEN Absent ELSE retained[b]
        /\ reported' = reported \cup
              {retained[b].frame : b \in {i \in BufferIds : Sweepable(i)}}
        /\ UNCHANGED <<leases, nextBuffer, nextLease, frames, granted>>
    BY DEF PollEnd
  <1>2. \A b \in BufferIds :
            /\ retained'[b].frame = IF Sweepable(b) THEN 0 ELSE retained[b].frame
            /\ retained'[b].refs = IF Sweepable(b) THEN 0 ELSE retained[b].refs
    BY <1>1 DEF Absent
  <1>3. \A l \in LeaseIds : leases[l] # 0 => /\ leases[l] \in BufferIds
                                             /\ ~Sweepable(leases[l])
    BY LeasesAssumption DEF Sound, LeasesBacked, Sweepable, TypeOK
  <1>4. FreshUnused'
    BY <1>1, <1>2 DEF Sound, FreshUnused
  <1>5. LeasesBacked'
    BY <1>1, <1>2, <1>3 DEF Sound, LeasesBacked
  <1>6. LeasesExclusive'
    BY <1>1 DEF Sound, LeasesExclusive
  <1>7. RefsBacked'
    BY <1>1, <1>2 DEF Sound, RefsBacked
  <1>8. FramesDistinct'
    <2>1. \A b \in BufferIds : retained'[b].frame <= frames'
      BY <1>1, <1>2 DEF Sound, FramesDistinct, TypeOK
    <2>2. \A b, c \in BufferIds :
            retained'[b].frame # 0 /\ retained'[b].frame = retained'[c].frame => b = c
      BY <1>2 DEF Sound, FramesDistinct
    <2>3. \A f \in reported' : f <= frames'
      BY <1>1 DEF Sound, FramesDistinct
    <2> QED
      BY <2>1, <2>2, <2>3 DEF FramesDistinct
  <1>9. Accounted'
    <2> SUFFICES ASSUME NEW f \in 1 .. frames
                 PROVE  f \in reported' <=> ~\E b \in BufferIds : retained'[b].frame = f
      BY <1>1 DEF Accounted
    <2>1. f # 0
      BY DEF TypeOK
    <2>2. f \in reported <=> ~\E b \in BufferIds : retained[b].frame = f
      BY DEF Sound, Accounted
    <2>3. CASE \E b \in BufferIds : retained[b].frame = f
      <3>1. PICK b \in BufferIds : retained[b].frame = f
        BY <2>3
      <3>2. \A c \in BufferIds : retained[c].frame = f => c = b
        BY <2>1, <3>1 DEF Sound, FramesDistinct
      <3>3. f \in reported' <=> Sweepable(b)
        BY <1>1, <2>2, <3>1, <3>2
      <3> QED
        BY <1>2, <2>1, <3>1, <3>2, <3>3
    <2>4. CASE ~\E b \in BufferIds : retained[b].frame = f
      BY <1>1, <1>2, <2>1, <2>2, <2>4
    <2> QED
      BY <2>3, <2>4
  <1>10. IdleLeased'
    <2> SUFFICES ASSUME NEW b \in BufferIds, retained'[b].frame # 0
                 PROVE  \E l \in LeaseIds : leases'[l] = b
      BY DEF IdleLeased
    <2>1. retained[b].refs # 0
      BY <1>2 DEF Sweepable
    <2> QED
      BY <1>1, <2>1 DEF Sound, RefsBacked
  <1> QED
    BY <1>4, <1>5, <1>6, <1>7, <1>8, <1>9, <1>10 DEF Sound

\* Sending takes a buffer id and nothing else.
LEMMA SoundSend ==
    ASSUME TypeOK, Sound, HandleSend
    PROVE  Sound'
  <1>1. nextBuffer <= nextBuffer'
    BY LeasesAssumption DEF TypeOK, HandleSend, SaturatingSucc, BufferIds
  <1>2. UNCHANGED <<retained, leases, nextLease, polling, frames, granted, reported>>
    BY DEF HandleSend
  <1>3. nextBuffer \in Int /\ nextBuffer' \in Int
    BY LeasesAssumption DEF TypeOK, HandleSend, SaturatingSucc, BufferIds
  <1>4. FreshUnused'
    BY <1>1, <1>2, <1>3 DEF Sound, FreshUnused, BufferIds
  <1> QED
    BY <1>2, <1>4
       DEF Sound, LeasesBacked, LeasesExclusive, RefsBacked, FramesDistinct,
           Accounted, IdleLeased

\* A count is the number of leases, 0 or 1.
LEMMA CountsAreLeases ==
  ASSUME TypeOK, Sound, ~polling, NEW b \in BufferIds
  PROVE  /\ retained[b].frame # 0 <=> Holders(b) # {}
         /\ retained[b].refs = Cardinality(Holders(b))
  <1>1. b # 0 /\ retained[b].refs \in {0, 1}
    BY DEF TypeOK, BufferIds
  <1>2. CASE Holders(b) = {}
    <2>1. retained[b].frame = 0 /\ retained[b].refs = 0
      BY <1>2 DEF Sound, IdleLeased, RefsBacked, Holders
    <2>2. Cardinality(Holders(b)) = 0
      BY <1>2, FS_EmptySet
    <2> QED
      BY <1>2, <2>1, <2>2
  <1>3. CASE Holders(b) # {}
    <2>1. PICK l \in LeaseIds : leases[l] = b
      BY <1>3 DEF Holders
    <2>2. retained[b].frame # 0 /\ retained[b].refs = 1
      BY <1>1, <2>1 DEF Sound, LeasesBacked
    <2>3. Holders(b) = {l}
      BY <1>1, <2>1 DEF Sound, LeasesExclusive, Holders
    <2>4. Cardinality(Holders(b)) = 1
      BY <2>3, FS_Singleton
    <2> QED
      BY <1>3, <2>2, <2>4
  <1> QED
    BY <1>2, <1>3

-----------------------------------------------------------------------------
(***************************************************************************)
(* For any number of ids and frames, until the ids are used up: a lease    *)
(* the application holds keeps reading its own frame, no buffer is lost or *)
(* given back early, and an idle engine keeps exactly what is leased.      *)
(***************************************************************************)
THEOREM LeaseSafety ==
    Spec => [](TypeOK /\ LeaseReadsItsFrame /\ FramesAccountedFor /\ IdleKeepsOnlyLeased)
  <1>1. Init => IInv
    <2> SUFFICES ASSUME Init PROVE IInv
      OBVIOUS
    <2>1. TypeOK
      <3>1. retained \in [BufferIds -> [frame : Nat, refs : {0, 1}]]
        BY DEF Init, Absent
      <3>2. leases \in [LeaseIds -> 0 .. MaxBufferId]
        BY LeasesAssumption DEF Init
      <3>3. nextBuffer \in BufferIds /\ nextLease \in LeaseIds
        BY LeasesAssumption DEF Init, BufferIds, LeaseIds
      <3>4. granted \in [LeaseIds -> Nat]
        BY DEF Init
      <3> QED
        BY <3>1, <3>2, <3>3, <3>4 DEF Init, TypeOK
    <2>2. /\ \A b \in BufferIds : retained[b].frame = 0 /\ retained[b].refs = 0
          /\ \A l \in LeaseIds : leases[l] = 0
          /\ frames = 0 /\ reported = {}
      BY DEF Init, Absent
    <2>3. Sound
      BY <2>2, LeasesAssumption
         DEF Sound, FreshUnused, LeasesBacked, LeasesExclusive, RefsBacked,
             FramesDistinct, Accounted, IdleLeased, BufferIds, LeaseIds
    <2> QED
      BY <2>1, <2>3 DEF IInv
  <1>2. IInv /\ [Next]_vars => IInv'
    <2> SUFFICES ASSUME IInv, [Next]_vars
                 PROVE  IInv'
      OBVIOUS
    <2>1. TypeOK /\ TypeOK'
      BY TypeCorrect DEF IInv
    <2> SUFFICES ASSUME IdsLeft'
                 PROVE  Sound'
      BY <2>1 DEF IInv
    <2>2. CASE UNCHANGED vars
      BY <2>2 DEF IInv, IdsLeft, vars, Sound, FreshUnused, LeasesBacked,
                  LeasesExclusive, RefsBacked, FramesDistinct, Accounted, IdleLeased
    <2>3. ASSUME Next PROVE IdsLeft /\ Sound
      BY <2>1, <2>3, IdsLeftBefore DEF IInv
    <2>4. CASE PollBegin \/ HandleClose
      <3>1. IdsLeft /\ Sound
        BY <2>3, <2>4 DEF Next
      <3>2. /\ UNCHANGED <<retained, leases, nextBuffer, nextLease, frames, granted, reported>>
            /\ polling'
        BY <2>4 DEF PollBegin, HandleClose, engineVars
      <3> QED
        BY <3>1, <3>2
           DEF Sound, FreshUnused, LeasesBacked, LeasesExclusive, RefsBacked,
               FramesDistinct, Accounted, IdleLeased
    <2>5. ASSUME NEW bufferId \in HostIds \cup {0}, NEW kind \in FrameKind,
                 HostDelivers(bufferId, kind)
          PROVE  Sound'
      BY <2>1, <2>3, <2>5, SoundWsBytes DEF Next
    <2>6. CASE HandleSend
      BY <2>1, <2>3, <2>6, SoundSend DEF Next
    <2>7. ASSUME NEW l \in LeaseIds, ReleaseLease(l)
          PROVE  Sound'
      BY <2>1, <2>3, <2>7, SoundRelease DEF Next
    <2>8. CASE PollEnd
      BY <2>1, <2>3, <2>8, SoundPollEnd DEF Next
    <2> QED
      BY <2>2, <2>4, <2>5, <2>6, <2>7, <2>8 DEF Next
  <1>3. IInv => TypeOK /\ LeaseReadsItsFrame /\ FramesAccountedFor /\ IdleKeepsOnlyLeased
    <2> SUFFICES ASSUME IInv
                 PROVE  /\ TypeOK /\ LeaseReadsItsFrame /\ FramesAccountedFor
                        /\ IdleKeepsOnlyLeased
      OBVIOUS
    <2>1. TypeOK /\ LeaseReadsItsFrame /\ FramesAccountedFor
      BY DEF IInv, Sound, LeasesBacked, Accounted, LeaseReadsItsFrame,
             FramesAccountedFor
    <2>2. IdleKeepsOnlyLeased
      BY CountsAreLeases DEF IInv, IdleKeepsOnlyLeased
    <2> QED
      BY <2>1, <2>2
  <1> QED
    BY <1>1, <1>2, <1>3, PTL DEF Spec

\* The part of LeaseSafety about released buffers: until the ids are used up,
\* sweep_released reports a buffer exactly when the engine no longer keeps it.
COROLLARY BuffersAccounted == Spec => []FramesAccountedFor
  BY LeaseSafety, PTL

\* The part about idle engines: between polls, until the ids are used up, the
\* retained table holds exactly the buffers under the application's leases, and
\* counts those leases.
COROLLARY IdleBuffersLeased == Spec => []IdleKeepsOnlyLeased
  BY LeaseSafety, PTL
=============================================================================
